-------------------------- MODULE InventoryProofs --------------------------
(***************************************************************************)
(* The invariants of Inventory, for any number of rows and requests and    *)
(* any transactions that callers run.                                      *)
(*                                                                         *)
(* The journal and availability properties speak of the committed rows     *)
(* only and are not inductive: COMMIT publishes the uncommitted version of *)
(* a row.  RowsSound, the same facts of both versions, is.                 *)
(***************************************************************************)
EXTENDS Inventory, Sums, SequenceTheorems, TLAPS

Sound(r) ==
  /\ r.reserved = r.held
  /\ r.quantity >= r.moved
  /\ r.available >= r.quantity - r.reserved

SoundRow == {r \in Row : Sound(r)}

RowsSound ==
  /\ stock \in [Rows -> SoundRow]
  /\ latest \in [Rows -> SoundRow]

Inv == StockTypeOK /\ RowsSound

-----------------------------------------------------------------------------
(* The SQL on one row *)

\* A row holding what an earlier receipt left is sound.
LEMMA OpeningSound == \A n \in Nat : OpeningRow(n) \in SoundRow
  BY DEF OpeningRow, SoundRow, Sound, Row

\* The upsert keeps a row sound, whatever the change: it clamps the quantity
\* upwards, and recomputes available from what it has written.
LEMMA AppliedSound ==
  ASSUME NEW r \in SoundRow, NEW change \in Int
  PROVE  Applied(r, change) \in SoundRow
  <1> DEFINE onHand == AtLeastZero(r.quantity + change)
             free == AtLeastZero(onHand - r.reserved)
  <1>1. r \in Row /\ Sound(r)
    BY DEF SoundRow
  <1>2. onHand \in Nat /\ onHand >= r.quantity + change
    BY <1>1 DEF AtLeastZero, Row
  <1>3. free \in Nat /\ free >= onHand - r.reserved
    BY <1>1, <1>2 DEF AtLeastZero, Row
  <1>4. Applied(r, change) =
          [r EXCEPT !.quantity = onHand, !.available = free, !.moved = @ + change]
    BY DEF Applied
  <1> HIDE DEF onHand, free
  <1>5. Applied(r, change) =
          [quantity |-> onHand, reserved |-> r.reserved, available |-> free,
           moved |-> r.moved + change, held |-> r.held]
    BY <1>1, <1>4 DEF Row
  <1> QED
    BY <1>1, <1>2, <1>3, <1>5 DEF SoundRow, Sound, Row

\* So does a reservation, where the UPDATE's WHERE clause lets it through.
LEMMA ReservedSound ==
  ASSUME NEW r \in SoundRow, NEW n \in Nat, CanReserve(r, n)
  PROVE  Reserved(r, n) \in SoundRow
  <1> DEFINE promised == r.reserved + n
             free == r.available - n
             journal == r.held + n
  <1>1. r \in Row /\ Sound(r)
    BY DEF SoundRow
  <1>2. /\ promised \in Nat /\ free \in Nat /\ journal \in Int
        /\ promised = journal
        /\ free >= r.quantity - promised
    BY <1>1 DEF CanReserve, Row, Sound
  <1>3. Reserved(r, n) =
          [r EXCEPT !.reserved = promised, !.available = free, !.held = journal]
    BY DEF Reserved
  <1> HIDE DEF promised, free, journal
  <1>4. Reserved(r, n) =
          [quantity |-> r.quantity, reserved |-> promised, available |-> free,
           moved |-> r.moved, held |-> journal]
    BY <1>1, <1>3 DEF Row
  <1> QED
    BY <1>1, <1>2, <1>4 DEF SoundRow, Sound, Row

\* And a release.
LEMMA ReleasedSound ==
  ASSUME NEW r \in SoundRow, NEW n \in Nat, CanRelease(r, n)
  PROVE  Released(r, n) \in SoundRow
  <1> DEFINE promised == r.reserved - n
             free == r.available + n
             journal == r.held - n
  <1>1. r \in Row /\ Sound(r)
    BY DEF SoundRow
  <1>2. /\ promised \in Nat /\ free \in Nat /\ journal \in Int
        /\ promised = journal
        /\ free >= r.quantity - promised
    BY <1>1 DEF CanRelease, Row, Sound
  <1>3. Released(r, n) =
          [r EXCEPT !.reserved = promised, !.available = free, !.held = journal]
    BY DEF Released
  <1> HIDE DEF promised, free, journal
  <1>4. Released(r, n) =
          [quantity |-> r.quantity, reserved |-> promised, available |-> free,
           moved |-> r.moved, held |-> journal]
    BY <1>1, <1>3 DEF Row
  <1> QED
    BY <1>1, <1>2, <1>4 DEF SoundRow, Sound, Row

-----------------------------------------------------------------------------
(* The steps of a transaction *)

\* The rows are sound when the service starts.
LEMMA InitInv == StockInit => Inv
  BY OpeningSound, OpeningAssumption DEF StockInit, Inv, StockTypeOK, RowsSound, SoundRow

\* The call a transaction makes next is one.
LEMMA CurrentType ==
  ASSUME StockTypeOK, NEW p \in Procs, script[p] # << >>
  PROVE  /\ Current(p) \in Call
         /\ Tail(script[p]) \in Seq(Call)
  BY HeadTailProperties DEF StockTypeOK, Current

\* BEGIN touches no row.
LEMMA BeginInv ==
  ASSUME Inv, NEW p \in Procs, NEW s \in Seq(Call), Begin(p, s)
  PROVE  Inv'
  BY DEF Inv, StockTypeOK, RowsSound, Begin

\* A transaction that ends frees its rows.
LEMMA EndedType ==
  ASSUME Inv, NEW p \in Procs, Ended(p)
  PROVE  /\ owner' \in [Rows -> Procs \cup {NoProc}]
         /\ script' \in [Procs -> Seq(Call)]
         /\ pc' \in [Procs -> {"idle", "open", "checked"}]
  BY DEF Inv, StockTypeOK, Ended, Unlocked

\* COMMIT publishes sound rows.
LEMMA CommitInv ==
  ASSUME Inv, NEW p \in Procs, Commit(p)
  PROVE  Inv'
  BY EndedType DEF Inv, StockTypeOK, RowsSound, SoundRow, Commit

\* ROLLBACK restores sound rows.
LEMMA RollbackInv ==
  ASSUME Inv, NEW p \in Procs, Rollback(p)
  PROVE  Inv'
  BY EndedType DEF Inv, StockTypeOK, RowsSound, SoundRow, Rollback

\* A statement that writes a sound row.
LEMMA WroteInv ==
  ASSUME Inv, NEW p \in Procs, NEW k \in Rows, NEW r \in SoundRow,
         script[p] # << >>, Wrote(p, k, r)
  PROVE  Inv'
  <1>1. Tail(script[p]) \in Seq(Call)
    BY CurrentType DEF Inv
  <1> QED
    BY <1>1 DEF Inv, StockTypeOK, RowsSound, SoundRow, Wrote

\* Every statement of the service methods writes a sound row or rolls back.
LEMMA StatementInv ==
  ASSUME Inv, NEW p \in Procs, Statement(p)
  PROVE  Inv'
  <1>1. CASE BadAmount(p)
    BY <1>1, RollbackInv DEF BadAmount
  <1>2. CASE CheckOnHand(p)
    <2>1. CASE Rollback(p)
      BY <2>1, RollbackInv
    <2>2. CASE /\ pc' = [pc EXCEPT ![p] = "checked"]
               /\ UNCHANGED <<stock, latest, owner, script>>
      BY <2>2 DEF Inv, StockTypeOK, RowsSound
    <2> QED
      BY <1>2, <2>1, <2>2 DEF CheckOnHand
  <1>3. CASE ApplyStockChange(p)
    <2> DEFINE k == Current(p).row
               r == Applied(latest[k], Current(p).n)
    <2>1. script[p] # << >> /\ Wrote(p, k, r)
      BY <1>3 DEF ApplyStockChange, Calling
    <2>2. k \in Rows /\ Current(p).n \in Int
      BY <2>1, CurrentType DEF Inv, Call
    <2>3. r \in SoundRow
      BY <2>2, AppliedSound DEF Inv, RowsSound
    <2> QED
      BY <2>1, <2>2, <2>3, WroteInv
  <1>4. CASE ReserveStock(p)
    <2> DEFINE k == Current(p).row
               n == Current(p).n
    <2>1. script[p] # << >> /\ n > 0
      BY <1>4 DEF ReserveStock, Calling
    <2>2. k \in Rows /\ n \in Nat
      BY <2>1, CurrentType DEF Inv, Call
    <2>3. CASE Rollback(p)
      BY <2>3, RollbackInv
    <2>4. CASE CanReserve(latest[k], n) /\ Wrote(p, k, Reserved(latest[k], n))
      <3>1. Reserved(latest[k], n) \in SoundRow
        BY <2>2, <2>4, ReservedSound DEF Inv, RowsSound
      <3> QED
        BY <2>1, <2>2, <2>4, <3>1, WroteInv
    <2> QED
      BY <1>4, <2>3, <2>4 DEF ReserveStock
  <1>5. CASE ReleaseReservation(p)
    <2> DEFINE k == Current(p).row
               n == Current(p).n
    <2>1. script[p] # << >> /\ n > 0
      BY <1>5 DEF ReleaseReservation, Calling
    <2>2. k \in Rows /\ n \in Nat
      BY <2>1, CurrentType DEF Inv, Call
    <2>3. CASE Rollback(p)
      BY <2>3, RollbackInv
    <2>4. CASE CanRelease(latest[k], n) /\ Wrote(p, k, Released(latest[k], n))
      <3>1. Released(latest[k], n) \in SoundRow
        BY <2>2, <2>4, ReleasedSound DEF Inv, RowsSound
      <3> QED
        BY <2>1, <2>2, <2>4, <3>1, WroteInv
    <2> QED
      BY <1>5, <2>3, <2>4 DEF ReleaseReservation
  <1> QED
    BY <1>1, <1>2, <1>3, <1>4, <1>5 DEF Statement

\* So no step leaves the invariant.
LEMMA NextInv ==
  ASSUME Inv, [StockNext]_stockVars
  PROVE  Inv'
  <1>1. CASE UNCHANGED stockVars
    BY <1>1 DEF stockVars, Inv, StockTypeOK, RowsSound
  <1>2. CASE StockNext
    <2>1. PICK p \in Procs :
            \/ \E s \in Scripts : Begin(p, s)
            \/ Statement(p)
            \/ Commit(p)
            \/ DeadlockVictim(p)
            \/ Interrupt(p)
      BY <1>2 DEF StockNext, Statement
    <2>2. CASE \E s \in Scripts : Begin(p, s)
      BY <2>2, BeginInv, ScriptsAssumption
    <2>3. CASE Statement(p)
      BY <2>3, StatementInv
    <2>4. CASE Commit(p)
      BY <2>4, CommitInv
    <2>5. CASE DeadlockVictim(p) \/ Interrupt(p)
      BY <2>5, RollbackInv DEF DeadlockVictim, Interrupt
    <2> QED
      BY <2>1, <2>2, <2>3, <2>4, <2>5
  <1> QED
    BY <1>1, <1>2

-----------------------------------------------------------------------------
(* The theorems *)

\* The inductive invariant holds of every behaviour.
THEOREM InventoryInvariant == StockSpec => []Inv
  BY InitInv, NextInv, PTL DEF StockSpec

\* Type correctness; available and reserved, in particular, never go negative.
THEOREM InventoryTypeOK == StockSpec => []StockTypeOK
  <1>1. Inv => StockTypeOK
    BY DEF Inv
  <1> QED
    BY <1>1, InventoryInvariant, PTL

\* stock_levels.reserved is the sum of the RESERVE and RELEASE movements.
THEOREM ReservationsReconcile == StockSpec => []ReservedMatchesJournal
  <1>1. Inv => ReservedMatchesJournal
    BY DEF Inv, RowsSound, SoundRow, Sound, ReservedMatchesJournal
  <1> QED
    BY <1>1, InventoryInvariant, PTL

\* What the movements account for is on hand.
THEOREM OnHandReconciles == StockSpec => []OnHandCoversJournal
  <1>1. Inv => OnHandCoversJournal
    BY DEF Inv, RowsSound, SoundRow, Sound, OnHandCoversJournal
  <1> QED
    BY <1>1, InventoryInvariant, PTL

\* No step loses sellable stock.
THEOREM AvailabilityIsKept == StockSpec => []NoLostAvailability
  <1>1. Inv => NoLostAvailability
    BY DEF Inv, RowsSound, SoundRow, Sound, NoLostAvailability
  <1> QED
    BY <1>1, InventoryInvariant, PTL

-----------------------------------------------------------------------------
(***************************************************************************)
(* What a transaction has done so far, for the components that use one:    *)
(* the rows it has locked differ from the committed ones by the calls it   *)
(* has made.                                                               *)
(***************************************************************************)

\* What a call moves in or out of row k, and what it holds of it.
Moves(c, k) == IF c.op = "apply" /\ c.row = k THEN c.n ELSE 0

Holds(c, k) ==
  IF c.op = "apply" \/ c.row # k THEN 0 ELSE IF c.op = "reserve" THEN c.n ELSE -c.n

\* The units that the first j calls move in and out of row k, and those they hold.
MovedBy(calls, j, k) == SumFunctionOnSet([i \in DOMAIN calls |-> Moves(calls[i], k)], 1..j)
HeldBy(calls, j, k) == SumFunctionOnSet([i \in DOMAIN calls |-> Holds(calls[i], k)], 1..j)

\* How many calls of its transaction p has made.
Made(p, calls) == Len(calls) - Len(script[p])

\* p has made the first calls of its transaction, and nobody else has written the
\* rows they touched.
Executed(p, calls) ==
  LET j == Made(p, calls)
  IN  /\ j \in 0..Len(calls)
      /\ script[p] = SubSeq(calls, j + 1, Len(calls))
      /\ \A k \in Rows :
           IF owner[k] = p
           THEN /\ latest[k].moved = stock[k].moved + MovedBy(calls, j, k)
                /\ latest[k].held = stock[k].held + HeldBy(calls, j, k)
           ELSE MovedBy(calls, j, k) = 0 /\ HeldBy(calls, j, k) = 0

\* The locks, and nothing left to do without a transaction.
Locks ==
  /\ LockDiscipline
  /\ \A p \in Procs : pc[p] = "idle" => script[p] = << >>

\* What is left of a sequence after its first j elements.
LEMMA RestOfSeq ==
  ASSUME NEW S, NEW s \in Seq(S), NEW j \in Nat, j < Len(s)
  PROVE  LET rest == SubSeq(s, j + 1, Len(s))
         IN  /\ rest \in Seq(S) /\ rest # << >> /\ Len(rest) = Len(s) - j
             /\ Head(rest) = s[j + 1]
             /\ Tail(rest) = SubSeq(s, (j + 1) + 1, Len(s))
             /\ Len(Tail(rest)) = Len(s) - (j + 1)
<1> DEFINE rest == SubSeq(s, j + 1, Len(s))
           next == SubSeq(s, (j + 1) + 1, Len(s))
<1>1. rest \in Seq(S) /\ Len(rest) = Len(s) - j /\ \A i \in 1..(Len(s) - j) : rest[i] = s[j + i]
  OBVIOUS
<1>2. next \in Seq(S) /\ Len(next) = Len(s) - (j + 1)
      /\ \A i \in 1..(Len(s) - (j + 1)) : next[i] = s[j + 1 + i]
  OBVIOUS
<1> HIDE DEF rest, next
<1>3. rest # << >>
  BY <1>1
<1>4. /\ Head(rest) = rest[1] /\ Tail(rest) \in Seq(S) /\ Len(Tail(rest)) = Len(rest) - 1
      /\ \A i \in 1..Len(Tail(rest)) : Tail(rest)[i] = rest[i + 1]
  BY <1>1, <1>3, HeadTailProperties
<1>5. \A i \in 1..Len(next) : Tail(rest)[i] = next[i]
  BY <1>1, <1>2, <1>4
<1>6. Tail(rest) = next
  BY <1>1, <1>2, <1>4, <1>5, SeqEqual
<1>7. Head(rest) = s[j + 1]
  BY <1>1, <1>4
<1>8. Len(Tail(rest)) = Len(s) - (j + 1)
  BY <1>1, <1>4
<1> QED
  BY <1>1, <1>3, <1>6, <1>7, <1>8 DEF rest, next

\* What calls move and hold are integers.
LEMMA EffectTypes ==
  ASSUME NEW calls \in Seq(Call), NEW k \in Rows, NEW i \in DOMAIN calls
  PROVE  Moves(calls[i], k) \in Int /\ Holds(calls[i], k) \in Int
<1>1. calls[i] \in Call
  OBVIOUS
<1> QED
  BY <1>1 DEF Moves, Holds, Call

\* No call has no effect.
LEMMA NoCallsYet ==
  ASSUME NEW calls, NEW k
  PROVE  MovedBy(calls, 0, k) = 0 /\ HeldBy(calls, 0, k) = 0
<1>1. 1..0 = {}
  OBVIOUS
<1> QED
  BY <1>1, SumOfNothing DEF MovedBy, HeldBy

\* One more call adds its own effect.
LEMMA OneMoreCall ==
  ASSUME NEW calls \in Seq(Call), NEW j \in Nat, j < Len(calls), NEW k \in Rows
  PROVE  /\ MovedBy(calls, j, k) \in Int /\ HeldBy(calls, j, k) \in Int
         /\ MovedBy(calls, j + 1, k) = MovedBy(calls, j, k) + Moves(calls[j + 1], k)
         /\ HeldBy(calls, j + 1, k) = HeldBy(calls, j, k) + Holds(calls[j + 1], k)
<1> DEFINE m == [i \in DOMAIN calls |-> Moves(calls[i], k)]
           h == [i \in DOMAIN calls |-> Holds(calls[i], k)]
<1>1. 1..(j + 1) \subseteq DOMAIN calls /\ IsFiniteSet(1..j)
  BY FS_Interval
<1>2. \A i \in 1..(j + 1) : m[i] \in Int
  BY <1>1, EffectTypes
<1>3. \A i \in 1..(j + 1) : h[i] \in Int
  BY <1>1, EffectTypes
<1>4. m[j + 1] = Moves(calls[j + 1], k) /\ h[j + 1] = Holds(calls[j + 1], k)
  BY <1>1
<1> HIDE DEF m, h
<1>5. SumFunctionOnSet(m, 1..j) \in Int /\ SumFunctionOnSet(h, 1..j) \in Int
  BY <1>1, <1>2, <1>3, SumIsInt
<1>6. SumFunctionOnSet(m, 1..(j + 1)) = SumFunctionOnSet(m, 1..j) + m[j + 1]
  BY <1>2, SumGoesOn
<1>7. SumFunctionOnSet(h, 1..(j + 1)) = SumFunctionOnSet(h, 1..j) + h[j + 1]
  BY <1>3, SumGoesOn
<1> QED
  BY <1>4, <1>5, <1>6, <1>7 DEF MovedBy, HeldBy, m, h

\* Nothing is locked when the service starts.
LEMMA InitLocks == StockInit => Locks
BY NoProcAssumption DEF StockInit, Locks, LockDiscipline

\* A transaction that begins has made none of its calls.
LEMMA BeginExecutes ==
  ASSUME Inv, Locks, NEW p \in Procs, NEW s \in Seq(Call), Begin(p, s)
  PROVE  /\ Locks'
         /\ Executed(p, s)'
         /\ pc'[p] = "open"
         /\ stock' = stock
<1>1. pc'[p] = "open" /\ script'[p] = s /\ owner' = owner /\ stock' = stock
  BY DEF Begin, Inv, StockTypeOK
<1>2. Locks'
  BY DEF Locks, LockDiscipline, Begin, Inv, StockTypeOK
<1>3. \A k \in Rows : owner'[k] # p
  BY DEF Locks, LockDiscipline, Begin
<1>4. s = SubSeq(s, 1, Len(s)) /\ Len(s) \in Nat /\ Len(s) - Len(s) = 0
  OBVIOUS
<1>5. Executed(p, s)'
  BY <1>1, <1>3, <1>4, NoCallsYet DEF Executed, Made
<1> QED
  BY <1>1, <1>2, <1>5

\* A call that succeeds.
LEMMA WroteExecutes ==
  ASSUME Inv, Locks, NEW p \in Procs, NEW calls \in Seq(Call), Executed(p, calls),
         script[p] # << >>, CanLock(p, Current(p).row),
         NEW r, Wrote(p, Current(p).row, r),
         r.moved = latest[Current(p).row].moved + Moves(Current(p), Current(p).row),
         r.held = latest[Current(p).row].held + Holds(Current(p), Current(p).row)
  PROVE  Executed(p, calls)'
<1> DEFINE j == Made(p, calls)
           c == Current(p)
<1>1. j \in 0..Len(calls) /\ script[p] = SubSeq(calls, j + 1, Len(calls))
  BY DEF Executed
<1>2. j < Len(calls) /\ j \in Nat /\ c = calls[j + 1] /\ script[p] \in Seq(Call)
  BY <1>1 DEF Current, Inv, StockTypeOK
<1>3. c \in Call /\ c.row \in Rows
  BY <1>2, CurrentType DEF Inv, Call
<1>4. script'[p] = Tail(script[p])
  BY DEF Wrote, Inv, StockTypeOK
<1>5. script'[p] = SubSeq(calls, (j + 1) + 1, Len(calls)) /\ Made(p, calls)' = j + 1
  <2> HIDE DEF j
  <2> DEFINE rest == SubSeq(calls, j + 1, Len(calls))
  <2>1. /\ Len(Tail(rest)) = Len(calls) - (j + 1)
        /\ Tail(rest) = SubSeq(calls, (j + 1) + 1, Len(calls))
    BY <1>2, RestOfSeq
  <2>2. script'[p] = Tail(rest)
    BY <1>1, <1>4
  <2>3. Len(calls) \in Nat
    OBVIOUS
  <2> HIDE DEF rest
  <2>4. Len(script'[p]) = Len(calls) - (j + 1)
    BY <2>1, <2>2
  <2>5. j \in Nat
    BY <1>2
  <2>6. Len(calls) - Len(script'[p]) = j + 1
    BY <2>3, <2>4, <2>5
  <2> QED
    BY <2>1, <2>2, <2>6 DEF Made
<1>6. ASSUME NEW k \in Rows
      PROVE  IF owner'[k] = p
             THEN /\ latest'[k].moved = stock'[k].moved + MovedBy(calls, j + 1, k)
                  /\ latest'[k].held = stock'[k].held + HeldBy(calls, j + 1, k)
             ELSE MovedBy(calls, j + 1, k) = 0 /\ HeldBy(calls, j + 1, k) = 0
  <2>1. /\ MovedBy(calls, j, k) \in Int /\ HeldBy(calls, j, k) \in Int
        /\ MovedBy(calls, j + 1, k) = MovedBy(calls, j, k) + Moves(c, k)
        /\ HeldBy(calls, j + 1, k) = HeldBy(calls, j, k) + Holds(c, k)
    BY <1>2, OneMoreCall
  <2>2. stock' = stock
    BY DEF Wrote
  <2>3. Moves(c, k) \in Int /\ Holds(c, k) \in Int
    BY <1>3 DEF Moves, Holds, Call
  <2>4. /\ stock[k].moved \in Int /\ stock[k].held \in Int
        /\ latest[k].moved \in Int /\ latest[k].held \in Int
    BY DEF Inv, StockTypeOK, Row
  <2>5. IF owner[k] = p
        THEN /\ latest[k].moved = stock[k].moved + MovedBy(calls, j, k)
             /\ latest[k].held = stock[k].held + HeldBy(calls, j, k)
        ELSE MovedBy(calls, j, k) = 0 /\ HeldBy(calls, j, k) = 0
    BY DEF Executed
  <2> HIDE DEF j, c
  <2>6. CASE k = c.row
    <3>1. owner'[k] = p /\ latest'[k] = r
      BY <2>6 DEF Wrote, Inv, StockTypeOK, c
    <3>2. /\ latest[k].moved = stock[k].moved + MovedBy(calls, j, k)
          /\ latest[k].held = stock[k].held + HeldBy(calls, j, k)
      <4>1. CASE owner[k] = p
        BY <2>5, <4>1
      <4>2. CASE owner[k] # p
        <5>1. latest[k] = stock[k]
          BY <2>6, <4>2 DEF CanLock, Locks, LockDiscipline, c
        <5> QED
          BY <2>4, <2>5, <4>2, <5>1
      <4> QED
        BY <4>1, <4>2
    <3>3. r.moved = latest[k].moved + Moves(c, k) /\ r.held = latest[k].held + Holds(c, k)
      BY <2>6 DEF c
    <3>4. latest'[k].moved = stock'[k].moved + MovedBy(calls, j + 1, k)
      BY <2>1, <2>2, <2>3, <2>4, <3>1, <3>2, <3>3
    <3>5. latest'[k].held = stock'[k].held + HeldBy(calls, j + 1, k)
      BY <2>1, <2>2, <2>3, <2>4, <3>1, <3>2, <3>3
    <3> QED
      BY <3>1, <3>4, <3>5
  <2>7. CASE k # c.row
    <3>1. owner'[k] = owner[k] /\ latest'[k] = latest[k]
      BY <2>7 DEF Wrote, Inv, StockTypeOK, c
    <3>2. Moves(c, k) = 0 /\ Holds(c, k) = 0
      BY <2>7 DEF Moves, Holds
    <3> QED
      BY <2>1, <2>2, <2>4, <2>5, <3>1, <3>2
  <2> QED
    BY <2>6, <2>7
<1>7. j + 1 \in 0..Len(calls)
  BY <1>1, <1>2
<1> HIDE DEF j, c
<1> QED
  BY <1>5, <1>6, <1>7 DEF Executed

\* A statement locks its row for an open transaction.
LEMMA WroteLocks ==
  ASSUME Inv, Locks, NEW p \in Procs, NEW k \in Rows, CanLock(p, k), NEW r, Wrote(p, k, r)
  PROVE  Locks'
BY NoProcAssumption DEF Wrote, Locks, LockDiscipline, CanLock, Inv, StockTypeOK

\* A transaction that ends leaves no lock.
LEMMA EndLocks ==
  ASSUME Inv, Locks, NEW p \in Procs, Rollback(p) \/ Commit(p)
  PROVE  Locks'
BY NoProcAssumption DEF Rollback, Commit, Ended, Unlocked, Locks, LockDiscipline, Inv, StockTypeOK

\* A statement goes on with the transaction, or ends it without effect.
LEMMA StatementExecutes ==
  ASSUME Inv, Locks, NEW p \in Procs, NEW calls \in Seq(Call), Executed(p, calls), Statement(p)
  PROVE  /\ Locks' /\ stock' = stock
         /\ \/ Rollback(p)
            \/ pc'[p] # "idle" /\ Executed(p, calls)'
<1> DEFINE c == Current(p)
           k == Current(p).row
<1>1. ASSUME Rollback(p) PROVE Locks' /\ stock' = stock
  BY <1>1, EndLocks DEF Rollback
<1>2. ASSUME script[p] # << >>, CanLock(p, k), NEW r, Wrote(p, k, r),
             r.moved = latest[k].moved + Moves(c, k), r.held = latest[k].held + Holds(c, k)
      PROVE  Locks' /\ stock' = stock /\ pc'[p] # "idle" /\ Executed(p, calls)'
  <2>1. k \in Rows
    BY <1>2, CurrentType DEF Inv, Call
  <2>2. Executed(p, calls)'
    BY <1>2, WroteExecutes
  <2>3. Locks'
    BY <1>2, <2>1, WroteLocks
  <2>4. stock' = stock /\ pc'[p] = "open"
    BY <1>2 DEF Wrote, Inv, StockTypeOK
  <2> QED
    BY <2>2, <2>3, <2>4
<1>3. ASSUME script[p] # << >>
      PROVE  /\ c \in Call /\ k \in Rows /\ c.n \in Int /\ latest[k] \in Row
             /\ latest[k].moved \in Int /\ latest[k].held \in Int
  <2>1. c \in Call
    BY <1>3, CurrentType DEF Inv
  <2> QED
    BY <2>1 DEF Inv, StockTypeOK, Call, Row
<1> HIDE DEF c, k
<1>4. CASE BadAmount(p)
  BY <1>1, <1>4 DEF BadAmount
<1>5. CASE CheckOnHand(p)
  <2>1. CASE Rollback(p)
    BY <1>1, <2>1
  <2>2. CASE /\ pc' = [pc EXCEPT ![p] = "checked"]
             /\ UNCHANGED <<stock, latest, owner, script>>
    <3>1. pc'[p] = "checked"
      BY <2>2 DEF Inv, StockTypeOK
    <3>2. Executed(p, calls)'
      BY <2>2 DEF Executed, Made
    <3>3. Locks'
      BY <2>2 DEF Locks, LockDiscipline, Inv, StockTypeOK
    <3> QED
      BY <2>2, <3>1, <3>2, <3>3
  <2> QED
    BY <1>5, <2>1, <2>2 DEF CheckOnHand
<1>6. CASE ApplyStockChange(p)
  <2> DEFINE r == Applied(latest[k], c.n)
  <2>1. script[p] # << >> /\ c.op = "apply" /\ CanLock(p, k) /\ Wrote(p, k, r)
    BY <1>6 DEF ApplyStockChange, Calling, c, k
  <2>2. r.moved = latest[k].moved + c.n /\ r.held = latest[k].held
    BY <1>3, <2>1 DEF Applied, Row
  <2>3. Moves(c, k) = c.n /\ Holds(c, k) = 0
    BY <2>1 DEF Moves, Holds, c, k
  <2> HIDE DEF r
  <2>4. r.moved = latest[k].moved + Moves(c, k) /\ r.held = latest[k].held + Holds(c, k)
    BY <1>3, <2>1, <2>2, <2>3
  <2> QED
    BY <1>2, <2>1, <2>4
<1>7. CASE ReserveStock(p)
  <2> DEFINE r == Reserved(latest[k], c.n)
  <2>1. /\ script[p] # << >> /\ c.op = "reserve" /\ CanLock(p, k)
        /\ Wrote(p, k, r) \/ Rollback(p)
    BY <1>7 DEF ReserveStock, Calling, c, k
  <2>2. r.moved = latest[k].moved /\ r.held = latest[k].held + c.n
    BY <1>3, <2>1 DEF Reserved, Row
  <2>3. Moves(c, k) = 0 /\ Holds(c, k) = c.n
    BY <2>1 DEF Moves, Holds, c, k
  <2> HIDE DEF r
  <2>4. r.moved = latest[k].moved + Moves(c, k) /\ r.held = latest[k].held + Holds(c, k)
    BY <1>3, <2>1, <2>2, <2>3
  <2> QED
    BY <1>1, <1>2, <2>1, <2>4
<1>8. CASE ReleaseReservation(p)
  <2> DEFINE r == Released(latest[k], c.n)
  <2>1. /\ script[p] # << >> /\ c.op = "release" /\ CanLock(p, k)
        /\ Wrote(p, k, r) \/ Rollback(p)
    BY <1>8 DEF ReleaseReservation, Calling, c, k
  <2>2. r.moved = latest[k].moved /\ r.held = latest[k].held - c.n
    BY <1>3, <2>1 DEF Released, Row
  <2>3. Moves(c, k) = 0 /\ Holds(c, k) = -c.n
    BY <2>1 DEF Moves, Holds, c, k
  <2> HIDE DEF r
  <2>4. r.moved = latest[k].moved + Moves(c, k) /\ r.held = latest[k].held + Holds(c, k)
    BY <1>3, <2>1, <2>2, <2>3
  <2> QED
    BY <1>1, <1>2, <2>1, <2>4
<1> QED
  BY <1>4, <1>5, <1>6, <1>7, <1>8 DEF Statement

\* COMMIT publishes what all calls of the transaction have done.
LEMMA CommitPublishes ==
  ASSUME Inv, Locks, NEW p \in Procs, NEW calls \in Seq(Call), Executed(p, calls), Commit(p)
  PROVE  /\ Locks' /\ pc'[p] = "idle"
         /\ \A k \in Rows :
              /\ stock'[k].moved = stock[k].moved + MovedBy(calls, Len(calls), k)
              /\ stock'[k].held = stock[k].held + HeldBy(calls, Len(calls), k)
<1>1. Made(p, calls) = Len(calls)
  BY DEF Commit, Made
<1>2. ASSUME NEW k \in Rows
      PROVE  /\ stock'[k].moved = stock[k].moved + MovedBy(calls, Len(calls), k)
             /\ stock'[k].held = stock[k].held + HeldBy(calls, Len(calls), k)
  <2>1. stock'[k] = IF owner[k] = p THEN latest[k] ELSE stock[k]
    BY DEF Commit
  <2>2. stock[k].moved \in Int /\ stock[k].held \in Int
    BY DEF Inv, StockTypeOK, Row
  <2> QED
    BY <1>1, <2>1, <2>2 DEF Executed
<1>3. pc'[p] = "idle"
  BY DEF Commit, Ended, Inv, StockTypeOK
<1> QED
  BY <1>2, <1>3, EndLocks

\* What a transaction does not touch of another one.
Untouched(q) ==
  /\ script'[q] = script[q] /\ pc'[q] = pc[q]
  /\ \A k \in Rows : /\ owner'[k] = q <=> owner[k] = q
                     /\ owner[k] = q => latest'[k] = latest[k] /\ stock'[k] = stock[k]

\* What one transaction has done is nobody else's.
LEMMA OthersAreUntouched ==
  ASSUME Inv, Locks, NEW p \in Procs, NEW q \in Procs \ {p},
         Statement(p) \/ Commit(p) \/ Rollback(p) \/ \E s : Begin(p, s)
  PROVE  Untouched(q)
<1>1. ASSUME Rollback(p) \/ Commit(p) PROVE Untouched(q)
  BY <1>1, NoProcAssumption DEF Untouched, Rollback, Commit, Ended, Unlocked, Inv, StockTypeOK
<1>2. ASSUME NEW k \in Rows, NEW r, CanLock(p, k), Wrote(p, k, r) PROVE Untouched(q)
  BY <1>2, NoProcAssumption DEF Untouched, Wrote, CanLock, Inv, StockTypeOK
<1>3. ASSUME \E s : Begin(p, s) PROVE Untouched(q)
  BY <1>3 DEF Untouched, Begin, Inv, StockTypeOK
<1>4. ASSUME Calling(p, "apply") \/ Calling(p, "reserve") \/ Calling(p, "release")
      PROVE  Current(p).row \in Rows
  BY <1>4, CurrentType DEF Calling, Inv, Call
<1>5. ASSUME Statement(p) PROVE Untouched(q)
  <2>1. CASE BadAmount(p)
    BY <1>1, <2>1 DEF BadAmount
  <2>2. CASE CheckOnHand(p)
    <3>1. CASE Rollback(p)
      BY <1>1, <3>1
    <3>2. CASE /\ pc' = [pc EXCEPT ![p] = "checked"]
               /\ UNCHANGED <<stock, latest, owner, script>>
      BY <3>2 DEF Untouched, Inv, StockTypeOK
    <3> QED
      BY <2>2, <3>1, <3>2 DEF CheckOnHand
  <2>3. CASE ApplyStockChange(p)
    BY <1>2, <1>4, <2>3 DEF ApplyStockChange
  <2>4. CASE ReserveStock(p)
    BY <1>1, <1>2, <1>4, <2>4 DEF ReserveStock
  <2>5. CASE ReleaseReservation(p)
    BY <1>1, <1>2, <1>4, <2>5 DEF ReleaseReservation
  <2> QED
    BY <1>5, <2>1, <2>2, <2>3, <2>4, <2>5 DEF Statement
<1> QED
  BY <1>1, <1>3, <1>5

\* What a transaction has done stays so while nobody touches it.
LEMMA OthersAreExecuted ==
  ASSUME NEW q \in Procs, Untouched(q), NEW calls, Executed(q, calls)
  PROVE  Executed(q, calls)'
BY DEF Untouched, Executed, Made

\* Both ends of a transaction leave its process idle.
LEMMA RollbackEnds ==
  ASSUME Inv, NEW p \in Procs, Rollback(p) \/ Commit(p)
  PROVE  pc'[p] = "idle"
BY DEF Rollback, Commit, Ended, Inv, StockTypeOK

\* Only an open transaction makes a statement.
LEMMA StatementIsOpen ==
  ASSUME NEW p \in Procs, Statement(p)
  PROVE  pc[p] # "idle"
BY DEF Statement, BadAmount, CheckOnHand, ApplyStockChange, ReserveStock, ReleaseReservation

-----------------------------------------------------------------------------
(***************************************************************************)
(* Transactions are atomic: COMMIT makes AtomicStock's step, and no other  *)
(* step is visible.  Its calls are replayed on the rows that are committed *)
(* at that moment: the rows it has locked are those it found, and it has   *)
(* called for nothing on the others.                                       *)
(***************************************************************************)

After(rows, s) == Atomic!After(rows, s)
Effect(rows, c) == Atomic!Effect(rows, c)
Possible(rows, c) == Atomic!Possible(rows, c)
Change(r, c) == Atomic!Change(r, c)

\* f is the rows after each of the first n calls of s.
Replays(f, rows, s, n) ==
  f = [i \in 0..n |-> IF i = 0 THEN rows ELSE Effect(f[i - 1], s[i])]

\* There is such a function: it goes on with one call.
LEMMA ReplaysExist ==
  ASSUME NEW rows, NEW s, NEW n \in Nat
  PROVE  \E f : Replays(f, rows, s, n)
<1> DEFINE T == {i \in 0..n : \E f : Replays(f, rows, s, i)}
<1>1. 0 \in T
  <2> DEFINE f == [i \in 0..0 |-> rows]
  <2>1. f = [i \in 0..0 |-> IF i = 0 THEN rows ELSE Effect(f[i - 1], s[i])]
    OBVIOUS
  <2> HIDE DEF f
  <2>2. Replays(f, rows, s, 0)
    BY <2>1 DEF Replays
  <2> QED
    BY <2>2
<1>2. ASSUME NEW j \in 0..(n - 1), j \in T PROVE j + 1 \in T
  <2>1. PICK f : Replays(f, rows, s, j)
    BY <1>2
  <2> DEFINE g == [i \in 0..(j + 1) |-> IF i = j + 1 THEN Effect(f[j], s[j + 1]) ELSE f[i]]
  <2>2. ASSUME NEW i \in 0..j PROVE f[i] = IF i = 0 THEN rows ELSE Effect(f[i - 1], s[i])
    BY <2>1, Zenon DEF Replays
  <2>3. ASSUME NEW i \in 0..(j + 1)
        PROVE  g[i] = IF i = 0 THEN rows ELSE Effect(g[i - 1], s[i])
    <3>1. CASE i = j + 1
      <4>1. g[i - 1] = f[j] /\ g[i] = Effect(f[j], s[j + 1]) /\ i # 0
        BY <3>1
      <4> HIDE DEF g
      <4> QED
        BY <3>1, <4>1
    <3>2. CASE i # j + 1
      <4>1. i \in 0..j /\ g[i] = f[i] /\ (i # 0 => g[i - 1] = f[i - 1])
        BY <3>2
      <4> HIDE DEF g
      <4> QED
        BY <2>2, <4>1
    <3> QED
      BY <3>1, <3>2
  <2>4. g = [i \in 0..(j + 1) |-> g[i]]
    OBVIOUS
  <2> HIDE DEF g
  <2>5. Replays(g, rows, s, j + 1)
    BY <2>3, <2>4 DEF Replays
  <2> QED
    BY <2>5
<1> HIDE DEF T
<1>3. \A i \in 0..n : i \in T
  BY <1>1, <1>2, CountingUp
<1> QED
  BY <1>3 DEF T

\* So the rows after the calls are what the recursion says.
LEMMA AfterUnfolds ==
  ASSUME NEW rows, NEW s, Len(s) \in Nat
  PROVE  /\ After(rows, s)[0] = rows
         /\ \A i \in 1..Len(s) : After(rows, s)[i] = Effect(After(rows, s)[i - 1], s[i])
<1> DEFINE f == CHOOSE f : Replays(f, rows, s, Len(s))
<1>1. After(rows, s) = f
  BY Zenon DEF After, Atomic!After, Replays, Effect
<1>2. Replays(f, rows, s, Len(s))
  BY ReplaysExist
<1> HIDE DEF f
<1>3. \A i \in 0..Len(s) : f[i] = IF i = 0 THEN rows ELSE Effect(f[i - 1], s[i])
  BY <1>2, Zenon DEF Replays
<1> QED
  BY <1>1, <1>3

\* A function on the rows.
OnRows(rows) == rows = [k \in Rows |-> rows[k]]

\* A call changes its row by what it finds there, and no other.
LEMMA EffectIsLocal ==
  ASSUME NEW rows, OnRows(rows), NEW c, c.row \in Rows
  PROVE  /\ OnRows(Effect(rows, c))
         /\ Effect(rows, c)[c.row] = Change(rows[c.row], c)
         /\ \A k \in Rows \ {c.row} : Effect(rows, c)[k] = rows[k]
<1>1. Effect(rows, c) = [rows EXCEPT ![c.row] = Change(@, c)]
  BY DEF Effect, Atomic!Effect, Change
<1>2. DOMAIN rows = Rows
  BY DEF OnRows
<1> QED
  BY <1>1, <1>2 DEF OnRows

\* The rows keep their domain.
LEMMA AfterOnRows ==
  ASSUME NEW rows, OnRows(rows), NEW s \in Seq(Call)
  PROVE  \A j \in 0..Len(s) : OnRows(After(rows, s)[j])
<1> DEFINE n == Len(s)
           T == {j \in 0..n : OnRows(After(rows, s)[j])}
<1>1. n \in Nat /\ \A i \in 1..n : s[i] \in Call
  OBVIOUS
<1>2. /\ After(rows, s)[0] = rows
      /\ \A i \in 1..n : After(rows, s)[i] = Effect(After(rows, s)[i - 1], s[i])
  BY <1>1, AfterUnfolds
<1>3. 0 \in T
  BY <1>1, <1>2
<1>4. ASSUME NEW j \in 0..(n - 1), j \in T PROVE j + 1 \in T
  <2>1. j + 1 \in 1..n /\ (j + 1) - 1 = j /\ OnRows(After(rows, s)[j])
    BY <1>1, <1>4
  <2>2. s[j + 1].row \in Rows /\ After(rows, s)[j + 1] = Effect(After(rows, s)[j], s[j + 1])
    BY <1>1, <1>2, <2>1 DEF Call
  <2> HIDE DEF n
  <2>3. OnRows(After(rows, s)[j + 1])
    BY <2>1, <2>2, EffectIsLocal
  <2> QED
    BY <1>1, <2>1, <2>3
<1> HIDE DEF T, n
<1>5. \A j \in 0..n : j \in T
  BY <1>1, <1>3, <1>4, CountingUp
<1> QED
  BY <1>5 DEF T, n

\* What calls make of a row depends on that row alone...
LEMMA AfterIsLocal ==
  ASSUME NEW rows, NEW others, OnRows(rows), OnRows(others), NEW s \in Seq(Call),
         NEW k \in Rows, rows[k] = others[k]
  PROVE  \A j \in 0..Len(s) : After(rows, s)[j][k] = After(others, s)[j][k]
<1> DEFINE n == Len(s)
           T == {j \in 0..n : After(rows, s)[j][k] = After(others, s)[j][k]}
<1>1. n \in Nat /\ \A i \in 1..n : s[i] \in Call
  OBVIOUS
<1>2. /\ After(rows, s)[0] = rows
      /\ \A i \in 1..n : After(rows, s)[i] = Effect(After(rows, s)[i - 1], s[i])
      /\ After(others, s)[0] = others
      /\ \A i \in 1..n : After(others, s)[i] = Effect(After(others, s)[i - 1], s[i])
  BY <1>1, AfterUnfolds
<1>3. 0 \in T
  BY <1>1, <1>2
<1>4. ASSUME NEW j \in 0..(n - 1), j \in T PROVE j + 1 \in T
  <2> PICK old, now, c : /\ old = After(rows, s)[j] /\ now = After(others, s)[j]
                         /\ c = s[j + 1]
    OBVIOUS
  <2>1. j + 1 \in 1..n /\ (j + 1) - 1 = j /\ old[k] = now[k] /\ j \in 0..n
    BY <1>1, <1>4
  <2>2. /\ c.row \in Rows
        /\ After(rows, s)[j + 1] = Effect(old, c) /\ After(others, s)[j + 1] = Effect(now, c)
    BY <1>1, <1>2, <2>1 DEF Call
  <2>3. OnRows(old) /\ OnRows(now)
    BY <2>1, AfterOnRows
  <2> HIDE DEF n
  <2>4. Effect(old, c)[k] = Effect(now, c)[k]
    BY <2>1, <2>2, <2>3, EffectIsLocal
  <2> QED
    BY <1>1, <2>1, <2>2, <2>4
<1> HIDE DEF T, n
<1>5. \A j \in 0..n : j \in T
  BY <1>1, <1>3, <1>4, CountingUp
<1> QED
  BY <1>5 DEF T, n

\* ...which stays as it is until one of them names it.
LEMMA AfterLeavesRows ==
  ASSUME NEW rows, OnRows(rows), NEW s \in Seq(Call), NEW m \in 0..Len(s),
         NEW k \in Rows, \A i \in 1..m : s[i].row # k
  PROVE  After(rows, s)[m][k] = rows[k]
<1> DEFINE T == {j \in 0..m : After(rows, s)[j][k] = rows[k]}
<1>1. m \in Nat /\ Len(s) \in Nat /\ \A i \in 1..Len(s) : s[i] \in Call
  OBVIOUS
<1>2. /\ After(rows, s)[0] = rows
      /\ \A i \in 1..Len(s) : After(rows, s)[i] = Effect(After(rows, s)[i - 1], s[i])
  BY <1>1, AfterUnfolds
<1>3. 0 \in T
  BY <1>1, <1>2
<1>4. ASSUME NEW j \in 0..(m - 1), j \in T PROVE j + 1 \in T
  <2> PICK old, c : old = After(rows, s)[j] /\ c = s[j + 1]
    OBVIOUS
  <2>1. j + 1 \in 1..m /\ j + 1 \in 1..Len(s) /\ (j + 1) - 1 = j /\ old[k] = rows[k] /\ j \in 0..Len(s)
    BY <1>1, <1>4
  <2>2. c.row \in Rows /\ c.row # k /\ After(rows, s)[j + 1] = Effect(old, c)
    BY <1>1, <1>2, <2>1 DEF Call
  <2>3. OnRows(old)
    BY <2>1, AfterOnRows
  <2>4. Effect(old, c)[k] = old[k]
    BY <2>2, <2>3, EffectIsLocal
  <2> QED
    BY <1>1, <2>1, <2>2, <2>4
<1> HIDE DEF T
<1>5. \A j \in 0..m : j \in T
  BY <1>1, <1>3, <1>4, CountingUp
<1> QED
  BY <1>1, <1>5 DEF T

\* p has made the first calls of s, each of them possible on the committed rows
\* after those before it, and what it has written is what they make of them.
Replayed(p, s) ==
  LET j == Made(p, s)
      after == After(stock, s)
  IN  /\ j \in 0..Len(s)
      /\ script[p] = SubSeq(s, j + 1, Len(s))
      /\ \A i \in 1..j : Possible(after[i - 1], s[i])
      /\ \A k \in Rows : IF owner[k] = p THEN latest[k] = after[j][k]
                         ELSE \A i \in 1..j : s[i].row # k

\* The check on hand is one of a deduction.
ChecksDeduct ==
  \A p \in Procs : pc[p] = "checked" => script[p] # << >> /\ Current(p).op = "apply" /\ Current(p).n < 0

AtomicInv ==
  /\ Inv /\ Locks /\ ChecksDeduct
  /\ \A p \in Procs : pc[p] # "idle" => \E s \in Scripts : Replayed(p, s)

\* The committed rows are a function on the rows.
LEMMA StockOnRows == ASSUME Inv PROVE OnRows(stock)
BY DEF Inv, StockTypeOK, OnRows

\* A transaction that begins has nothing to replay.
LEMMA BeginReplays ==
  ASSUME Inv, Locks, NEW p \in Procs, NEW s \in Seq(Call), Begin(p, s)
  PROVE  Replayed(p, s)'
<1>1. script'[p] = s /\ owner' = owner /\ stock' = stock
  BY DEF Begin, Inv, StockTypeOK
<1>2. \A k \in Rows : owner'[k] # p
  BY DEF Locks, LockDiscipline, Begin
<1>3. s = SubSeq(s, 1, Len(s)) /\ Len(s) \in Nat /\ Len(s) - Len(s) = 0 /\ 1..0 = {}
  OBVIOUS
<1> QED
  BY <1>1, <1>2, <1>3 DEF Replayed, Made

\* Whether a call is possible depends on its row alone.
LEMMA PossibleIsLocal ==
  ASSUME NEW rows, NEW others, NEW c, rows[c.row] = others[c.row], Possible(rows, c)
  PROVE  Possible(others, c)
BY DEF Possible, Atomic!Possible

\* A call that succeeds is possible on the row that the calls before it have made.
LEMMA WroteReplays ==
  ASSUME Inv, Locks, NEW p \in Procs, NEW s \in Seq(Call), Replayed(p, s),
         script[p] # << >>, CanLock(p, Current(p).row), Possible(latest, Current(p)),
         Wrote(p, Current(p).row, Change(latest[Current(p).row], Current(p)))
  PROVE  Replayed(p, s)'
<1> PICK j, c, after : j = Made(p, s) /\ c = Current(p) /\ after = After(stock, s)
  OBVIOUS
<1>1. /\ j \in 0..Len(s) /\ script[p] = SubSeq(s, j + 1, Len(s))
      /\ \A i \in 1..j : Possible(after[i - 1], s[i])
      /\ \A k \in Rows : IF owner[k] = p THEN latest[k] = after[j][k]
                         ELSE \A i \in 1..j : s[i].row # k
  BY DEF Replayed
<1>2. /\ j < Len(s) /\ j \in Nat /\ c = s[j + 1] /\ script[p] \in Seq(Call)
      /\ j + 1 \in 1..Len(s) /\ Len(s) \in Nat
  BY <1>1 DEF Current, Inv, StockTypeOK
<1>3. c \in Call /\ c.row \in Rows
  BY <1>2, CurrentType DEF Inv, Call
<1>4. script'[p] = Tail(script[p]) /\ stock' = stock
  BY DEF Wrote, Inv, StockTypeOK
<1>5. script'[p] = SubSeq(s, (j + 1) + 1, Len(s)) /\ Len(s) - Len(script'[p]) = j + 1
  <2> PICK rest : rest = SubSeq(s, j + 1, Len(s))
    OBVIOUS
  <2>1. /\ Len(Tail(rest)) = Len(s) - (j + 1)
        /\ Tail(rest) = SubSeq(s, (j + 1) + 1, Len(s))
    BY <1>2, RestOfSeq
  <2>2. script'[p] = Tail(rest)
    BY <1>1, <1>4
  <2>3. Len(script'[p]) = Len(s) - (j + 1)
    BY <2>1, <2>2
  <2>4. Len(s) - Len(script'[p]) = j + 1
    BY ONLY <1>2, <2>3
  <2> QED
    BY <2>1, <2>2, <2>4
<1>6. OnRows(stock) /\ OnRows(after[j])
  BY <1>1, StockOnRows, AfterOnRows
<1>7. after[j + 1] = Effect(after[j], c)
  BY <1>2, AfterUnfolds
<1>8. after[j][c.row] = latest[c.row]
  <2>1. CASE owner[c.row] = p
    BY <1>1, <1>3, <2>1
  <2>2. CASE owner[c.row] # p
    <3>1. latest[c.row] = stock[c.row]
      BY <1>3, <2>2 DEF CanLock, Locks, LockDiscipline
    <3>2. \A i \in 1..j : s[i].row # c.row
      BY <1>1, <1>3, <2>2
    <3>3. ASSUME NEW k \in Rows, k = c.row PROVE After(stock, s)[j][k] = stock[k]
      <4>1. \A i \in 1..j : s[i].row # k
        BY <3>2, <3>3
      <4>2. j \in 0..Len(s)
        BY <1>1
      <4> QED
        BY <1>6, <4>1, <4>2, AfterLeavesRows
    <3> QED
      BY <1>3, <3>1, <3>3
  <2> QED
    BY <2>1, <2>2
<1>9. /\ after[j + 1][c.row] = Change(latest[c.row], c)
      /\ \A k \in Rows \ {c.row} : after[j + 1][k] = after[j][k]
  BY <1>3, <1>6, <1>7, <1>8, EffectIsLocal
<1>10. Possible(after[j], c)
  BY <1>8, PossibleIsLocal
<1>11. \A i \in 1..(j + 1) : Possible(after[i - 1], s[i])
  <2> TAKE i \in 1..(j + 1)
  <2>1. CASE i = j + 1
    BY <1>2, <1>10, <2>1
  <2>2. CASE i # j + 1
    BY <1>1, <1>2, <2>2
  <2> QED
    BY <2>1, <2>2
<1>12. ASSUME NEW k \in Rows
       PROVE  IF owner'[k] = p THEN latest'[k] = after[j + 1][k]
              ELSE \A i \in 1..(j + 1) : s[i].row # k
  <2>1. CASE k = c.row
    <3>1. owner'[k] = p /\ latest'[k] = Change(latest[k], c)
      BY <2>1 DEF Wrote, Inv, StockTypeOK
    <3> QED
      BY <1>9, <2>1, <3>1
  <2>2. CASE k # c.row
    <3>1. owner'[k] = owner[k] /\ latest'[k] = latest[k] /\ after[j + 1][k] = after[j][k]
      BY <1>9, <2>2 DEF Wrote, Inv, StockTypeOK
    <3>2. CASE owner[k] = p
      BY <1>1, <3>1, <3>2
    <3>3. CASE owner[k] # p
      <4>1. ASSUME NEW i \in 1..(j + 1) PROVE s[i].row # k
        <5>1. CASE i = j + 1
          BY <1>2, <2>2, <5>1
        <5>2. CASE i # j + 1
          BY <1>1, <1>2, <3>3, <5>2
        <5> QED
          BY <5>1, <5>2
      <4> QED
        BY <3>1, <3>3, <4>1
    <3> QED
      BY <3>2, <3>3
  <2> QED
    BY <2>1, <2>2
<1>13. j + 1 \in 0..Len(s) /\ Made(p, s)' = j + 1
  <2>1. j + 1 \in 0..Len(s)
    BY ONLY <1>2
  <2>2. Made(p, s)' = j + 1
    BY ONLY <1>5 DEF Made
  <2> QED
    BY <2>1, <2>2
<1>14. After(stock, s)' = after
  BY <1>4
<1> QED
  BY <1>4, <1>5, <1>11, <1>12, <1>13, <1>14 DEF Replayed

\* A statement goes on with the calls of s, or ends the transaction without effect.
LEMMA StatementReplays ==
  ASSUME Inv, Locks, ChecksDeduct, NEW p \in Procs, NEW s \in Seq(Call), Replayed(p, s),
         Statement(p)
  PROVE  /\ stock' = stock
         /\ \/ Rollback(p)
            \/ Replayed(p, s)' /\ pc'[p] = "open"
            \/ /\ Replayed(p, s)' /\ script' = script
               /\ script[p] # << >> /\ Current(p).op = "apply" /\ Current(p).n < 0
<1> PICK c, k : c = Current(p) /\ k = Current(p).row
  OBVIOUS
<1>1. ASSUME Rollback(p) PROVE stock' = stock
  BY <1>1 DEF Rollback
<1>2. ASSUME script[p] # << >>, CanLock(p, k), Possible(latest, c),
             Wrote(p, k, Change(latest[k], c))
      PROVE  stock' = stock /\ Replayed(p, s)' /\ pc'[p] = "open"
  <2>1. Replayed(p, s)'
    BY <1>2, WroteReplays
  <2>2. stock' = stock /\ pc'[p] = "open"
    BY <1>2 DEF Wrote, Inv, StockTypeOK
  <2> QED
    BY <2>1, <2>2
<1>3. ASSUME script[p] # << >> PROVE c \in Call /\ c.n \in Int /\ c.row = k
  BY <1>3, CurrentType DEF Inv, Call
<1>4. CASE BadAmount(p)
  BY <1>1, <1>4 DEF BadAmount
<1>5. CASE CheckOnHand(p)
  <2>1. CASE Rollback(p)
    BY <1>1, <2>1
  <2>2. CASE UNCHANGED <<stock, latest, owner, script>>
    <3>1. Replayed(p, s)'
      BY <2>2 DEF Replayed, Made
    <3> QED
      BY <1>5, <2>2, <3>1 DEF CheckOnHand, Calling
  <2> QED
    BY <1>5, <2>1, <2>2 DEF CheckOnHand
<1>6. CASE ApplyStockChange(p)
  <2>1. /\ script[p] # << >> /\ c.op = "apply" /\ CanLock(p, k)
        /\ Wrote(p, k, Applied(latest[k], c.n))
        /\ IF c.n > 0 THEN pc[p] = "open" ELSE pc[p] = "checked"
    BY <1>6 DEF ApplyStockChange, Calling
  <2>2. c.n # 0
    BY <1>3, <2>1 DEF ChecksDeduct
  <2>3. Change(latest[k], c) = Applied(latest[k], c.n)
    BY <2>1 DEF Change, Atomic!Change, Atomic!Applied, Applied, Atomic!AtLeastZero, AtLeastZero
  <2>4. Possible(latest, c)
    BY <2>1, <2>2 DEF Possible, Atomic!Possible, Atomic!ValidAmount
  <2> QED
    BY <1>2, <2>1, <2>3, <2>4
<1>7. CASE ReserveStock(p)
  <2>1. /\ script[p] # << >> /\ c.op = "reserve" /\ CanLock(p, k) /\ c.n > 0
        /\ \/ CanReserve(latest[k], c.n) /\ Wrote(p, k, Reserved(latest[k], c.n))
           \/ Rollback(p)
    BY <1>7 DEF ReserveStock, Calling
  <2>2. Change(latest[k], c) = Reserved(latest[k], c.n)
    BY <2>1 DEF Change, Atomic!Change, Atomic!Reserved, Reserved
  <2>3. CanReserve(latest[k], c.n) => Possible(latest, c)
    BY <1>3, <2>1 DEF Possible, Atomic!Possible, Atomic!ValidAmount, Atomic!CanReserve, CanReserve
  <2> QED
    BY <1>1, <1>2, <2>1, <2>2, <2>3
<1>8. CASE ReleaseReservation(p)
  <2>1. /\ script[p] # << >> /\ c.op = "release" /\ CanLock(p, k) /\ c.n > 0
        /\ \/ CanRelease(latest[k], c.n) /\ Wrote(p, k, Released(latest[k], c.n))
           \/ Rollback(p)
    BY <1>8 DEF ReleaseReservation, Calling
  <2>2. Change(latest[k], c) = Released(latest[k], c.n)
    BY <2>1 DEF Change, Atomic!Change, Atomic!Released, Released
  <2>3. CanRelease(latest[k], c.n) => Possible(latest, c)
    BY <1>3, <2>1 DEF Possible, Atomic!Possible, Atomic!ValidAmount, Atomic!CanRelease, CanRelease
  <2> QED
    BY <1>1, <1>2, <2>1, <2>2, <2>3
<1> QED
  BY <1>4, <1>5, <1>6, <1>7, <1>8 DEF Statement

\* What a transaction has replayed stays so while nobody touches its rows.
LEMMA OthersStayReplayed ==
  ASSUME Inv, Inv', NEW q \in Procs, Untouched(q), NEW s \in Seq(Call), Replayed(q, s)
  PROVE  Replayed(q, s)'
<1> PICK j, rows, now : j = Made(q, s) /\ rows = stock /\ now = stock'
  OBVIOUS
<1>1. /\ j \in 0..Len(s) /\ script[q] = SubSeq(s, j + 1, Len(s))
      /\ \A i \in 1..j : Possible(After(rows, s)[i - 1], s[i])
      /\ \A k \in Rows : IF owner[k] = q THEN latest[k] = After(rows, s)[j][k]
                         ELSE \A i \in 1..j : s[i].row # k
  BY DEF Replayed
<1>2. script'[q] = script[q] /\ Made(q, s)' = j
  BY DEF Untouched, Made
<1>3. OnRows(rows) /\ OnRows(now)
  BY DEF Inv, StockTypeOK, OnRows
<1>4. ASSUME NEW k \in Rows, owner[k] = q
      PROVE  \A i \in 0..Len(s) : After(rows, s)[i][k] = After(now, s)[i][k]
  <2>1. rows[k] = now[k]
    BY <1>4 DEF Untouched
  <2> QED
    BY <1>3, <2>1, AfterIsLocal
<1>5. ASSUME NEW i \in 1..j PROVE Possible(After(now, s)[i - 1], s[i])
  <2> PICK c : c = s[i]
    OBVIOUS
  <2>1. i \in 1..Len(s) /\ i - 1 \in 0..Len(s)
    BY <1>1
  <2>2. c.row \in Rows
    <3>1. c \in Call
      BY <2>1
    <3> QED
      BY <3>1 DEF Call
  <2>3. owner[c.row] = q
    BY <1>1, <2>2
  <2>4. After(rows, s)[i - 1][c.row] = After(now, s)[i - 1][c.row]
    BY <1>4, <2>1, <2>2, <2>3
  <2> QED
    BY <1>1, <2>4, PossibleIsLocal
<1>6. ASSUME NEW k \in Rows
      PROVE  IF owner'[k] = q THEN latest'[k] = After(now, s)[j][k]
             ELSE \A i \in 1..j : s[i].row # k
  <2>1. (owner'[k] = q <=> owner[k] = q) /\ (owner[k] = q => latest'[k] = latest[k])
    BY DEF Untouched
  <2>2. CASE owner[k] = q
    <3>1. latest[k] = After(rows, s)[j][k]
      BY <1>1, <2>2
    <3>2. After(rows, s)[j][k] = After(now, s)[j][k]
      BY <1>1, <1>4, <2>2
    <3> QED
      BY ONLY <2>1, <2>2, <3>1, <3>2
  <2>3. CASE owner[k] # q
    BY <1>1, <2>1, <2>3
  <2> QED
    BY <2>2, <2>3
<1> QED
  BY <1>1, <1>2, <1>5, <1>6 DEF Replayed

\* COMMIT makes the calls of s take effect in one step.
LEMMA CommitIsAtomic ==
  ASSUME Inv, NEW p \in Procs, NEW s \in Seq(Call), Replayed(p, s), Commit(p)
  PROVE  Atomic!Transact(s)
<1> PICK after, n : after = After(stock, s) /\ n = Len(s)
  OBVIOUS
<1>1. Made(p, s) = n /\ n \in Nat
  BY DEF Commit, Made
<1>2. /\ \A i \in 1..n : Possible(after[i - 1], s[i])
      /\ \A k \in Rows : IF owner[k] = p THEN latest[k] = after[n][k]
                         ELSE \A i \in 1..n : s[i].row # k
  BY <1>1 DEF Replayed
<1>3. OnRows(stock) /\ OnRows(after[n])
  BY <1>1, StockOnRows, AfterOnRows
<1>4. ASSUME NEW k \in Rows PROVE after[n][k] = IF owner[k] = p THEN latest[k] ELSE stock[k]
  <2>1. CASE owner[k] = p
    BY <1>2, <2>1
  <2>2. CASE owner[k] # p
    <3>1. \A i \in 1..n : s[i].row # k
      BY <1>2, <2>2
    <3>2. n \in 0..Len(s)
      BY <1>1
    <3>3. After(stock, s)[n][k] = stock[k]
      BY <1>3, <3>1, <3>2, AfterLeavesRows
    <3> QED
      BY <2>2, <3>3
  <2> QED
    BY <2>1, <2>2
<1>5. stock' = after[n]
  <2>1. stock' = [k \in Rows |-> IF owner[k] = p THEN latest[k] ELSE stock[k]]
    BY DEF Commit
  <2> QED
    BY <1>3, <1>4, <2>1 DEF OnRows
<1> QED
  BY <1>2, <1>5 DEF Atomic!Transact, After, Possible

\* A statement keeps the lock discipline.
LEMMA StatementLocks ==
  ASSUME Inv, Locks, NEW p \in Procs, Statement(p)
  PROVE  Locks'
<1>1. ASSUME script[p] # << >> PROVE Current(p).row \in Rows
  BY <1>1, CurrentType DEF Inv, Call
<1>2. CASE Rollback(p)
  BY <1>2, EndLocks
<1>3. CASE /\ pc' = [pc EXCEPT ![p] = "checked"] /\ Calling(p, "apply")
           /\ UNCHANGED <<stock, latest, owner, script>>
  BY <1>3 DEF Locks, LockDiscipline, Inv, StockTypeOK, Calling
<1>4. CASE /\ script[p] # << >> /\ CanLock(p, Current(p).row)
           /\ \E r : Wrote(p, Current(p).row, r)
  BY <1>1, <1>4, WroteLocks
<1>5. CASE BadAmount(p)
  BY <1>2, <1>5 DEF BadAmount
<1>6. CASE CheckOnHand(p)
  BY <1>2, <1>3, <1>6 DEF CheckOnHand
<1>7. CASE ApplyStockChange(p)
  BY <1>4, <1>7 DEF ApplyStockChange, Calling
<1>8. CASE ReserveStock(p)
  BY <1>2, <1>4, <1>8 DEF ReserveStock, Calling
<1>9. CASE ReleaseReservation(p)
  BY <1>2, <1>4, <1>9 DEF ReleaseReservation, Calling
<1> QED
  BY <1>5, <1>6, <1>7, <1>8, <1>9 DEF Statement

\* What the invariant says of one process.
Replaying(p) ==
  /\ pc[p] = "checked" => script[p] # << >> /\ Current(p).op = "apply" /\ Current(p).n < 0
  /\ pc[p] # "idle" => \E s \in Scripts : Replayed(p, s)

\* Every step keeps the invariant, and only COMMIT is visible: as a transaction.
LEMMA NextIsAtomic ==
  ASSUME AtomicInv, [StockNext]_stockVars
  PROVE  AtomicInv' /\ (Atomic!Next \/ UNCHANGED stock)
<1>1. Inv /\ Locks /\ ChecksDeduct /\ \A q \in Procs : Replaying(q)
  BY DEF AtomicInv, ChecksDeduct, Replaying
<1>2. Inv'
  BY <1>1, NextInv
<1>3. CASE UNCHANGED stockVars
  <2>1. Locks' /\ ChecksDeduct'
    BY <1>1, <1>3 DEF Locks, LockDiscipline, ChecksDeduct, Current, stockVars
  <2>2. \A p \in Procs : pc'[p] # "idle" => \E s \in Scripts : Replayed(p, s)'
    <3>1. \A p \in Procs : Untouched(p)
      BY <1>3 DEF Untouched, stockVars
    <3> QED
      BY <1>1, <1>2, <3>1, OthersStayReplayed, ScriptsAssumption DEF Replaying, Untouched
  <2> QED
    BY <1>2, <1>3, <2>1, <2>2 DEF AtomicInv, stockVars
<1>4. CASE StockNext
  <2>1. PICK p \in Procs :
          \/ \E s \in Scripts : Begin(p, s)
          \/ Statement(p)
          \/ Commit(p)
          \/ DeadlockVictim(p)
          \/ Interrupt(p)
    BY <1>4 DEF StockNext, Statement
  <2>2. \/ \E s \in Scripts : Begin(p, s)
        \/ Statement(p)
        \/ Commit(p)
        \/ Rollback(p)
    BY <2>1 DEF DeadlockVictim, Interrupt
  <2>3. ASSUME NEW q \in Procs \ {p} PROVE Replaying(q)'
    <3>1. Untouched(q)
      BY <1>1, <2>2, OthersAreUntouched
    <3>2. pc'[q] # "idle" => \E s \in Scripts : Replayed(q, s)'
      BY <1>1, <1>2, <3>1, OthersStayReplayed, ScriptsAssumption DEF Replaying, Untouched
    <3>3. pc'[q] = "checked" =>
            script'[q] # << >> /\ Current(q)'.op = "apply" /\ Current(q)'.n < 0
      BY <1>1, <3>1 DEF Replaying, Untouched, Current
    <3> QED
      BY <3>2, <3>3 DEF Replaying
  <2>4. Locks' /\ Replaying(p)' /\ (Atomic!Next \/ UNCHANGED stock)
    <3>1. CASE \E s \in Scripts : Begin(p, s)
      <4>1. PICK s \in Scripts : Begin(p, s)
        BY <3>1
      <4>2. s \in Seq(Call)
        BY ScriptsAssumption
      <4>3. Locks' /\ pc'[p] = "open" /\ stock' = stock
        BY <1>1, <4>1, <4>2, BeginExecutes
      <4>4. Replayed(p, s)'
        BY <1>1, <4>1, <4>2, BeginReplays
      <4> QED
        BY <4>3, <4>4 DEF Replaying
    <3>2. CASE Statement(p)
      <4>1. PICK s \in Scripts : Replayed(p, s)
        BY <1>1, <3>2, StatementIsOpen DEF Replaying
      <4>2. /\ stock' = stock
            /\ \/ Rollback(p)
               \/ Replayed(p, s)' /\ pc'[p] = "open"
               \/ /\ Replayed(p, s)' /\ script' = script
                  /\ script[p] # << >> /\ Current(p).op = "apply" /\ Current(p).n < 0
        BY <1>1, <3>2, <4>1, StatementReplays, ScriptsAssumption
      <4>3. Rollback(p) => pc'[p] = "idle"
        BY <1>1, RollbackEnds
      <4>4. Replaying(p)'
        BY <4>2, <4>3 DEF Replaying, Current
      <4> QED
        BY <1>1, <3>2, <4>2, <4>4, StatementLocks
    <3>3. CASE Commit(p)
      <4>1. PICK s \in Scripts : Replayed(p, s)
        BY <1>1, <3>3 DEF Replaying, Commit
      <4>2. Atomic!Transact(s)
        BY <1>1, <3>3, <4>1, CommitIsAtomic, ScriptsAssumption
      <4>3. Locks' /\ pc'[p] = "idle"
        BY <1>1, <3>3, EndLocks, RollbackEnds
      <4> QED
        BY <4>2, <4>3 DEF Replaying, Atomic!Next
    <3>4. CASE Rollback(p)
      <4>1. Locks' /\ pc'[p] = "idle"
        BY <1>1, <3>4, EndLocks, RollbackEnds
      <4> QED
        BY <3>4, <4>1 DEF Replaying, Rollback
    <3> QED
      BY <2>2, <3>1, <3>2, <3>3, <3>4
  <2>5. \A q \in Procs : Replaying(q)'
    BY <2>3, <2>4
  <2> QED
    BY <1>2, <2>4, <2>5 DEF AtomicInv, ChecksDeduct, Replaying
<1> QED
  BY <1>3, <1>4

\* Whatever transactions interleave, roll back or crash, the committed rows
\* change as if each of them had run alone, at once, when it commits.
THEOREM InventoryIsAtomic == StockSpec => TransactionsAreAtomic
<1>1. StockInit => AtomicInv /\ Atomic!Init
  <2>1. StockInit => Inv /\ Locks
    BY InitInv, InitLocks
  <2>2. StockInit => /\ ChecksDeduct
                     /\ \A p \in Procs : pc[p] # "idle" => \E s \in Scripts : Replayed(p, s)
    BY DEF StockInit, ChecksDeduct
  <2>3. StockInit => Atomic!Init
    BY DEF StockInit, Atomic!Init, Atomic!OpeningRow, OpeningRow
  <2> QED
    BY <2>1, <2>2, <2>3 DEF AtomicInv
<1>2. AtomicInv /\ [StockNext]_stockVars => AtomicInv' /\ [Atomic!Next]_stock
  BY NextIsAtomic
<1> QED
  BY <1>1, <1>2, PTL DEF StockSpec, TransactionsAreAtomic, Atomic!Spec
=============================================================================
