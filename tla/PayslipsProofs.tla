--------------------------- MODULE PayslipsProofs ---------------------------
(***************************************************************************)
(* Proofs about what the runs of a payroll pay, for any employees, days,   *)
(* leaves, claims, inputs, months and requests.                            *)
(*                                                                         *)
(* Claims rest on where a claim is seen: by the tables, the trash, what a  *)
(* request has read, the books a calculation works with, or an item.  It   *)
(* is seen in one month unless it was edited (SeenOnce), and a claim that  *)
(* is seen is there or in the trash (SeenIsKept).                          *)
(*                                                                         *)
(* Pay rests on two arguments.  In any state, a sum over the parts of a    *)
(* calculation is one over the days of its month: each part is a sum over  *)
(* those days that have it, and leaves that are clear split theirs among   *)
(* them.  Over steps, the items of the calculation in progress are those   *)
(* of the books it has read (WorkIsCounted), which are those there are     *)
(* now, unless they changed since (WorkIsCurrent).                         *)
(***************************************************************************)
EXTENDS Payslips, Sums, FiniteSetTheorems, SequenceTheorems, TLAPS

-----------------------------------------------------------------------------
(* Claims *)

\* Entries of the trash, and what a request has read.
Entry == [id : Claims, read : ClaimRows, state : {"open", "restored", "gone"}]
Letter ==
  [op : {"none", "trash", "restore"}, id : Claims \cup {NoClaim},
   read : ClaimRows \cup {NoClaim}, entry : Nat]

\* A run and a receipt are records.
IsRun(r) ==
  /\ r = [number |-> r.number, state |-> r.state, fares |-> r.fares, slips |-> r.slips,
          totals |-> r.totals]
  /\ r.number \in Nat /\ r.fares \in BOOLEAN
IsReceipt(r) == r = [received |-> r.received, run |-> r.run]

\* The types, as far as the steps need them.
ShapesOK ==
  /\ PayslipsTypeOK
  /\ trashed \in Seq(Entry)
  /\ letter \in [Secretaries -> Letter]
  /\ run = [m \in Months |-> run[m]] /\ \A m \in Months : IsRun(run[m])
  /\ receipt = [e \in Workers |-> receipt[e]]
  /\ \A e \in Workers : /\ receipt[e] = [m \in Months |-> receipt[e][m]]
                        /\ \A m \in Months : IsReceipt(receipt[e][m])
  /\ work = [month |-> work.month, stage |-> work.stage, claim |-> work.claim,
             input |-> work.input, todo |-> work.todo, totals |-> work.totals]
  /\ work.stage \in {"none", "read", "pay"}
  /\ work.stage = "none" <=> work = NoWork
  /\ work.stage # "none" => work.month \in Months
  /\ work.stage = "pay" => work.claim \in [Claims -> ClaimRows \cup {NoClaim}]

\* What a request has read of a claim and its entry.
LettersAreSane ==
  \A p \in Secretaries :
    /\ letter[p].op = "none" => letter[p].id = NoClaim
    /\ letter[p].id \in Claims => letter[p].read \in ClaimRows
    /\ letter[p].op \in {"trash", "restore"} => letter[p].id \in Claims
    /\ letter[p].op = "restore" =>
         letter[p].entry \in DOMAIN trashed /\ trashed[letter[p].entry].id = letter[p].id

\* The months in which claim c is seen: by the table, the trash or a request...
IsSeenInTables(c, m) ==
  \/ claim[c] # NoClaim /\ MonthOf(claim[c]) = m
  \/ \E h \in DOMAIN trashed : trashed[h].id = c /\ MonthOf(trashed[h].read) = m
  \/ \E p \in Secretaries : letter[p].id = c /\ MonthOf(letter[p].read) = m

\* ...or by the calculation in progress or the slips.
IsSeenInRuns(c, m) ==
  \/ work.stage = "pay" /\ work.claim[c] # NoClaim /\ MonthOf(work.claim[c]) = m
  \/ m \in Months /\ \E e \in Booked(m) : c \in run[m].slips[e].took

\* The month m counts the claim c somewhere.
IsSeen(c, m) == IsSeenInTables(c, m) \/ IsSeenInRuns(c, m)

\* A claim is seen in one month, unless it was moved to another...
SeenOnce ==
  \A c \in Claims \ edited : \A m, n \in Months : IsSeen(c, m) /\ IsSeen(c, n) => m = n

\* ...and a claim that is seen is there or in the trash.
SeenIsKept ==
  \A c \in Claims : \A m \in Months : IsSeen(c, m) => claim[c] # NoClaim \/ EntriesOf(c) # {}

\* The inductive invariant of Payslips.
SlipsInvariant ==
  /\ ShapesOK /\ LettersAreSane /\ SeenOnce /\ SeenIsKept
  /\ ReceiptsNameTheRun /\ TrashIsRestorable

-----------------------------------------------------------------------------
(* Claims and their months *)

\* A claim counts by a month.
LEMMA MonthIsMonth ==
  ASSUME NEW x \in ClaimRows
  PROVE  MonthOf(x) \in Months /\ x # NoClaim
<1>1. x.when \in Months \cup {NoMonth} /\ x.created \in Months
  BY DEF ClaimRows
<1> QED
  BY <1>1, PayslipsAssumption DEF MonthOf

\* A claim is edited when its month becomes another.
LEMMA OneMonthOrEdited ==
  ASSUME NEW x \in ClaimRows, NEW y \in ClaimRows, MonthOf(x) # MonthOf(y)
  PROVE  Cardinality(MonthsOf(x, y)) > 1
<1>1. x # NoClaim /\ y # NoClaim
  BY MonthIsMonth
<1>2. MonthsOf(x, y) = {MonthOf(x)} \cup {MonthOf(y)}
  BY <1>1 DEF MonthsOf
<1>3. IsFiniteSet({MonthOf(x)}) /\ Cardinality({MonthOf(x)}) = 1
  BY FS_Singleton
<1>4. MonthOf(y) \notin {MonthOf(x)}
  OBVIOUS
<1>5. Cardinality({MonthOf(x)} \cup {MonthOf(y)}) = Cardinality({MonthOf(x)}) + 1
  BY ONLY <1>3, <1>4, FS_AddElement
<1> QED
  BY <1>2, <1>3, <1>5

\* What a write of a claim does to the tables.
LEMMA RewriteIsTyped ==
  ASSUME PayslipsTypeOK, NEW c \in Claims, NEW old \in ClaimRows \cup {NoClaim},
         NEW d \in ClaimRows \cup {NoClaim}, Rewrite(c, old, d)
  PROVE  /\ claim' \in [Claims -> ClaimRows \cup {NoClaim}]
         /\ claim'[c] = d /\ \A b \in Claims \ {c} : claim'[b] = claim[b]
         /\ edited' \subseteq Claims /\ edited \subseteq edited'
         /\ unread' \subseteq Months
         /\ c \notin edited' /\ old # NoClaim /\ d # NoClaim => MonthOf(d) = MonthOf(old)
<1>1. MonthsOf(old, d) \subseteq Months
  BY MonthIsMonth DEF MonthsOf
<1>2. unread' \subseteq Months
  BY <1>1 DEF PayslipsTypeOK, Rewrite, Touches
<1>3. edited' \subseteq Claims /\ edited \subseteq edited'
  BY DEF PayslipsTypeOK, Rewrite
<1>4. ASSUME c \notin edited', old # NoClaim, d # NoClaim
      PROVE  MonthOf(d) = MonthOf(old)
  <2>1. ~(Cardinality(MonthsOf(old, d)) > 1)
    BY <1>4 DEF Rewrite
  <2> QED
    BY <1>4, <2>1, OneMonthOrEdited
<1> QED
  BY <1>2, <1>3, <1>4 DEF PayslipsTypeOK, Rewrite

-----------------------------------------------------------------------------
(* Steps that show no claim in another month *)

\* Nothing new is seen of any claim that is not edited, or only what was.
ShowsNothingNew ==
  /\ edited \subseteq edited'
  /\ \A c \in Claims \ edited' : \A m \in Months : IsSeen(c, m)' => IsSeen(c, m)

\* Then claims are still seen in one month.
LEMMA SeenOnceStays ==
  ASSUME SeenOnce, ShowsNothingNew
  PROVE  SeenOnce'
BY DEF SeenOnce, ShowsNothingNew

\* What is seen is kept: by the claim itself or an entry of the trash.
KeepsWhatIsSeen ==
  \A c \in Claims :
    /\ EntriesOf(c) # {} => EntriesOf(c)' # {}
    /\ claim[c] # NoClaim => claim'[c] # NoClaim \/ EntriesOf(c)' # {}
    /\ \A m \in Months : IsSeen(c, m)' =>
         (\E n \in Months : IsSeen(c, n)) \/ claim'[c] # NoClaim \/ EntriesOf(c)' # {}

\* Then what is seen is still kept.
LEMMA SeenIsKeptStays ==
  ASSUME SeenIsKept, KeepsWhatIsSeen
  PROVE  SeenIsKept'
<1> SUFFICES ASSUME NEW c \in Claims, NEW m \in Months, IsSeen(c, m)'
             PROVE  claim'[c] # NoClaim \/ EntriesOf(c)' # {}
  BY DEF SeenIsKept
<1>1. CASE \E n \in Months : IsSeen(c, n)
  <2>1. claim[c] # NoClaim \/ EntriesOf(c) # {}
    BY <1>1 DEF SeenIsKept
  <2> QED
    BY <2>1 DEF KeepsWhatIsSeen
<1> QED
  BY <1>1 DEF KeepsWhatIsSeen

\* What managers have entered has its type.
InputIsTyped == input \in [Workers -> [Months -> InputRows]]

\* A step of the tables leaves the runs and the receipts.
LEMMA TableStepsKeepShapes ==
  ASSUME ShapesOK, SameRuns, UNCHANGED input \/ InputIsTyped',
         claim' \in [Claims -> ClaimRows \cup {NoClaim}], trashed' \in Seq(Entry),
         letter' \in [Secretaries -> Letter], edited' \subseteq Claims, unread' \subseteq Months
  PROVE  ShapesOK' /\ (ReceiptsNameTheRun => ReceiptsNameTheRun')
<1>1. \A h \in DOMAIN trashed' : trashed'[h] \in Entry
  OBVIOUS
<1>2. \A h \in DOMAIN trashed' : trashed'[h].id \in Claims /\ trashed'[h].read \in ClaimRows
  BY <1>1 DEF Entry
<1>3. PayslipsTypeOK'
  BY <1>2 DEF ShapesOK, PayslipsTypeOK, SameRuns, InputIsTyped
<1>4. ShapesOK'
  BY <1>3 DEF ShapesOK, SameRuns, NoWork
<1> QED
  BY <1>4 DEF SameRuns, ReceiptsNameTheRun

\* A step of the tables preserves the invariant if it shows no claim elsewhere.
LEMMA TableStep ==
  ASSUME SlipsInvariant, SameRuns, UNCHANGED input \/ InputIsTyped',
         claim' \in [Claims -> ClaimRows \cup {NoClaim}], trashed' \in Seq(Entry),
         letter' \in [Secretaries -> Letter], edited' \subseteq Claims, unread' \subseteq Months,
         LettersAreSane', SeenOnce', KeepsWhatIsSeen, TrashIsRestorable'
  PROVE  SlipsInvariant'
<1>1. ShapesOK' /\ ReceiptsNameTheRun'
  BY TableStepsKeepShapes DEF SlipsInvariant
<1>2. SeenIsKept'
  BY SeenIsKeptStays DEF SlipsInvariant
<1> QED
  BY <1>1, <1>2 DEF SlipsInvariant

\* The runs show the same claims.
LEMMA RunsShowTheSame ==
  ASSUME SameRuns, NEW c \in Claims, NEW m \in Months
  PROVE  IsSeenInRuns(c, m)' <=> IsSeenInRuns(c, m)
BY DEF SameRuns, IsSeenInRuns, Booked

\* Letters name entries that are there, also when entries are added or change state.
LEMMA LettersStaySane ==
  ASSUME LettersAreSane, UNCHANGED letter, DOMAIN trashed \subseteq DOMAIN trashed',
         \A h \in DOMAIN trashed : trashed'[h].id = trashed[h].id
  PROVE  LettersAreSane'
BY DEF LettersAreSane

\* A step of the runs leaves the tables.
LEMMA RunStepsKeepTables ==
  ASSUME SlipsInvariant, SameBooks, ShapesOK', ReceiptsNameTheRun',
         \A c \in Claims, m \in Months : IsSeen(c, m)' => IsSeen(c, m)
  PROVE  SlipsInvariant'
<1>1. LettersAreSane'
  BY DEF SlipsInvariant, LettersAreSane, SameBooks, SameClaims
<1>2. TrashIsRestorable'
  BY DEF SlipsInvariant, TrashIsRestorable, EntriesOf, SameBooks, SameClaims
<1>3. SeenOnce'
  BY DEF SlipsInvariant, SeenOnce, SameBooks, SameClaims
<1>4. SeenIsKept'
  BY DEF SlipsInvariant, SeenIsKept, EntriesOf, SameBooks, SameClaims
<1> QED
  BY <1>1, <1>2, <1>3, <1>4 DEF SlipsInvariant
-----------------------------------------------------------------------------
(* The requests *)

\* Everything the invariant says of the tables, step by step.
LEMMA TablesAreTyped ==
  ASSUME SlipsInvariant
  PROVE  /\ claim \in [Claims -> ClaimRows \cup {NoClaim}]
         /\ trashed \in Seq(Entry)
         /\ letter \in [Secretaries -> Letter]
         /\ edited \subseteq Claims /\ unread \subseteq Months /\ today \in Months
BY DEF SlipsInvariant, ShapesOK, PayslipsTypeOK

\* create writes a row of a claim that was not there.
LEMMA CreateIsRewrite ==
  ASSUME SlipsInvariant, NEW c \in Claims, CreateClaim(c)
  PROVE  \E d \in ClaimRows : Rewrite(c, NoClaim, d)
<1>1. PICK e \in Workers, m \in Months, total \in Figures, kind \in Kinds :
      \E instalment \in IF kind = "advance" THEN {0} \cup Figures ELSE {0} :
        Rewrite(c, NoClaim,
                [kind |-> kind, who |-> e, when |-> m, created |-> today, total |-> total,
                 instalment |-> instalment,
                 remaining |-> IF kind = "advance" THEN total ELSE 0])
  BY DEF CreateClaim
<1>2. PICK instalment \in IF kind = "advance" THEN {0} \cup Figures ELSE {0} :
        Rewrite(c, NoClaim,
                [kind |-> kind, who |-> e, when |-> m, created |-> today, total |-> total,
                 instalment |-> instalment,
                 remaining |-> IF kind = "advance" THEN total ELSE 0])
  BY <1>1
<1>3. instalment \in Nat /\ total \in Nat /\ today \in Months
  BY <1>2, PayslipsAssumption, TablesAreTyped
<1>4. [kind |-> kind, who |-> e, when |-> m, created |-> today, total |-> total,
       instalment |-> instalment, remaining |-> IF kind = "advance" THEN total ELSE 0]
        \in ClaimRows
  BY <1>3 DEF ClaimRows
<1> QED
  BY <1>2, <1>4

\* create: of a fresh claim nothing was seen.
LEMMA CreateClaimStep ==
  ASSUME SlipsInvariant, NEW c \in Claims, CreateClaim(c)
  PROVE  SlipsInvariant'
<1>1. PICK d \in ClaimRows : Rewrite(c, NoClaim, d)
  BY CreateIsRewrite
<1>2. d # NoClaim
  BY MonthIsMonth
<1>3. /\ claim' \in [Claims -> ClaimRows \cup {NoClaim}]
      /\ claim'[c] = d /\ \A b \in Claims \ {c} : claim'[b] = claim[b]
      /\ edited' \subseteq Claims /\ edited \subseteq edited' /\ unread' \subseteq Months
  BY <1>1, RewriteIsTyped DEF SlipsInvariant, ShapesOK
<1>4. UNCHANGED <<trashed, letter>> /\ SameRuns /\ claim[c] = NoClaim /\ EntriesOf(c) = {}
  BY DEF CreateClaim
<1>5. \A a \in Months : ~IsSeen(c, a)
  BY <1>4 DEF SlipsInvariant, SeenIsKept
<1>6. \A a \in Months : IsSeen(c, a)' => a = MonthOf(d)
  <2> SUFFICES ASSUME NEW a \in Months, IsSeen(c, a)' PROVE a = MonthOf(d)
    OBVIOUS
  <2>1. ~IsSeenInRuns(c, a)'
    BY <1>4, <1>5, RunsShowTheSame DEF IsSeen
  <2>2. IsSeenInTables(c, a)'
    BY <2>1 DEF IsSeen
  <2>3. ~IsSeenInTables(c, a)
    BY <1>5 DEF IsSeen
  <2> QED
    BY <2>2, <2>3, <1>3, <1>4 DEF IsSeenInTables
<1>7. \A b \in Claims \ {c}, a \in Months : IsSeen(b, a)' => IsSeen(b, a)
  BY <1>3, <1>4, RunsShowTheSame DEF IsSeen, IsSeenInTables
<1>8. SeenOnce'
  <2> SUFFICES ASSUME NEW b \in Claims \ edited', NEW a \in Months, NEW n \in Months,
                      IsSeen(b, a)', IsSeen(b, n)'
               PROVE  a = n
    BY DEF SeenOnce
  <2>1. CASE b = c
    BY <2>1, <1>6
  <2>2. CASE b # c
    BY <2>2, <1>7, <1>3 DEF SlipsInvariant, SeenOnce
  <2> QED
    BY <2>1, <2>2
<1>9. KeepsWhatIsSeen
  BY <1>2, <1>3, <1>4, <1>7 DEF KeepsWhatIsSeen, EntriesOf
<1>10. TrashIsRestorable'
  BY <1>2, <1>3, <1>4 DEF SlipsInvariant, TrashIsRestorable, EntriesOf
<1>11. LettersAreSane'
  BY <1>4 DEF SlipsInvariant, LettersAreSane
<1>12. UNCHANGED input
  BY DEF CreateClaim
<1> QED
  BY <1>3, <1>4, <1>8, <1>9, <1>10, <1>11, TablesAreTyped, <1>12,
     TableStep

\* update writes another row of the claim.
LEMMA UpdateIsRewrite ==
  ASSUME SlipsInvariant, NEW c \in Claims, UpdateClaim(c)
  PROVE  claim[c] \in ClaimRows /\ \E d \in ClaimRows : Rewrite(c, claim[c], d)
<1> DEFINE old == claim[c]
<1>1. old \in ClaimRows
  BY TablesAreTyped DEF UpdateClaim
<1>2. PICK n \in {0} \cup Figures, m \in Months :
        IF old.kind = "advance"
        THEN (Rewrite(c, old, [old EXCEPT !.remaining = n]))
             \/ Rewrite(c, old, [old EXCEPT !.instalment = n])
        ELSE Rewrite(c, old, [old EXCEPT !.total = n])
             \/ Rewrite(c, old, [old EXCEPT !.when = m])
  BY DEF UpdateClaim
<1>3. n \in Nat
  BY PayslipsAssumption
<1>4. /\ [old EXCEPT !.remaining = n] \in ClaimRows
      /\ [old EXCEPT !.instalment = n] \in ClaimRows
      /\ [old EXCEPT !.total = n] \in ClaimRows
      /\ [old EXCEPT !.when = m] \in ClaimRows
  BY <1>1, <1>3 DEF ClaimRows
<1> QED
  BY <1>1, <1>2, <1>4

\* update: the claim is seen in the same month, or edited.
LEMMA UpdateClaimStep ==
  ASSUME SlipsInvariant, NEW c \in Claims, UpdateClaim(c)
  PROVE  SlipsInvariant'
<1>1. claim[c] \in ClaimRows
  BY UpdateIsRewrite
<1>2. PICK d \in ClaimRows : Rewrite(c, claim[c], d)
  BY UpdateIsRewrite
<1>3. d # NoClaim /\ claim[c] # NoClaim
  BY <1>1, MonthIsMonth
<1>4. /\ claim' \in [Claims -> ClaimRows \cup {NoClaim}]
      /\ claim'[c] = d /\ \A b \in Claims \ {c} : claim'[b] = claim[b]
      /\ edited' \subseteq Claims /\ edited \subseteq edited' /\ unread' \subseteq Months
      /\ c \notin edited' => MonthOf(d) = MonthOf(claim[c])
  BY <1>1, <1>2, <1>3, RewriteIsTyped DEF SlipsInvariant, ShapesOK
<1>5. UNCHANGED <<trashed, letter>> /\ SameRuns
  BY DEF UpdateClaim
<1>6. SeenOnce'
  <2>1. ASSUME NEW b \in Claims \ edited', NEW a \in Months, IsSeen(b, a)'
        PROVE  IsSeen(b, a)
    BY <2>1, <1>3, <1>4, <1>5, RunsShowTheSame DEF IsSeen, IsSeenInTables
  <2> QED
    BY <2>1, <1>4, SeenOnceStays DEF ShowsNothingNew, SlipsInvariant
<1>7. KeepsWhatIsSeen
  <2>1. ASSUME NEW b \in Claims, b # c, NEW a \in Months, IsSeen(b, a)'
        PROVE  IsSeen(b, a)
    BY <2>1, <1>4, <1>5, RunsShowTheSame DEF IsSeen, IsSeenInTables
  <2> QED
    BY <2>1, <1>3, <1>4, <1>5 DEF KeepsWhatIsSeen, EntriesOf
<1>8. TrashIsRestorable'
  BY <1>3, <1>4, <1>5 DEF SlipsInvariant, TrashIsRestorable, EntriesOf
<1>9. LettersAreSane'
  BY <1>5 DEF SlipsInvariant, LettersAreSane
<1>10. UNCHANGED input
  BY DEF UpdateClaim
<1> QED
  BY <1>4, <1>5, <1>6, <1>7, <1>8, <1>9, TablesAreTyped, <1>10,
     TableStep

\* A request that only reads, or gives up, shows nothing new.
LEMMA NotesStep ==
  ASSUME SlipsInvariant, SameRuns, SameClaims, UNCHANGED <<input, unread>>,
         letter' \in [Secretaries -> Letter], LettersAreSane',
         \A c \in Claims, m \in Months : IsSeenInTables(c, m)' => IsSeen(c, m)
  PROVE  SlipsInvariant'
<1>1. \A c \in Claims, m \in Months : IsSeen(c, m)' => IsSeen(c, m)
  BY RunsShowTheSame DEF IsSeen
<1>2. UNCHANGED <<claim, trashed, edited>>
  BY DEF SameClaims
<1>3. SeenOnce'
  BY <1>1, <1>2, SeenOnceStays DEF ShowsNothingNew, SlipsInvariant
<1>4. KeepsWhatIsSeen
  BY <1>1, <1>2 DEF KeepsWhatIsSeen, EntriesOf
<1>5. TrashIsRestorable'
  BY <1>2 DEF SlipsInvariant, TrashIsRestorable, EntriesOf
<1> QED
  BY <1>2, <1>3, <1>4, <1>5, TablesAreTyped, TableStep

\* remove, which reads the claim.
LEMMA ReadForTrashStep ==
  ASSUME SlipsInvariant, NEW p \in Secretaries, NEW c \in Claims, ReadForTrash(p, c)
  PROVE  SlipsInvariant'
<1>1. /\ claim[c] \in ClaimRows
      /\ letter' = [letter EXCEPT ![p] = [op |-> "trash", id |-> c, read |-> claim[c],
                                          entry |-> 0]]
      /\ SameRuns /\ SameClaims /\ UNCHANGED <<input, unread>>
  BY TablesAreTyped DEF ReadForTrash, Notes
<1>2. letter \in [Secretaries -> Letter] /\ LettersAreSane
  BY TablesAreTyped DEF SlipsInvariant
<1>3. PICK l \in Letter : /\ l.op = "trash" /\ l.id = c /\ l.read = claim[c]
                          /\ letter' = [letter EXCEPT ![p] = l]
  BY <1>1 DEF Letter
<1>4. letter' \in [Secretaries -> Letter] /\ letter'[p] = l
      /\ \A q \in Secretaries \ {p} : letter'[q] = letter[q]
  BY <1>2, <1>3
<1>5. UNCHANGED <<claim, trashed>>
  BY <1>1 DEF SameClaims
<1>6. LettersAreSane'
  <2>1. c # NoClaim
    BY PayslipsAssumption
  <2> QED
    BY <1>1, <1>2, <1>3, <1>4, <1>5, <2>1 DEF LettersAreSane
<1>7. claim[c] # NoClaim
  BY <1>1, MonthIsMonth
<1>8. \A b \in Claims, m \in Months : IsSeenInTables(b, m)' => IsSeen(b, m)
  BY <1>3, <1>4, <1>5, <1>7 DEF IsSeen, IsSeenInTables
<1> QED
  BY <1>1, <1>4, <1>6, <1>8, NotesStep

\* restore, which reads the entry.
LEMMA ReadFromTrashStep ==
  ASSUME SlipsInvariant, NEW p \in Secretaries, NEW h \in DOMAIN trashed, ReadFromTrash(p, h)
  PROVE  SlipsInvariant'
<1>1. /\ letter' = [letter EXCEPT ![p] = [op |-> "restore", id |-> trashed[h].id,
                                          read |-> trashed[h].read, entry |-> h]]
      /\ SameRuns /\ SameClaims /\ UNCHANGED <<input, unread>>
  BY DEF ReadFromTrash, Notes
<1>2. letter \in [Secretaries -> Letter] /\ LettersAreSane /\ trashed \in Seq(Entry)
  BY TablesAreTyped DEF SlipsInvariant
<1>3. trashed[h] \in Entry /\ h \in Nat
  BY <1>2
<1>4. trashed[h].id \in Claims /\ trashed[h].read \in ClaimRows
  BY <1>3 DEF Entry
<1>5. PICK l \in Letter :
        /\ l.op = "restore" /\ l.id = trashed[h].id /\ l.read = trashed[h].read /\ l.entry = h
        /\ letter' = [letter EXCEPT ![p] = l]
  BY <1>1, <1>3, <1>4 DEF Letter
<1>6. letter' \in [Secretaries -> Letter] /\ letter'[p] = l
      /\ \A q \in Secretaries \ {p} : letter'[q] = letter[q]
  BY <1>2, <1>5
<1>7. UNCHANGED <<claim, trashed>>
  BY <1>1 DEF SameClaims
<1>8. LettersAreSane'
  <2>1. trashed[h].id # NoClaim
    BY <1>4, PayslipsAssumption
  <2> QED
    BY <1>2, <1>4, <1>5, <1>6, <1>7, <2>1 DEF LettersAreSane
<1>9. \A b \in Claims, m \in Months : IsSeenInTables(b, m)' => IsSeen(b, m)
  BY <1>5, <1>6, <1>7 DEF IsSeen, IsSeenInTables
<1> QED
  BY <1>1, <1>6, <1>8, <1>9, NotesStep

\* A request that gives up
LEMMA AbandonLetterStep ==
  ASSUME SlipsInvariant, NEW p \in Secretaries, AbandonLetter(p)
  PROVE  SlipsInvariant'
<1>1. letter' = [letter EXCEPT ![p] = NoLetter] /\ SameRuns /\ SameClaims /\ UNCHANGED <<input, unread>>
  BY DEF AbandonLetter, Notes
<1>2. letter \in [Secretaries -> Letter] /\ LettersAreSane
  BY TablesAreTyped DEF SlipsInvariant
<1>3. NoLetter \in Letter /\ NoLetter.op = "none" /\ NoLetter.id = NoClaim /\ NoClaim \notin Claims
  BY PayslipsAssumption DEF NoLetter, Letter
<1>4. letter' \in [Secretaries -> Letter] /\ letter'[p] = NoLetter
      /\ \A q \in Secretaries \ {p} : letter'[q] = letter[q]
  BY <1>1, <1>2, <1>3
<1>5. UNCHANGED <<claim, trashed>>
  BY <1>1 DEF SameClaims
<1>6. LettersAreSane'
  BY <1>2, <1>3, <1>4, <1>5 DEF LettersAreSane
<1>7. \A b \in Claims, m \in Months : IsSeenInTables(b, m)' => IsSeen(b, m)
  BY <1>3, <1>4, <1>5 DEF IsSeen, IsSeenInTables
<1> QED
  BY <1>1, <1>4, <1>6, <1>7, NotesStep

\* remove, which archives what it has read and deletes the claim.
LEMMA TrashClaimStep ==
  ASSUME SlipsInvariant, NEW p \in Secretaries, TrashClaim(p)
  PROVE  SlipsInvariant'
<1> DEFINE c == letter[p].id
<1>1. /\ letter[p].op = "trash" /\ claim[c] # NoClaim
      /\ trashed' = Append(trashed, [id |-> c, read |-> letter[p].read, state |-> "open"])
      /\ Rewrite(c, claim[c], NoClaim)
      /\ letter' = [letter EXCEPT ![p] = NoLetter] /\ SameRuns
  BY DEF TrashClaim, Notes
<1>2. letter \in [Secretaries -> Letter] /\ LettersAreSane /\ trashed \in Seq(Entry)
  BY TablesAreTyped DEF SlipsInvariant
<1>3. c \in Claims /\ letter[p].read \in ClaimRows
  BY <1>1, <1>2 DEF LettersAreSane
<1>4. PICK x \in Entry : /\ x.id = c /\ x.read = letter[p].read /\ x.state = "open"
                         /\ trashed' = Append(trashed, x)
  BY <1>1, <1>3 DEF Entry
<1>5. /\ trashed' \in Seq(Entry)
      /\ Len(trashed') = Len(trashed) + 1
      /\ trashed'[Len(trashed) + 1] = x
      /\ \A h \in 1 .. Len(trashed) : trashed'[h] = trashed[h]
  BY ONLY <1>2, <1>4, AppendProperties
<1>6. /\ DOMAIN trashed = 1 .. Len(trashed) /\ Len(trashed) \in Nat
      /\ DOMAIN trashed' = 1 .. Len(trashed')
  BY <1>2, <1>5
<1>7. DOMAIN trashed' = DOMAIN trashed \cup {Len(trashed) + 1}
      /\ \A h \in DOMAIN trashed : trashed'[h] = trashed[h]
  BY <1>5, <1>6
<1>8. /\ claim' \in [Claims -> ClaimRows \cup {NoClaim}]
      /\ claim'[c] = NoClaim /\ \A b \in Claims \ {c} : claim'[b] = claim[b]
      /\ edited' \subseteq Claims /\ edited \subseteq edited' /\ unread' \subseteq Months
  <2>1. PayslipsTypeOK /\ claim[c] \in ClaimRows \cup {NoClaim}
    BY <1>3, TablesAreTyped DEF SlipsInvariant, ShapesOK
  <2> QED
    BY ONLY <2>1, <1>1, <1>3, RewriteIsTyped
<1>9. NoLetter \in Letter /\ NoLetter.op = "none" /\ NoLetter.id = NoClaim /\ NoClaim \notin Claims
  BY PayslipsAssumption DEF NoLetter, Letter
<1>10. letter' \in [Secretaries -> Letter] /\ letter'[p] = NoLetter
       /\ \A q \in Secretaries \ {p} : letter'[q] = letter[q]
  BY <1>1, <1>2, <1>9
<1>11. LettersAreSane'
  BY <1>2, <1>7, <1>9, <1>10 DEF LettersAreSane
<1>12. \A b \in Claims, m \in Months : IsSeenInTables(b, m)' => IsSeenInTables(b, m)
  <2> SUFFICES ASSUME NEW b \in Claims, NEW m \in Months, IsSeenInTables(b, m)'
               PROVE  IsSeenInTables(b, m)
    OBVIOUS
  <2>1. CASE claim'[b] # NoClaim /\ MonthOf(claim'[b]) = m
    BY <2>1, <1>8 DEF IsSeenInTables
  <2>2. ASSUME NEW h \in DOMAIN trashed', trashed'[h].id = b, MonthOf(trashed'[h].read) = m
        PROVE  IsSeenInTables(b, m)
    BY <2>2, <1>4, <1>5, <1>7 DEF IsSeenInTables
  <2>3. ASSUME NEW q \in Secretaries, letter'[q].id = b, MonthOf(letter'[q].read) = m
        PROVE  IsSeenInTables(b, m)
    BY <2>3, <1>9, <1>10 DEF IsSeenInTables
  <2> QED
    BY <2>1, <2>2, <2>3 DEF IsSeenInTables
<1>13. \A b \in Claims, m \in Months : IsSeen(b, m)' => IsSeen(b, m)
  BY <1>1, <1>12, RunsShowTheSame DEF IsSeen
<1>14. SeenOnce'
  BY <1>8, <1>13, SeenOnceStays DEF ShowsNothingNew, SlipsInvariant
<1>15. Len(trashed) + 1 \in DOMAIN trashed' /\ trashed'[Len(trashed) + 1].id = c
  BY <1>4, <1>5, <1>7
<1>16. \A b \in Claims : EntriesOf(b) \subseteq EntriesOf(b)'
  BY <1>7 DEF EntriesOf
<1>17. KeepsWhatIsSeen
  <2> SUFFICES ASSUME NEW b \in Claims
               PROVE  /\ EntriesOf(b) # {} => EntriesOf(b)' # {}
                      /\ claim[b] # NoClaim => claim'[b] # NoClaim \/ EntriesOf(b)' # {}
                      /\ \A m \in Months : IsSeen(b, m)' => \E n \in Months : IsSeen(b, n)
    BY DEF KeepsWhatIsSeen
  <2>1. EntriesOf(b) # {} => EntriesOf(b)' # {}
    BY <1>16
  <2>2. \A m \in Months : IsSeen(b, m)' => \E n \in Months : IsSeen(b, n)
    BY <1>13
  <2>3. CASE b # c
    BY <2>1, <2>2, <2>3, <1>8
  <2>4. CASE b = c
    <3>1. EntriesOf(b)' # {}
      BY <2>4, <1>15 DEF EntriesOf
    <3> QED
      BY <2>2, <3>1
  <2> QED
    BY <2>3, <2>4
<1>18. TrashIsRestorable'
  <2> SUFFICES ASSUME NEW b \in Claims, claim'[b] = NoClaim, EntriesOf(b)' # {}
               PROVE  \E h \in EntriesOf(b)' : trashed'[h].state # "restored"
    BY DEF TrashIsRestorable
  <2>1. CASE b = c
    BY <2>1, <1>4, <1>5, <1>7 DEF EntriesOf
  <2>2. CASE b # c
    <3>1. EntriesOf(b) # {} /\ claim[b] = NoClaim
      BY <2>2, <1>4, <1>5, <1>7, <1>8 DEF EntriesOf
    <3>2. PICK h \in EntriesOf(b) : trashed[h].state # "restored"
      BY <3>1 DEF SlipsInvariant, TrashIsRestorable
    <3> QED
      BY <3>2, <1>7, <1>16 DEF EntriesOf
  <2> QED
    BY <2>1, <2>2
<1>19. UNCHANGED input
  BY DEF TrashClaim
<1> QED
  BY <1>1, <1>5, <1>8, <1>10, <1>11, <1>14, <1>17, <1>18, <1>19,
     TableStep

\* restore, which brings the claim back as it was read, or as one of this month.
LEMMA RestoreClaimStep ==
  ASSUME SlipsInvariant, NEW p \in Secretaries, RestoreClaim(p)
  PROVE  SlipsInvariant'
<1> DEFINE l == letter[p]
<1>1. /\ l.op = "restore" /\ claim[l.id] = NoClaim
      /\ Rewrite(l.id, l.read, [l.read EXCEPT !.created = today])
      /\ trashed' = [trashed EXCEPT ![l.entry].state = "restored"]
      /\ letter' = [letter EXCEPT ![p] = NoLetter] /\ SameRuns
  BY DEF RestoreClaim, Restored, Notes
<1>2. letter \in [Secretaries -> Letter] /\ LettersAreSane /\ trashed \in Seq(Entry)
  BY TablesAreTyped DEF SlipsInvariant
<1>3. /\ l.id \in Claims /\ l.read \in ClaimRows
      /\ l.entry \in DOMAIN trashed /\ trashed[l.entry].id = l.id
  BY <1>1, <1>2 DEF LettersAreSane
<1>4. PICK c \in Claims, k \in DOMAIN trashed, old \in ClaimRows :
        c = l.id /\ k = l.entry /\ old = l.read
  BY <1>3
<1>5. PICK d \in ClaimRows : Rewrite(c, old, d)
  <2>1. [old EXCEPT !.created = today] \in ClaimRows
    BY TablesAreTyped DEF ClaimRows
  <2> QED
    BY <2>1, <1>1, <1>4
<1>6. d # NoClaim /\ old # NoClaim
  BY MonthIsMonth
<1>7. /\ claim' \in [Claims -> ClaimRows \cup {NoClaim}]
      /\ claim'[c] = d /\ \A b \in Claims \ {c} : claim'[b] = claim[b]
      /\ edited' \subseteq Claims /\ edited \subseteq edited' /\ unread' \subseteq Months
      /\ c \notin edited' => MonthOf(d) = MonthOf(old)
  BY <1>5, <1>6, RewriteIsTyped DEF SlipsInvariant, ShapesOK
<1>8. PICK x \in Entry : /\ x.id = trashed[k].id /\ x.read = trashed[k].read
                         /\ x.state = "restored" /\ trashed' = [trashed EXCEPT ![k] = x]
  <2>1. trashed[k] \in Entry
    BY <1>2
  <2>2. [trashed[k] EXCEPT !.state = "restored"] \in Entry
    BY <2>1 DEF Entry
  <2>3. /\ [trashed[k] EXCEPT !.state = "restored"].id = trashed[k].id
        /\ [trashed[k] EXCEPT !.state = "restored"].read = trashed[k].read
        /\ [trashed[k] EXCEPT !.state = "restored"].state = "restored"
    BY <2>1 DEF Entry
  <2> QED
    BY <2>2, <2>3, <1>1, <1>4
<1>9. /\ trashed' \in Seq(Entry) /\ DOMAIN trashed' = DOMAIN trashed
      /\ trashed'[k] = x /\ \A h \in DOMAIN trashed \ {k} : trashed'[h] = trashed[h]
  <2>1. trashed' \in Seq(Entry)
    <3>1. k \in 1 .. Len(trashed)
      BY <1>2
    <3> QED
      BY ONLY <3>1, <1>2, <1>8, ExceptSeq
  <2> QED
    BY <2>1, <1>2, <1>8
<1>10. \A h \in DOMAIN trashed : /\ trashed'[h].id = trashed[h].id
                                 /\ trashed'[h].read = trashed[h].read
  BY <1>8, <1>9
<1>11. NoLetter \in Letter /\ NoLetter.op = "none" /\ NoLetter.id = NoClaim /\ NoClaim \notin Claims
  BY PayslipsAssumption DEF NoLetter, Letter
<1>12. letter' \in [Secretaries -> Letter] /\ letter'[p] = NoLetter
       /\ \A q \in Secretaries \ {p} : letter'[q] = letter[q]
  BY <1>1, <1>2, <1>11
<1>13. LettersAreSane'
  BY <1>2, <1>9, <1>10, <1>11, <1>12 DEF LettersAreSane
<1>14. \A b \in Claims, m \in Months : IsSeenInTables(b, m)' =>
         IsSeenInTables(b, m) \/ (b = c /\ m = MonthOf(d))
  BY <1>7, <1>9, <1>10, <1>11, <1>12 DEF IsSeenInTables
<1>15. IsSeen(c, MonthOf(old))
  BY <1>4 DEF IsSeen, IsSeenInTables
<1>16. \A b \in Claims, m \in Months :
         IsSeen(b, m)' => IsSeen(b, m) \/ (b = c /\ m = MonthOf(d))
  BY <1>1, <1>14, RunsShowTheSame DEF IsSeen
<1>17. \A b \in Claims \ edited', m \in Months : IsSeen(b, m)' => IsSeen(b, m)
  BY <1>7, <1>15, <1>16
<1>18. SeenOnce'
  BY <1>7, <1>17, SeenOnceStays DEF ShowsNothingNew, SlipsInvariant
<1>19. \A b \in Claims : EntriesOf(b)' = EntriesOf(b)
  BY <1>9, <1>10 DEF EntriesOf
<1>20. KeepsWhatIsSeen
  BY <1>6, <1>7, <1>16, <1>19 DEF KeepsWhatIsSeen
<1>21. TrashIsRestorable'
  <2> SUFFICES ASSUME NEW b \in Claims, claim'[b] = NoClaim, EntriesOf(b)' # {}
               PROVE  \E h \in EntriesOf(b)' : trashed'[h].state # "restored"
    BY DEF TrashIsRestorable
  <2>1. b # c /\ claim[b] = NoClaim /\ EntriesOf(b) # {}
    BY <1>6, <1>7, <1>19
  <2>2. PICK h \in EntriesOf(b) : trashed[h].state # "restored"
    BY <2>1 DEF SlipsInvariant, TrashIsRestorable
  <2>3. h \in DOMAIN trashed /\ h # k
    BY <2>1, <2>2, <1>3, <1>4 DEF EntriesOf
  <2> QED
    BY <2>2, <2>3, <1>9, <1>19
<1>22. UNCHANGED input
  BY DEF RestoreClaim, Restored
<1> QED
  BY <1>1, <1>7, <1>9, <1>12, <1>13, <1>18, <1>20, <1>21, <1>22,
     TableStep

\* permanentDelete: an entry is gone.
LEMMA DeleteEntryStep ==
  ASSUME SlipsInvariant, NEW k \in DOMAIN trashed, DeleteEntry(k)
  PROVE  SlipsInvariant'
<1>1. /\ trashed' = [trashed EXCEPT ![k].state = "gone"]
      /\ UNCHANGED <<claim, letter, edited, unread>> /\ SameRuns
  BY DEF DeleteEntry
<1>2. LettersAreSane /\ trashed \in Seq(Entry)
  BY TablesAreTyped DEF SlipsInvariant
<1>3. PICK x \in Entry : /\ x.id = trashed[k].id /\ x.read = trashed[k].read
                         /\ x.state = "gone" /\ trashed' = [trashed EXCEPT ![k] = x]
  <2>1. trashed[k] \in Entry
    BY <1>2
  <2>2. [trashed[k] EXCEPT !.state = "gone"] \in Entry
    BY <2>1 DEF Entry
  <2>3. /\ [trashed[k] EXCEPT !.state = "gone"].id = trashed[k].id
        /\ [trashed[k] EXCEPT !.state = "gone"].read = trashed[k].read
        /\ [trashed[k] EXCEPT !.state = "gone"].state = "gone"
    BY <2>1 DEF Entry
  <2> QED
    BY <2>2, <2>3, <1>1
<1>4. /\ trashed' \in Seq(Entry) /\ DOMAIN trashed' = DOMAIN trashed
      /\ trashed'[k] = x /\ \A h \in DOMAIN trashed \ {k} : trashed'[h] = trashed[h]
  <2>1. trashed' \in Seq(Entry)
    <3>1. k \in 1 .. Len(trashed)
      BY <1>2
    <3> QED
      BY ONLY <3>1, <1>2, <1>3, ExceptSeq
  <2> QED
    BY <2>1, <1>2, <1>3
<1>5. \A h \in DOMAIN trashed : /\ trashed'[h].id = trashed[h].id
                                /\ trashed'[h].read = trashed[h].read
  BY <1>3, <1>4
<1>6. LettersAreSane'
  BY <1>1, <1>2, <1>4, <1>5, LettersStaySane
<1>7. \A b \in Claims, m \in Months : IsSeen(b, m)' => IsSeen(b, m)
  BY <1>1, <1>4, <1>5, RunsShowTheSame DEF IsSeen, IsSeenInTables
<1>8. SeenOnce'
  BY <1>1, <1>7, SeenOnceStays DEF ShowsNothingNew, SlipsInvariant
<1>9. \A b \in Claims : EntriesOf(b)' = EntriesOf(b)
  BY <1>4, <1>5 DEF EntriesOf
<1>10. KeepsWhatIsSeen
  BY <1>1, <1>7, <1>9 DEF KeepsWhatIsSeen
<1>11. TrashIsRestorable'
  BY <1>1, <1>3, <1>4, <1>9 DEF SlipsInvariant, TrashIsRestorable
<1>12. UNCHANGED input
  BY DEF DeleteEntry
<1> QED
  BY <1>1, <1>4, <1>6, <1>8, <1>10, <1>11, <1>12, TablesAreTyped, TableStep

\* upsertInput: the month's run is out of date.
LEMMA UpsertInputStep ==
  ASSUME SlipsInvariant, NEW e \in Workers, NEW m \in Months, UpsertInput(e, m)
  PROVE  SlipsInvariant'
<1>1. Touches({m}) /\ UNCHANGED letter /\ SameClaims /\ SameRuns
  BY DEF UpsertInput
<1>8. InputIsTyped'
  <2>1. PICK i \in Inputs : input' = [input EXCEPT ![e][m] = i]
    BY DEF UpsertInput
  <2>2. input \in [Workers -> [Months -> InputRows]] /\ i \in InputRows
    BY PayslipsAssumption DEF SlipsInvariant, ShapesOK, PayslipsTypeOK
  <2> QED
    BY ONLY <2>1, <2>2 DEF InputIsTyped
<1>2. UNCHANGED <<claim, trashed, edited, letter>> /\ SameRuns
  BY <1>1 DEF SameClaims
<1>3. unread' \subseteq Months
  BY <1>1, TablesAreTyped DEF Touches
<1>4. \A b \in Claims, n \in Months : IsSeen(b, n)' => IsSeen(b, n)
  BY <1>2, RunsShowTheSame DEF IsSeen, IsSeenInTables
<1>5. SeenOnce'
  BY <1>2, <1>4, SeenOnceStays DEF ShowsNothingNew, SlipsInvariant
<1>6. KeepsWhatIsSeen
  BY <1>2, <1>4 DEF KeepsWhatIsSeen, EntriesOf
<1>7. TrashIsRestorable' /\ LettersAreSane'
  BY <1>2 DEF SlipsInvariant, TrashIsRestorable, EntriesOf, LettersAreSane
<1> QED
  BY <1>2, <1>3, <1>5, <1>6, <1>7, <1>8, TablesAreTyped, TableStep

-----------------------------------------------------------------------------
(* The runs *)

\* The tables show the same claims.
LEMMA TablesShowTheSame ==
  ASSUME SameBooks, NEW c \in Claims, NEW m \in Months
  PROVE  IsSeenInTables(c, m)' <=> IsSeenInTables(c, m)
BY DEF SameBooks, SameClaims, IsSeenInTables

\* A step of the runs preserves the invariant if it books nothing that was not seen.
LEMMA RunStep ==
  ASSUME SlipsInvariant, SameBooks, ShapesOK', ReceiptsNameTheRun',
         \A c \in Claims, m \in Months : IsSeenInRuns(c, m)' => IsSeen(c, m)
  PROVE  SlipsInvariant'
BY RunStepsKeepTables, TablesShowTheSame DEF IsSeen

\* The types after a step of the runs
LEMMA RunsAreTyped ==
  ASSUME ShapesOK, SameBooks, UNCHANGED today, unread' \subseteq Months,
         run' = [m \in Months |-> run'[m]],
         \A m \in Months :
           /\ IsRun(run[m])'
           /\ run'[m].state \in {"none", "queued", "processing", "completed", "failed"}
           /\ DOMAIN run'[m].slips \subseteq Workers,
         receipt' = [e \in Workers |-> receipt'[e]],
         \A e \in Workers : /\ receipt'[e] = [m \in Months |-> receipt'[e][m]]
                            /\ \A m \in Months : IsReceipt(receipt[e][m])',
         work' = [month |-> work'.month, stage |-> work'.stage, claim |-> work'.claim,
                  input |-> work'.input, todo |-> work'.todo, totals |-> work'.totals],
         work'.stage \in {"none", "read", "pay"},
         work'.stage = "none" <=> work' = NoWork,
         work'.stage # "none" => work'.month \in Months,
         work'.stage = "pay" => work'.claim \in [Claims -> ClaimRows \cup {NoClaim}],
         work'.todo \subseteq Workers
  PROVE  ShapesOK'
<1>1. UNCHANGED <<worker, input, claim, trashed, edited, letter>>
  BY DEF SameBooks, SameClaims
<1>2. PayslipsTypeOK'
  BY <1>1 DEF ShapesOK, PayslipsTypeOK, IsRun
<1> QED
  BY <1>1, <1>2 DEF ShapesOK, NoWork

\* What the invariant says of the runs and the receipts
LEMMA RunsHaveShapes ==
  ASSUME SlipsInvariant
  PROVE  /\ run = [m \in Months |-> run[m]]
         /\ \A m \in Months :
              /\ IsRun(run[m])
              /\ run[m].state \in {"none", "queued", "processing", "completed", "failed"}
              /\ DOMAIN run[m].slips \subseteq Workers
         /\ receipt = [e \in Workers |-> receipt[e]]
         /\ \A e \in Workers : /\ receipt[e] = [m \in Months |-> receipt[e][m]]
                               /\ \A m \in Months : IsReceipt(receipt[e][m])
         /\ unread \subseteq Months
BY DEF SlipsInvariant, ShapesOK, PayslipsTypeOK

\* ...and of the calculation in progress
LEMMA WorkHasShape ==
  ASSUME SlipsInvariant
  PROVE  /\ work = [month |-> work.month, stage |-> work.stage, claim |-> work.claim,
                    input |-> work.input, todo |-> work.todo, totals |-> work.totals]
         /\ work.stage \in {"none", "read", "pay"}
         /\ work.stage = "none" <=> work = NoWork
         /\ work.stage # "none" => work.month \in Months
         /\ work.stage = "pay" => work.claim \in [Claims -> ClaimRows \cup {NoClaim}]
         /\ work.todo \subseteq Workers
BY DEF SlipsInvariant, ShapesOK, PayslipsTypeOK

\* Months that keep their slips show what they showed.
LEMMA SlipsShowTheSame ==
  ASSUME NEW c \in Claims, NEW m \in Months, IsSeenInRuns(c, m)',
         work'.stage # "pay" \/ (work'.stage = work.stage /\ work'.claim = work.claim),
         \A n \in Months : run'[n].slips = run[n].slips \/ run'[n].slips = << >>
  PROVE  IsSeen(c, m)
<1>1. CASE work'.stage = "pay" /\ work'.claim[c] # NoClaim /\ MonthOf(work'.claim[c]) = m
  BY <1>1 DEF IsSeen, IsSeenInRuns
<1>2. ASSUME NEW e \in Workers, e \in DOMAIN run'[m].slips, c \in run'[m].slips[e].took
      PROVE  IsSeen(c, m)
  <2>1. DOMAIN << >> = {}
    OBVIOUS
  <2>2. run'[m].slips = run[m].slips
    BY <1>2, <2>1
  <2> QED
    BY <1>2, <2>2 DEF IsSeen, IsSeenInRuns, Booked
<1> QED
  BY <1>1, <1>2 DEF IsSeenInRuns, Booked

\* calculate: a run begins again, under another number.
LEMMA OpenRunStep ==
  ASSUME SlipsInvariant, NEW m \in Months, OpenRun(m)
  PROVE  SlipsInvariant'
<1>1. /\ run' = [run EXCEPT ![m] = [NotRun EXCEPT !.number = run[m].number + 1,
                                                   !.state = "queued"]]
      /\ receipt' = [e \in Workers |-> [receipt[e] EXCEPT ![m].run = 0]]
      /\ work' = [NoWork EXCEPT !.month = m, !.stage = "read"]
      /\ UNCHANGED <<today, unread>> /\ SameBooks
  BY DEF OpenRun
<1>2. /\ run = [n \in Months |-> run[n]]
      /\ \A n \in Months :
           /\ IsRun(run[n])
           /\ run[n].state \in {"none", "queued", "processing", "completed", "failed"}
           /\ DOMAIN run[n].slips \subseteq Workers
      /\ unread \subseteq Months
  BY RunsHaveShapes
<1>3. PICK r : /\ r = [number |-> run[m].number + 1, state |-> "queued", fares |-> TRUE,
                       slips |-> << >>, totals |-> NoTotals]
               /\ run' = [run EXCEPT ![m] = r]
  <2>1. ASSUME NEW x, x = [NotRun EXCEPT !.number = run[m].number + 1, !.state = "queued"]
        PROVE  x = [number |-> run[m].number + 1, state |-> "queued", fares |-> TRUE,
                    slips |-> << >>, totals |-> NoTotals]
    BY <2>1 DEF NotRun
  <2> QED
    BY <1>1, <2>1
<1>4. /\ run' = [n \in Months |-> run'[n]]
      /\ run'[m] = r /\ \A n \in Months \ {m} : run'[n] = run[n]
  BY <1>2, <1>3
<1>5. IsRun(r) /\ r.slips = << >> /\ r.state = "queued"
  BY <1>2, <1>3 DEF IsRun
<1>6. DOMAIN << >> \subseteq Workers
  OBVIOUS
<1>7. \A n \in Months :
        /\ IsRun(run[n])'
        /\ run'[n].state \in {"none", "queued", "processing", "completed", "failed"}
        /\ DOMAIN run'[n].slips \subseteq Workers
        /\ run'[n].slips = run[n].slips \/ run'[n].slips = << >>
  BY <1>2, <1>4, <1>5, <1>6 DEF IsRun
<1>8. /\ receipt' = [e \in Workers |-> receipt'[e]]
      /\ \A e \in Workers : /\ receipt'[e] = [n \in Months |-> receipt'[e][n]]
                            /\ \A n \in Months : IsReceipt(receipt[e][n])'
                            /\ receipt'[e][m].run = 0
                            /\ \A n \in Months \ {m} : receipt'[e][n] = receipt[e][n]
  <2>1. receipt' = [e \in Workers |-> receipt'[e]]
    BY <1>1
  <2> SUFFICES ASSUME NEW e \in Workers
               PROVE  /\ receipt'[e] = [n \in Months |-> receipt'[e][n]]
                      /\ \A n \in Months : IsReceipt(receipt[e][n])'
                      /\ receipt'[e][m].run = 0
                      /\ \A n \in Months \ {m} : receipt'[e][n] = receipt[e][n]
    BY <2>1
  <2>2. /\ receipt[e] = [n \in Months |-> receipt[e][n]]
        /\ \A n \in Months : IsReceipt(receipt[e][n])
    BY RunsHaveShapes
  <2>3. receipt'[e] = [receipt[e] EXCEPT ![m] = [receipt[e][m] EXCEPT !.run = 0]]
    BY <1>1
  <2>4. PICK x : /\ x = [receipt[e][m] EXCEPT !.run = 0]
                 /\ receipt'[e] = [receipt[e] EXCEPT ![m] = x]
    BY <2>3
  <2>5. IsReceipt(receipt[e][m])
    BY <2>2
  <2>6. IsReceipt(x) /\ x.run = 0
    BY <2>4, <2>5 DEF IsReceipt
  <2>7. /\ receipt'[e] = [n \in Months |-> receipt'[e][n]]
        /\ receipt'[e][m] = x /\ \A n \in Months \ {m} : receipt'[e][n] = receipt[e][n]
    BY <2>2, <2>4
  <2> QED
    BY <2>2, <2>6, <2>7 DEF IsReceipt
<1>9. /\ work' = [month |-> m, stage |-> "read", claim |-> << >>, input |-> << >>, todo |-> {},
                  totals |-> NoTotals]
      /\ work' # NoWork
  BY <1>1 DEF NoWork
<1>10. ShapesOK'
  <2>1. /\ work' = [month |-> work'.month, stage |-> work'.stage, claim |-> work'.claim,
                    input |-> work'.input, todo |-> work'.todo, totals |-> work'.totals]
        /\ work'.stage \in {"none", "read", "pay"} /\ work'.stage # "none"
        /\ work'.stage # "pay"
        /\ work'.month \in Months /\ work'.todo \subseteq Workers
    BY <1>9
  <2> QED
    BY <1>1, <1>2, <1>4, <1>7, <1>8, <1>9, <2>1, RunsAreTyped DEF SlipsInvariant
<1>11. ReceiptsNameTheRun'
  BY <1>4, <1>8 DEF SlipsInvariant, ReceiptsNameTheRun
<1>12. work'.stage # "pay"
  BY <1>9
<1>13. \A c \in Claims, n \in Months : IsSeenInRuns(c, n)' => IsSeen(c, n)
  BY <1>7, <1>12, SlipsShowTheSame
<1> QED
  BY <1>1, <1>10, <1>11, <1>13, RunStep

\* A step of the runs that leaves their numbers and the receipts
LEMMA NumbersStay ==
  ASSUME SlipsInvariant, UNCHANGED receipt, \A m \in Months : run'[m].number = run[m].number
  PROVE  ReceiptsNameTheRun'
BY DEF SlipsInvariant, ReceiptsNameTheRun

\* The queue tries again.
LEMMA RetryRunStep ==
  ASSUME SlipsInvariant, NEW m \in Months, RetryRun(m)
  PROVE  SlipsInvariant'
<1>1. /\ work' = [NoWork EXCEPT !.month = m, !.stage = "read"]
      /\ UNCHANGED <<run, receipt, today, unread>> /\ SameBooks
  BY DEF RetryRun
<1>2. /\ work' = [month |-> m, stage |-> "read", claim |-> << >>, input |-> << >>, todo |-> {},
                  totals |-> NoTotals]
      /\ work' # NoWork /\ work'.stage # "pay"
  BY <1>1 DEF NoWork
<1>3. ShapesOK'
  <2>1. /\ work' = [month |-> work'.month, stage |-> work'.stage, claim |-> work'.claim,
                    input |-> work'.input, todo |-> work'.todo, totals |-> work'.totals]
        /\ work'.stage \in {"none", "read", "pay"} /\ work'.stage # "none"
        /\ work'.month \in Months /\ work'.todo \subseteq Workers
    BY <1>2
  <2>2. /\ run' = [n \in Months |-> run'[n]]
        /\ \A n \in Months :
             /\ IsRun(run[n])'
             /\ run'[n].state \in {"none", "queued", "processing", "completed", "failed"}
             /\ DOMAIN run'[n].slips \subseteq Workers
        /\ receipt' = [e \in Workers |-> receipt'[e]]
        /\ \A e \in Workers : /\ receipt'[e] = [n \in Months |-> receipt'[e][n]]
                              /\ \A n \in Months : IsReceipt(receipt[e][n])'
        /\ unread' \subseteq Months
    BY <1>1, RunsHaveShapes DEF IsRun, IsReceipt
  <2> QED
    BY <1>1, <1>2, <2>1, <2>2, RunsAreTyped DEF SlipsInvariant
<1>4. \A c \in Claims, n \in Months : IsSeenInRuns(c, n)' => IsSeen(c, n)
  BY <1>1, <1>2, SlipsShowTheSame
<1> QED
  BY <1>1, <1>3, <1>4, NumbersStay, RunStep

\* A run is there, and one of its fields is written.
LEMMA RunsWithSlips ==
  ASSUME SlipsInvariant, NEW m \in Months, NEW r, run' = [run EXCEPT ![m] = r],
         IsRun(r), r.number = run[m].number,
         r.state \in {"none", "queued", "processing", "completed", "failed"},
         DOMAIN r.slips \subseteq Workers
  PROVE  /\ run' = [n \in Months |-> run'[n]]
         /\ run'[m] = r /\ \A n \in Months \ {m} : run'[n] = run[n]
         /\ \A n \in Months :
              /\ IsRun(run[n])'
              /\ run'[n].state \in {"none", "queued", "processing", "completed", "failed"}
              /\ DOMAIN run'[n].slips \subseteq Workers
              /\ run'[n].number = run[n].number
<1>1. /\ run = [n \in Months |-> run[n]]
      /\ \A n \in Months :
           /\ IsRun(run[n])
           /\ run[n].state \in {"none", "queued", "processing", "completed", "failed"}
           /\ DOMAIN run[n].slips \subseteq Workers
  BY RunsHaveShapes
<1>2. /\ run' = [n \in Months |-> run'[n]]
      /\ run'[m] = r /\ \A n \in Months \ {m} : run'[n] = run[n]
  BY <1>1
<1> QED
  BY <1>1, <1>2 DEF IsRun

\* The run that begins, without items
LEMMA BeginningRun ==
  ASSUME NEW r, IsRun(r), NEW fares,
         NEW y, y = [r EXCEPT !.state = "processing", !.slips = << >>, !.fares = fares]
  PROVE  y = [number |-> r.number, state |-> "processing", fares |-> fares, slips |-> << >>,
              totals |-> r.totals]
<1>1. ASSUME NEW a, NEW b, NEW f, NEW c, NEW d, NEW x,
             x = [[number |-> a, state |-> b, fares |-> f, slips |-> c, totals |-> d]
                    EXCEPT !.state = "processing", !.slips = << >>, !.fares = fares]
      PROVE  x = [number |-> a, state |-> "processing", fares |-> fares, slips |-> << >>,
                  totals |-> d]
  BY <1>1
<1>2. PICK a, b, f, c, d :
        r = [number |-> a, state |-> b, fares |-> f, slips |-> c, totals |-> d]
  BY DEF IsRun
<1>3. y = [[number |-> a, state |-> b, fares |-> f, slips |-> c, totals |-> d]
             EXCEPT !.state = "processing", !.slips = << >>, !.fares = fares]
  BY <1>2
<1>4. y = [number |-> a, state |-> "processing", fares |-> fares, slips |-> << >>,
           totals |-> d]
  BY ONLY <1>1, <1>3
<1> QED
  BY <1>2, <1>4

\* processPayrollRun reads the tables: what it has read is what they show.
LEMMA ReadBooksStep ==
  ASSUME SlipsInvariant, ReadBooks
  PROVE  SlipsInvariant'
<1> DEFINE m == work.month
<1>1. PICK fares \in BOOLEAN :
        /\ work.stage = "read"
        /\ work' = [work EXCEPT !.stage = "pay", !.claim = claim, !.todo = DOMAIN worker,
                                !.input = [e \in DOMAIN worker |-> input[e][m]]]
        /\ run' = [run EXCEPT ![m].state = "processing", ![m].slips = << >>,
                              ![m].fares = fares]
        /\ unread' = unread \ {m}
        /\ UNCHANGED <<receipt, today>> /\ SameBooks
  BY DEF ReadBooks, BooksRead
<1>2. m \in Months /\ IsRun(run[m])
  BY <1>1, WorkHasShape, RunsHaveShapes
<1>3. PICK r : /\ r = [number |-> run[m].number, state |-> "processing", fares |-> fares,
                       slips |-> << >>, totals |-> run[m].totals]
               /\ run' = [run EXCEPT ![m] = r]
  <2>1. PICK r : /\ r = [run[m] EXCEPT !.state = "processing", !.slips = << >>,
                                       !.fares = fares]
                 /\ run' = [run EXCEPT ![m] = r]
    BY <1>1, <1>2, RunsHaveShapes
  <2>2. r = [number |-> run[m].number, state |-> "processing", fares |-> fares,
             slips |-> << >>, totals |-> run[m].totals]
    BY ONLY <1>2, <2>1, BeginningRun
  <2> QED
    BY <2>1, <2>2
<1>4. DOMAIN << >> \subseteq Workers
  OBVIOUS
<1>5. IsRun(r) /\ r.slips = << >> /\ r.state = "processing" /\ r.number = run[m].number
  BY <1>1, <1>2, <1>3 DEF IsRun
<1>6. /\ run' = [n \in Months |-> run'[n]]
      /\ run'[m] = r /\ \A n \in Months \ {m} : run'[n] = run[n]
      /\ \A n \in Months :
           /\ IsRun(run[n])'
           /\ run'[n].state \in {"none", "queued", "processing", "completed", "failed"}
           /\ DOMAIN run'[n].slips \subseteq Workers
           /\ run'[n].number = run[n].number
  BY <1>2, <1>3, <1>4, <1>5, RunsWithSlips
<1>7. /\ work' = [month |-> m, stage |-> "pay", claim |-> claim, input |-> work'.input,
                  todo |-> DOMAIN worker, totals |-> work.totals]
      /\ DOMAIN worker \subseteq Workers
  BY <1>1, WorkHasShape DEF SlipsInvariant, ShapesOK, PayslipsTypeOK
<1>8. work' # NoWork /\ work'.stage = "pay" /\ work'.claim = claim
  BY <1>7 DEF NoWork
<1>9. ShapesOK'
  <2>1. claim \in [Claims -> ClaimRows \cup {NoClaim}] /\ unread' \subseteq Months
    BY <1>1, TablesAreTyped
  <2>2. /\ receipt' = [e \in Workers |-> receipt'[e]]
        /\ \A e \in Workers : /\ receipt'[e] = [n \in Months |-> receipt'[e][n]]
                              /\ \A n \in Months : IsReceipt(receipt[e][n])'
    BY <1>1, RunsHaveShapes DEF IsReceipt
  <2>3. /\ work' = [month |-> work'.month, stage |-> work'.stage, claim |-> work'.claim,
                    input |-> work'.input, todo |-> work'.todo, totals |-> work'.totals]
        /\ work'.month \in Months /\ work'.todo \subseteq Workers
    BY <1>2, <1>7
  <2> QED
    BY <2>1, <2>2, <2>3, <1>1, <1>6, <1>8, RunsAreTyped DEF SlipsInvariant
<1>10. \A c \in Claims, n \in Months : IsSeenInRuns(c, n)' => IsSeen(c, n)
  <2> SUFFICES ASSUME NEW c \in Claims, NEW n \in Months, IsSeenInRuns(c, n)'
               PROVE  IsSeen(c, n)
    OBVIOUS
  <2>1. CASE claim[c] # NoClaim /\ MonthOf(claim[c]) = n
    BY <2>1 DEF IsSeen, IsSeenInTables
  <2>2. ASSUME NEW e \in Workers, e \in DOMAIN run'[n].slips, c \in run'[n].slips[e].took
        PROVE  IsSeen(c, n)
    <3>1. DOMAIN << >> = {}
      OBVIOUS
    <3>2. n # m
      BY <2>2, <3>1, <1>5, <1>6
    <3> QED
      BY <2>2, <3>2, <1>6 DEF IsSeen, IsSeenInRuns, Booked
  <2> QED
    BY <2>1, <2>2, <1>8 DEF IsSeenInRuns, Booked
<1> QED
  BY <1>1, <1>6, <1>9, <1>10, NumbersStay, RunStep

\* What a slip has taken is due in its month.
LEMMA SlipTakesWhatIsDue ==
  ASSUME NEW who, NEW e, NEW m, NEW claims, NEW i, NEW c, c \in Slip(who, e, m, claims, i).took
  PROVE  claims[c] # NoClaim /\ MonthOf(claims[c]) = m
<1>1. Slip(who, e, m, claims, i).took = {b \in Claims : DueIn(claims[b], m) /\ claims[b].who = e}
  BY DEF Slip
<1> QED
  BY <1>1 DEF DueIn

\* What stays of the calculation while it pays.
LEMMA WorkGoesOn ==
  ASSUME SlipsInvariant, work.stage = "pay", NEW T, T \subseteq Workers, NEW t,
         work' = [work EXCEPT !.todo = T, !.totals = t]
  PROVE  /\ work' = [month |-> work'.month, stage |-> work'.stage, claim |-> work'.claim,
                     input |-> work'.input, todo |-> work'.todo, totals |-> work'.totals]
         /\ work'.stage = "pay" /\ work'.claim = work.claim /\ work'.todo \subseteq Workers
         /\ work'.month = work.month /\ work' # NoWork
<1>1. work = [month |-> work.month, stage |-> work.stage, claim |-> work.claim,
              input |-> work.input, todo |-> work.todo, totals |-> work.totals]
  BY WorkHasShape
<1>2. work' = [month |-> work.month, stage |-> work.stage, claim |-> work.claim,
               input |-> work.input, todo |-> T, totals |-> t]
  BY <1>1
<1>3. /\ work'.month = work.month /\ work'.stage = work.stage /\ work'.claim = work.claim
      /\ work'.input = work.input /\ work'.todo = T /\ work'.totals = t
  BY ONLY <1>2
<1>4. NoWork.stage = "none"
  BY DEF NoWork
<1> QED
  BY <1>2, <1>3, <1>4

\* Receipts that stay
LEMMA ReceiptsStay ==
  ASSUME SlipsInvariant, UNCHANGED receipt
  PROVE  /\ receipt' = [e \in Workers |-> receipt'[e]]
         /\ \A e \in Workers : /\ receipt'[e] = [m \in Months |-> receipt'[e][m]]
                               /\ \A m \in Months : IsReceipt(receipt[e][m])'
BY RunsHaveShapes DEF IsReceipt

\* Runs that stay
LEMMA RunsStay ==
  ASSUME SlipsInvariant, UNCHANGED run
  PROVE  /\ run' = [m \in Months |-> run'[m]]
         /\ \A m \in Months :
              /\ IsRun(run[m])'
              /\ run'[m].state \in {"none", "queued", "processing", "completed", "failed"}
              /\ DOMAIN run'[m].slips \subseteq Workers
              /\ run'[m].number = run[m].number
BY RunsHaveShapes DEF IsRun

\* An item: what it takes was read before.
LEMMA PayWorkerStep ==
  ASSUME SlipsInvariant, NEW e \in Workers, PayWorker(e)
  PROVE  SlipsInvariant'
<1> DEFINE m == work.month
<1>1. PICK slip :
        /\ slip = Slip(Riding(worker[e], run[m].fares), e, m, work.claim, work.input[e])
        /\ work.stage = "pay" /\ e \in work.todo
        /\ run' = [run EXCEPT ![m].slips =
                     [f \in DOMAIN @ \cup {e} |-> IF f = e THEN slip ELSE @[f]]]
        /\ work' = [work EXCEPT !.todo = @ \ {e}, !.totals = Plus(@, slip)]
        /\ UNCHANGED <<receipt, today, unread>> /\ SameBooks
  BY DEF PayWorker
<1>2. m \in Months /\ IsRun(run[m])
  BY <1>1, WorkHasShape, RunsHaveShapes
<1>3. PICK s : /\ s = [f \in DOMAIN run[m].slips \cup {e} |->
                         IF f = e THEN slip ELSE run[m].slips[f]]
               /\ run' = [run EXCEPT ![m] = [run[m] EXCEPT !.slips = s]]
  BY <1>1, <1>2, RunsHaveShapes
<1>4. DOMAIN s = DOMAIN run[m].slips \cup {e} /\ s[e] = slip
      /\ \A f \in DOMAIN run[m].slips \ {e} : s[f] = run[m].slips[f]
  BY <1>3
<1>5. PICK r : r = [run[m] EXCEPT !.slips = s] /\ run' = [run EXCEPT ![m] = r]
  BY <1>3
<1>6. IsRun(r) /\ r.number = run[m].number /\ r.slips = s /\ r.state = run[m].state
  BY <1>2, <1>5 DEF IsRun
<1>7. /\ run' = [n \in Months |-> run'[n]]
      /\ run'[m] = r /\ \A n \in Months \ {m} : run'[n] = run[n]
      /\ \A n \in Months :
           /\ IsRun(run[n])'
           /\ run'[n].state \in {"none", "queued", "processing", "completed", "failed"}
           /\ DOMAIN run'[n].slips \subseteq Workers
           /\ run'[n].number = run[n].number
  <2>1. /\ SlipsInvariant /\ m \in Months /\ run' = [run EXCEPT ![m] = r]
        /\ IsRun(r) /\ r.number = run[m].number
    BY <1>2, <1>5, <1>6
  <2>2. r.state \in {"none", "queued", "processing", "completed", "failed"}
    BY <1>2, <1>6, RunsHaveShapes
  <2>3. DOMAIN r.slips \subseteq Workers
    BY <1>2, <1>4, <1>6, RunsHaveShapes
  <2> QED
    BY ONLY <2>1, <2>2, <2>3, RunsWithSlips
<1>8. /\ work' = [month |-> work'.month, stage |-> work'.stage, claim |-> work'.claim,
                  input |-> work'.input, todo |-> work'.todo, totals |-> work'.totals]
      /\ work'.stage = "pay" /\ work'.claim = work.claim /\ work'.todo \subseteq Workers
      /\ work'.month = m /\ work' # NoWork
  BY <1>1, WorkHasShape, WorkGoesOn
<1>9. ShapesOK'
  BY <1>1, <1>2, <1>7, <1>8, ReceiptsStay, RunsHaveShapes, WorkHasShape, RunsAreTyped
     DEF SlipsInvariant
<1>10. \A c \in Claims, n \in Months : IsSeenInRuns(c, n)' => IsSeen(c, n)
  <2> SUFFICES ASSUME NEW c \in Claims, NEW n \in Months, IsSeenInRuns(c, n)'
               PROVE  IsSeenInRuns(c, n)
    BY DEF IsSeen
  <2>1. CASE work'.claim[c] # NoClaim /\ MonthOf(work'.claim[c]) = n
    BY <2>1, <1>1, <1>8 DEF IsSeenInRuns
  <2>2. ASSUME NEW f \in Workers, f \in DOMAIN run'[n].slips, c \in run'[n].slips[f].took
        PROVE  IsSeenInRuns(c, n)
    <3>1. CASE n = m /\ f = e
      <4>1. c \in slip.took
        BY <2>2, <3>1, <1>4, <1>6, <1>7
      <4>2. work.claim[c] # NoClaim /\ MonthOf(work.claim[c]) = n
        BY <4>1, <3>1, <1>1, SlipTakesWhatIsDue
      <4> QED
        BY <4>2, <1>1 DEF IsSeenInRuns
    <3>2. CASE ~(n = m /\ f = e)
      <4>1. f \in DOMAIN run[n].slips /\ c \in run[n].slips[f].took
        BY <2>2, <3>2, <1>4, <1>6, <1>7
      <4> QED
        BY <4>1 DEF IsSeenInRuns, Booked
    <3> QED
      BY <3>1, <3>2
  <2> QED
    BY <2>1, <2>2 DEF IsSeenInRuns, Booked
<1> QED
  BY <1>1, <1>7, <1>9, <1>10, NumbersStay, RunStep

\* An employee is passed over.
LEMMA SkipWorkerStep ==
  ASSUME SlipsInvariant, NEW e \in Workers, SkipWorker(e)
  PROVE  SlipsInvariant'
<1>1. /\ work.stage = "pay"
      /\ work' = [work EXCEPT !.todo = @ \ {e}]
      /\ UNCHANGED <<run, receipt, today, unread>> /\ SameBooks
  BY DEF SkipWorker
<1>2. work' = [work EXCEPT !.todo = work.todo \ {e}, !.totals = work.totals]
  BY <1>1, WorkHasShape
<1>3. /\ work' = [month |-> work'.month, stage |-> work'.stage, claim |-> work'.claim,
                  input |-> work'.input, todo |-> work'.todo, totals |-> work'.totals]
      /\ work'.stage = "pay" /\ work'.claim = work.claim /\ work'.todo \subseteq Workers
      /\ work'.month = work.month /\ work' # NoWork
  BY <1>1, <1>2, WorkHasShape, WorkGoesOn
<1>4. ShapesOK'
  BY <1>1, <1>3, RunsStay, ReceiptsStay, RunsHaveShapes, WorkHasShape, RunsAreTyped
     DEF SlipsInvariant
<1>5. \A c \in Claims, n \in Months : IsSeenInRuns(c, n)' => IsSeen(c, n)
  BY <1>1, <1>3, SlipsShowTheSame
<1> QED
  BY <1>1, <1>4, <1>5, NumbersStay, RunStep

\* The calculation ends, whatever is written of its run beside the items.
LEMMA WorkEnds ==
  ASSUME SlipsInvariant, NEW m \in Months, NEW r, run' = [run EXCEPT ![m] = r],
         IsRun(r), r.number = run[m].number, r.slips = run[m].slips,
         r.state \in {"completed", "failed"},
         work' = NoWork, UNCHANGED <<receipt, today, unread>>, SameBooks
  PROVE  SlipsInvariant'
<1>1. /\ run' = [n \in Months |-> run'[n]]
      /\ run'[m] = r /\ \A n \in Months \ {m} : run'[n] = run[n]
      /\ \A n \in Months :
           /\ IsRun(run[n])'
           /\ run'[n].state \in {"none", "queued", "processing", "completed", "failed"}
           /\ DOMAIN run'[n].slips \subseteq Workers
           /\ run'[n].number = run[n].number
  BY RunsHaveShapes, RunsWithSlips
<1>2. /\ work' = [month |-> work'.month, stage |-> work'.stage, claim |-> work'.claim,
                  input |-> work'.input, todo |-> work'.todo, totals |-> work'.totals]
      /\ work'.stage = "none" /\ work'.todo \subseteq Workers
  BY DEF NoWork
<1>3. ShapesOK'
  BY <1>1, <1>2, ReceiptsStay, RunsHaveShapes, RunsAreTyped DEF SlipsInvariant
<1>4. \A n \in Months : run'[n].slips = run[n].slips
  BY <1>1
<1>5. \A c \in Claims, n \in Months : IsSeenInRuns(c, n)' => IsSeen(c, n)
  BY <1>2, <1>4, SlipsShowTheSame
<1> QED
  BY <1>1, <1>3, <1>5, NumbersStay, RunStep

\* A run completes, with its totals...
LEMMA CloseRunStep ==
  ASSUME SlipsInvariant, CloseRun
  PROVE  SlipsInvariant'
<1> DEFINE m == work.month
<1>1. /\ work.stage = "pay"
      /\ run' = [run EXCEPT ![m].state = "completed", ![m].totals = work.totals]
      /\ work' = NoWork /\ UNCHANGED <<receipt, today, unread>> /\ SameBooks
  BY DEF CloseRun
<1>2. m \in Months /\ IsRun(run[m])
  BY <1>1, WorkHasShape, RunsHaveShapes
<1>3. PICK r : /\ r = [run[m] EXCEPT !.state = "completed", !.totals = work.totals]
               /\ run' = [run EXCEPT ![m] = r]
  BY <1>1, <1>2, RunsHaveShapes
<1>4. /\ IsRun(r) /\ r.number = run[m].number /\ r.slips = run[m].slips
      /\ r.state = "completed"
  BY <1>2, <1>3 DEF IsRun
<1> QED
  BY <1>1, <1>2, <1>3, <1>4, WorkEnds

\* ...or fails.
LEMMA FailRunStep ==
  ASSUME SlipsInvariant, FailRun
  PROVE  SlipsInvariant'
<1> DEFINE m == work.month
<1>1. /\ work # NoWork
      /\ run' = [run EXCEPT ![m].state = "failed"]
      /\ work' = NoWork /\ UNCHANGED <<receipt, today, unread>> /\ SameBooks
  BY DEF FailRun
<1>2. m \in Months /\ IsRun(run[m])
  BY <1>1, WorkHasShape, RunsHaveShapes
<1>3. PICK r : r = [run[m] EXCEPT !.state = "failed"] /\ run' = [run EXCEPT ![m] = r]
  BY <1>1, <1>2, RunsHaveShapes
<1>4. /\ IsRun(r) /\ r.number = run[m].number /\ r.slips = run[m].slips
      /\ r.state = "failed"
  BY <1>2, <1>3 DEF IsRun
<1> QED
  BY <1>1, <1>2, <1>3, <1>4, WorkEnds

-----------------------------------------------------------------------------
(* Receipts, and time *)

\* A step that leaves the runs and the calculation
LEMMA SameWorkStep ==
  ASSUME SlipsInvariant, SameBooks, UNCHANGED <<run, work, unread>>,
         today' \in Months,
         receipt' = [e \in Workers |-> receipt'[e]],
         \A e \in Workers : /\ receipt'[e] = [m \in Months |-> receipt'[e][m]]
                            /\ \A m \in Months : IsReceipt(receipt[e][m])',
         ReceiptsNameTheRun'
  PROVE  SlipsInvariant'
<1>1. UNCHANGED <<worker, input, claim, trashed, edited, letter>>
  BY DEF SameBooks, SameClaims
<1>2. PayslipsTypeOK'
  BY <1>1 DEF SlipsInvariant, ShapesOK, PayslipsTypeOK
<1>3. ShapesOK'
  BY <1>1, <1>2, RunsStay DEF SlipsInvariant, ShapesOK, NoWork
<1>4. \A c \in Claims, m \in Months : IsSeenInRuns(c, m)' => IsSeen(c, m)
  BY DEF IsSeen, IsSeenInRuns, Booked
<1> QED
  BY <1>3, <1>4, RunStep

\* upsertReceipt, which writes one row of some employees: it names the month's run, or none.
LEMMA ReceiptsStep ==
  ASSUME SlipsInvariant, NEW E \in SUBSET Workers, NEW m \in Months, NEW x,
         receipt' = [e \in Workers |-> IF e \in E THEN [receipt[e] EXCEPT ![m] = x]
                                       ELSE receipt[e]],
         IsReceipt(x), x.run \in {0, run[m].number}, SameWork, SameBooks
  PROVE  SlipsInvariant'
<1>1. \A e \in Workers :
        /\ receipt'[e] = [n \in Months |-> receipt'[e][n]]
        /\ \A n \in Months : IsReceipt(receipt[e][n])'
        /\ receipt'[e][m] = x \/ receipt'[e][m] = receipt[e][m]
        /\ \A n \in Months \ {m} : receipt'[e][n] = receipt[e][n]
  <2> SUFFICES ASSUME NEW e \in Workers
               PROVE  /\ receipt'[e] = [n \in Months |-> receipt'[e][n]]
                      /\ \A n \in Months : IsReceipt(receipt[e][n])'
                      /\ receipt'[e][m] = x \/ receipt'[e][m] = receipt[e][m]
                      /\ \A n \in Months \ {m} : receipt'[e][n] = receipt[e][n]
    OBVIOUS
  <2>1. /\ receipt[e] = [n \in Months |-> receipt[e][n]]
        /\ \A n \in Months : IsReceipt(receipt[e][n])
    BY RunsHaveShapes
  <2>2. CASE e \in E
    <3>1. receipt'[e] = [receipt[e] EXCEPT ![m] = x]
      BY <2>2
    <3>2. /\ receipt'[e] = [n \in Months |-> receipt'[e][n]]
          /\ receipt'[e][m] = x
          /\ \A n \in Months \ {m} : receipt'[e][n] = receipt[e][n]
      BY <2>1, <3>1
    <3> QED
      BY <2>1, <3>2 DEF IsReceipt
  <2>3. CASE e \notin E
    BY <2>1, <2>3 DEF IsReceipt
  <2> QED
    BY <2>2, <2>3
<1>2. UNCHANGED <<run, work, today, unread>>
  BY DEF SameWork
<1>3. ReceiptsNameTheRun'
  BY <1>1, <1>2 DEF SlipsInvariant, ReceiptsNameTheRun
<1>4. receipt' = [e \in Workers |-> receipt'[e]]
  OBVIOUS
<1> QED
  BY <1>1, <1>2, <1>3, <1>4, TablesAreTyped, SameWorkStep

\* Receipts are signed...
LEMMA SignReceiptsStep ==
  ASSUME SlipsInvariant, NEW E \in SUBSET Workers, NEW m \in Months, SignReceipts(E, m)
  PROVE  SlipsInvariant'
<1>1. PICK x : /\ x = [received |-> TRUE, run |-> run[m].number]
               /\ receipt' = [e \in Workers |-> IF e \in E THEN [receipt[e] EXCEPT ![m] = x]
                                                ELSE receipt[e]]
               /\ SameWork /\ SameBooks
  BY DEF SignReceipts
<1>2. IsReceipt(x) /\ x.run = run[m].number
  BY <1>1 DEF IsReceipt
<1> QED
  BY <1>1, <1>2, ReceiptsStep

\* ...or withdrawn.
LEMMA WithdrawReceiptsStep ==
  ASSUME SlipsInvariant, NEW E \in SUBSET Workers, NEW m \in Months, WithdrawReceipts(E, m)
  PROVE  SlipsInvariant'
<1>1. IsReceipt(NotReceived) /\ NotReceived.run = 0
  BY DEF IsReceipt, NotReceived
<1>2. /\ receipt' = [e \in Workers |-> IF e \in E THEN [receipt[e] EXCEPT ![m] = NotReceived]
                                       ELSE receipt[e]]
      /\ SameWork /\ SameBooks
  BY DEF WithdrawReceipts
<1> QED
  BY <1>1, <1>2, ReceiptsStep

\* A month passes.
LEMMA MonthPassesStep ==
  ASSUME SlipsInvariant, MonthPasses
  PROVE  SlipsInvariant'
<1>1. /\ today < FinalMonth /\ today' = today + 1
      /\ UNCHANGED <<run, work, receipt, unread>> /\ SameBooks
  BY DEF MonthPasses
<1>2. today' \in Months
  BY <1>1, TablesAreTyped, PayslipsAssumption DEF Months
<1>3. ReceiptsNameTheRun'
  BY <1>1 DEF SlipsInvariant, ReceiptsNameTheRun
<1> QED
  BY <1>1, <1>2, <1>3, ReceiptsStay, SameWorkStep

-----------------------------------------------------------------------------
(* The theorems *)

\* A first state: nothing is computed, trashed or received.
LEMMA SlipsBegin ==
  ASSUME PayslipsInit
  PROVE  SlipsInvariant
<1>1. /\ DOMAIN worker \subseteq Workers /\ worker \in [DOMAIN worker -> WorkerRows]
      /\ input = [e \in Workers |-> [m \in Months |-> NoInput]]
      /\ claim \in [Claims -> ClaimRows \cup {NoClaim}]
      /\ trashed = << >> /\ run = [m \in Months |-> NotRun] /\ work = NoWork
      /\ receipt = [e \in Workers |-> [m \in Months |-> NotReceived]]
      /\ today = 1 /\ letter = [p \in Secretaries |-> NoLetter] /\ edited = {} /\ unread = {}
  BY DEF PayslipsInit
<1>2. DOMAIN << >> = {} /\ << >> \in Seq(Entry)
  OBVIOUS
<1>3. /\ NotRun.state = "none" /\ NotRun.slips = << >> /\ NotRun.fares \in BOOLEAN
      /\ IsRun(NotRun)
  BY DEF NotRun, IsRun
<1>4. IsReceipt(NotReceived) /\ NotReceived.run = 0
  BY DEF IsReceipt, NotReceived
<1>5. /\ NoWork = [month |-> NoWork.month, stage |-> NoWork.stage, claim |-> NoWork.claim,
                   input |-> NoWork.input, todo |-> NoWork.todo, totals |-> NoWork.totals]
      /\ NoWork.stage = "none" /\ NoWork.todo = {}
  BY DEF NoWork
<1>6. NoLetter \in Letter /\ NoLetter.op = "none" /\ NoLetter.id = NoClaim /\ NoClaim \notin Claims
  BY PayslipsAssumption DEF NoLetter, Letter
<1>7. 1 \in Months
  BY PayslipsAssumption DEF Months
<1>8. \A m \in Months : run[m] = NotRun
  BY <1>1
<1>9. NoInput \in InputRows
  BY DEF NoInput, InputRows, Entries, Unset
<1>10. PayslipsTypeOK
  BY <1>9, <1>1, <1>2, <1>3, <1>5, <1>7, <1>8 DEF PayslipsTypeOK
<1>11. ShapesOK
  <2>1. run = [m \in Months |-> run[m]] /\ \A m \in Months : IsRun(run[m])
    BY <1>1, <1>3, <1>8
  <2>2. /\ receipt = [e \in Workers |-> receipt[e]]
        /\ \A e \in Workers : /\ receipt[e] = [m \in Months |-> receipt[e][m]]
                              /\ \A m \in Months : IsReceipt(receipt[e][m])
    BY <1>1, <1>4
  <2> QED
    BY <2>1, <2>2, <1>1, <1>2, <1>5, <1>6, <1>10 DEF ShapesOK
<1>12. LettersAreSane
  BY <1>1, <1>6 DEF LettersAreSane
<1>13. \A c \in Claims, m \in Months : IsSeen(c, m) => claim[c] # NoClaim /\ MonthOf(claim[c]) = m
  BY <1>1, <1>2, <1>3, <1>5, <1>6, <1>8 DEF IsSeen, IsSeenInTables, IsSeenInRuns, Booked
<1>14. SeenOnce /\ SeenIsKept
  BY <1>13 DEF SeenOnce, SeenIsKept
<1>15. ReceiptsNameTheRun
  BY <1>1, <1>4 DEF ReceiptsNameTheRun
<1>16. TrashIsRestorable
  BY <1>1, <1>2 DEF TrashIsRestorable, EntriesOf
<1> QED
  BY <1>11, <1>12, <1>14, <1>15, <1>16 DEF SlipsInvariant

\* A step that changes nothing
LEMMA SlipsStutter ==
  ASSUME SlipsInvariant, UNCHANGED payslipVars
  PROVE  SlipsInvariant'
<1>1. SameBooks /\ UNCHANGED <<run, work, unread, today, receipt>>
  BY DEF payslipVars, SameBooks, SameClaims
<1>2. ReceiptsNameTheRun'
  BY <1>1 DEF SlipsInvariant, ReceiptsNameTheRun
<1> QED
  BY <1>1, <1>2, TablesAreTyped, ReceiptsStay, SameWorkStep

\* Every step preserves the invariant.
LEMMA SlipsGoOn ==
  ASSUME SlipsInvariant, [PayslipsNext]_payslipVars
  PROVE  SlipsInvariant'
<1>1. CASE UNCHANGED payslipVars
  BY <1>1, SlipsStutter
<1>2. CASE StartSlips
  <2>1. ASSUME NEW c \in Claims, CreateClaim(c) \/ UpdateClaim(c)
        PROVE  SlipsInvariant'
    BY <2>1, CreateClaimStep, UpdateClaimStep
  <2>2. ASSUME NEW p \in Secretaries, NEW c \in Claims, ReadForTrash(p, c)
        PROVE  SlipsInvariant'
    BY <2>2, ReadForTrashStep
  <2>3. ASSUME NEW p \in Secretaries, NEW h \in DOMAIN trashed, ReadFromTrash(p, h)
        PROVE  SlipsInvariant'
    BY <2>3, ReadFromTrashStep
  <2>4. ASSUME NEW h \in DOMAIN trashed, DeleteEntry(h)
        PROVE  SlipsInvariant'
    BY <2>4, DeleteEntryStep
  <2>5. ASSUME NEW e \in Workers, NEW m \in Months, UpsertInput(e, m)
        PROVE  SlipsInvariant'
    BY <2>5, UpsertInputStep
  <2>6. ASSUME NEW m \in Months, OpenRun(m) \/ RetryRun(m)
        PROVE  SlipsInvariant'
    BY <2>6, OpenRunStep, RetryRunStep
  <2>7. ASSUME NEW E \in SUBSET Workers, NEW m \in Months,
               SignReceipts(E, m) \/ WithdrawReceipts(E, m)
        PROVE  SlipsInvariant'
    BY <2>7, SignReceiptsStep, WithdrawReceiptsStep
  <2>8. CASE MonthPasses
    BY <2>8, MonthPassesStep
  <2> QED
    BY <1>2, <2>1, <2>2, <2>3, <2>4, <2>5, <2>6, <2>7, <2>8 DEF StartSlips
<1>3. CASE ContinueSlips
  <2>1. ASSUME NEW p \in Secretaries, TrashClaim(p) \/ RestoreClaim(p) \/ AbandonLetter(p)
        PROVE  SlipsInvariant'
    BY <2>1, TrashClaimStep, RestoreClaimStep, AbandonLetterStep
  <2>2. ASSUME NEW e \in Workers, PayWorker(e) \/ SkipWorker(e)
        PROVE  SlipsInvariant'
    BY <2>2, PayWorkerStep, SkipWorkerStep
  <2>3. CASE ReadBooks \/ CloseRun \/ FailRun
    BY <2>3, ReadBooksStep, CloseRunStep, FailRunStep
  <2> QED
    BY <1>3, <2>1, <2>2, <2>3 DEF ContinueSlips
<1> QED
  BY <1>1, <1>2, <1>3 DEF PayslipsNext

\* The invariant holds of every behaviour.
THEOREM SlipsInvariantHolds == PayslipsSpec => []SlipsInvariant
<1>1. PayslipsInit => SlipsInvariant
  BY SlipsBegin
<1>2. SlipsInvariant /\ [PayslipsNext]_payslipVars => SlipsInvariant'
  BY SlipsGoOn
<1> QED
  BY <1>1, <1>2, PTL DEF PayslipsSpec

\* The types of the tables of a payroll and of what it computes.
THEOREM PayslipsTypes == PayslipsSpec => []PayslipsTypeOK
<1>1. SlipsInvariant => PayslipsTypeOK
  BY DEF SlipsInvariant, ShapesOK
<1> QED
  BY <1>1, SlipsInvariantHolds, PTL

\* Slips that took a claim have seen it.
LEMMA TakenIsSeen ==
  ASSUME SeenOnce
  PROVE  TakenOnce
BY DEF SeenOnce, TakenOnce, IsSeen, IsSeenInRuns, Booked

\* For any employees, claims, inputs and months: an advance, a penalty or a bonus is in the
\* slips of one month, whatever is recalculated, trashed, restored and retried; receipts
\* name the run that their month has; what was trashed can be restored.
THEOREM ClaimsAreSettledOnce == PayslipsSpec => []ClaimsSettleOnce
<1>1. SlipsInvariant => ClaimsSettleOnce
  BY TakenIsSeen DEF SlipsInvariant, ClaimsSettleOnce
<1> QED
  BY <1>1, SlipsInvariantHolds, PTL

-----------------------------------------------------------------------------
(* The days of a month *)

\* A month is of some days that are numbered; its final day is one of its own.
LEMMA MonthsHaveDays ==
  ASSUME NEW m \in Months
  PROVE  /\ FirstDay(m) \in Nat /\ FinalDay(m) \in Nat /\ 0 < FirstDay(m)
         /\ FinalDay(m) - FirstDay(m) + 1 = LastDay
         /\ FirstDay(m) .. FinalDay(m) \subseteq AllDays
         /\ IsFiniteSet(FirstDay(m) .. FinalDay(m))
         /\ MonthOfDay(FinalDay(m)) = m
<1>1. m \in Nat /\ 1 <= m /\ m <= FinalMonth /\ FinalMonth \in Nat /\ LastDay \in Nat /\ LastDay > 0
  BY DaysAssumption, PayslipsAssumption DEF Months
<1>2. \A a \in Nat, b \in Nat : a * b \in Nat
  OBVIOUS
<1>3. (m - 1) * LastDay \in Nat /\ m * LastDay \in Nat /\ FinalMonth * LastDay \in Nat
  BY <1>1, <1>2
<1>4. m * LastDay = (m - 1) * LastDay + LastDay
  BY <1>1
<1>5. m * LastDay <= FinalMonth * LastDay
  <2>1. (FinalMonth - m) * LastDay \in Nat
    BY <1>1, <1>2
  <2>2. FinalMonth * LastDay = m * LastDay + (FinalMonth - m) * LastDay
    BY <1>1
  <2> QED
    BY ONLY <1>3, <2>1, <2>2
<1>6. (m * LastDay - 1) \div LastDay = m - 1
  <2> PICK x, q : x = m * LastDay - 1 /\ q = m - 1
    OBVIOUS
  <2>1. x \in Int /\ q \in Int /\ x = q * LastDay + (LastDay - 1)
    BY <1>1, <1>3, <1>4
  <2> QED
    BY ONLY <1>1, <2>1, x = m * LastDay - 1, q = m - 1
<1>7. IsFiniteSet(FirstDay(m) .. FinalDay(m))
  BY <1>3, FS_Interval DEF FirstDay, FinalDay
<1> QED
  BY <1>1, <1>3, <1>4, <1>5, <1>6, <1>7 DEF FirstDay, FinalDay, AllDays, MonthOfDay

\* What a day and a leave of an employee are.
LEMMA DaysAreRows ==
  ASSUME NEW who \in WorkerRows, NEW d \in AllDays
  PROVE  /\ who.days[d].in \in Nat /\ who.days[d].out \in Nat
         /\ who.days[d].delay \in Nat /\ who.days[d].early \in Nat
         /\ Minutes(who.days[d]) \in Nat /\ Positive(who.days[d].out - Closes) \in Nat
<1>1. who.days[d] \in DayRows
  BY DEF WorkerRows
<1> QED
  BY <1>1, DaysAssumption DEF DayRows, Minutes, Positive

\* An employee has finitely many leaves.
LEMMA LeavesAreRows ==
  ASSUME NEW who \in WorkerRows
  PROVE  who.leaves \subseteq LeaveRows /\ IsFiniteSet(who.leaves)
BY DEF WorkerRows

-----------------------------------------------------------------------------
(* What days are worth, part by part *)

\* The leaves that cover a day, and the parts of DayHalves: presence, leave, days off,
\* overtime; and what is charged for a late arrival and for leaving early
LeavesOf(who, d) == {l \in who.leaves : d \in l.from .. l.to}

PresencePay(who, d) ==
  IF LeavesOf(who, d) = {} /\ Attends(who.days[d]) /\ d \notin RestDays THEN 2 * DayMinutes ELSE 0
LeavePay(who, d) ==
  IF LeavesOf(who, d) = {} THEN 0
  ELSE LeaveHalves(CHOOSE l \in LeavesOf(who, d) : TRUE, who.days[d])
RestPay(who, d) == IF d \in RestDays THEN 4 * Minutes(who.days[d]) ELSE 0
OvertimePay(who, d) == IF d \in RestDays THEN 0 ELSE 3 * Positive(who.days[d].out - Closes)
DelayCharge(who, d) == IF d \in Fridays THEN 0 ELSE 3 * who.days[d].delay
EarlyCharge(who, d) == IF d \in Fridays THEN 0 ELSE 2 * who.days[d].early

\* The minutes worked on some days are a sum over all of them.
LEMMA WorkedIsSum ==
  ASSUME NEW who \in WorkerRows, NEW X, X \subseteq AllDays, IsFiniteSet(X)
  PROVE  /\ WorkedMinutes(who, X) = SumFunctionOnSet([d \in X |-> Minutes(who.days[d])], X)
         /\ WorkedMinutes(who, X) \in Nat
<1> DEFINE worked == {d \in X : Attends(who.days[d]) /\ who.days[d].out > 0}
           f == [d \in worked |-> Positive(who.days[d].out - who.days[d].in)]
           g == [d \in X |-> Minutes(who.days[d])]
<1>1. \A d \in X : /\ who.days[d].in \in Nat /\ who.days[d].out \in Nat
                   /\ Minutes(who.days[d]) \in Nat
  BY DaysAreRows
<1>2. /\ worked \subseteq X
      /\ \A d \in worked : f[d] \in Int /\ g[d] = f[d]
      /\ \A d \in X \ worked : g[d] = 0
      /\ \A d \in X : g[d] \in Nat
  BY <1>1 DEF Attends, Positive, Minutes
<1>3. WorkedMinutes(who, X) = SumFunctionOnSet(f, worked)
  BY DEF WorkedMinutes
<1> HIDE DEF f, g, worked
<1>4. SumFunctionOnSet(f, worked) = SumFunctionOnSet(g, X)
  BY ONLY <1>2, IsFiniteSet(X), SumOfChosen
<1>5. SumFunctionOnSet(g, X) \in Nat
  BY <1>2, SumIsNat
<1> QED
  BY <1>3, <1>4, <1>5 DEF g

\* A part that only some days have: the sum over those, times a factor.
IsPart(f, C, c, g, D) ==
  /\ C \subseteq D /\ IsFiniteSet(D) /\ c \in Int
  /\ \A d \in C : f[d] \in Int /\ g[d] = c * f[d]
  /\ \A d \in D \ C : g[d] = 0

\* Such a part is a sum over all the days.
LEMMA PartIsSum ==
  ASSUME NEW f, NEW C, NEW c, NEW g, NEW D, IsPart(f, C, c, g, D)
  PROVE  c * SumFunctionOnSet(f, C) = SumFunctionOnSet(g, D) /\ SumFunctionOnSet(f, C) \in Int
<1> USE DEF IsPart
<1>1. IsFiniteSet(C)
  BY FS_Subset
<1>2. SumFunctionOnSet(g, C) = c * SumFunctionOnSet(f, C)
  BY <1>1, SumOfMultiples
<1>3. \A d \in C : g[d] \in Int /\ g[d] = g[d]
  OBVIOUS
<1>4. SumFunctionOnSet(g, C) = SumFunctionOnSet(g, D)
  BY ONLY <1>3, IsPart(f, C, c, g, D), SumOfChosen DEF IsPart
<1>5. SumFunctionOnSet(f, C) \in Int
  BY <1>1, SumIsInt
<1> QED
  BY <1>2, <1>4, <1>5

\* Days off
LEMMA RestIsSum ==
  ASSUME NEW who \in WorkerRows, NEW D, D \subseteq AllDays, IsFiniteSet(D)
  PROVE  /\ 4 * WeekendMinutes(who, D) = SumFunctionOnSet([d \in D |-> RestPay(who, d)], D)
         /\ WeekendMinutes(who, D) \in Int
<1> DEFINE C == D \cap RestDays
           f == [d \in C |-> Minutes(who.days[d])]
           g == [d \in D |-> RestPay(who, d)]
<1>1. C \subseteq D /\ C \subseteq AllDays
  OBVIOUS
<1>2. IsFiniteSet(C)
  BY <1>1, FS_Subset
<1>3. WeekendMinutes(who, D) = SumFunctionOnSet(f, C)
  BY <1>1, <1>2, WorkedIsSum DEF WeekendMinutes
<1>4. \A d \in C : f[d] \in Int /\ g[d] = 4 * f[d]
  BY DaysAreRows DEF RestPay
<1>5. \A d \in D \ C : g[d] = 0
  BY DEF RestPay
<1> HIDE DEF C, f, g
<1>6. IsPart(f, C, 4, g, D)
  BY <1>1, <1>4, <1>5 DEF IsPart
<1>7. 4 * SumFunctionOnSet(f, C) = SumFunctionOnSet(g, D) /\ SumFunctionOnSet(f, C) \in Int
  BY ONLY <1>6, PartIsSum
<1> QED
  BY <1>3, <1>7 DEF C, g

\* Overtime
LEMMA OvertimeIsSum ==
  ASSUME NEW who \in WorkerRows, NEW D, D \subseteq AllDays, IsFiniteSet(D)
  PROVE  /\ 3 * OvertimeMinutes(who, D) = SumFunctionOnSet([d \in D |-> OvertimePay(who, d)], D)
         /\ OvertimeMinutes(who, D) \in Int
<1> DEFINE C == D \ RestDays
           f == [d \in C |-> Positive(who.days[d].out - Closes)]
           g == [d \in D |-> OvertimePay(who, d)]
<1>1. C \subseteq D /\ C \subseteq AllDays
  OBVIOUS
<1>3. OvertimeMinutes(who, D) = SumFunctionOnSet(f, C)
  BY DEF OvertimeMinutes
<1>4. \A d \in C : f[d] \in Int /\ g[d] = 3 * f[d]
  BY DaysAreRows DEF OvertimePay
<1>5. \A d \in D \ C : g[d] = 0
  BY DEF OvertimePay
<1> HIDE DEF C, f, g
<1>6. IsPart(f, C, 3, g, D)
  BY <1>1, <1>4, <1>5 DEF IsPart
<1>7. 3 * SumFunctionOnSet(f, C) = SumFunctionOnSet(g, D) /\ SumFunctionOnSet(f, C) \in Int
  BY ONLY <1>6, PartIsSum
<1> QED
  BY <1>3, <1>7 DEF C, g

\* Lateness...
LEMMA DelayIsSum ==
  ASSUME NEW who \in WorkerRows, NEW D, D \subseteq AllDays, IsFiniteSet(D)
  PROVE  /\ 3 * Charged(who, "delay", D \ Fridays)
              = SumFunctionOnSet([d \in D |-> DelayCharge(who, d)], D)
         /\ Charged(who, "delay", D \ Fridays) \in Int
<1> DEFINE C == D \ Fridays
           f == [d \in C |-> who.days[d].delay]
           g == [d \in D |-> DelayCharge(who, d)]
<1>1. C \subseteq D /\ C \subseteq AllDays
  OBVIOUS
<1>3. Charged(who, "delay", C) = SumFunctionOnSet(f, C)
  BY DEF Charged
<1>4. \A d \in C : f[d] \in Int /\ g[d] = 3 * f[d]
  BY DaysAreRows DEF DelayCharge
<1>5. \A d \in D \ C : g[d] = 0
  BY DEF DelayCharge
<1> HIDE DEF C, f, g
<1>6. IsPart(f, C, 3, g, D)
  BY <1>1, <1>4, <1>5 DEF IsPart
<1>7. 3 * SumFunctionOnSet(f, C) = SumFunctionOnSet(g, D) /\ SumFunctionOnSet(f, C) \in Int
  BY ONLY <1>6, PartIsSum
<1> QED
  BY <1>3, <1>7 DEF C, g

\* ...and early departures
LEMMA EarlyIsSum ==
  ASSUME NEW who \in WorkerRows, NEW D, D \subseteq AllDays, IsFiniteSet(D)
  PROVE  /\ 2 * Charged(who, "early", D \ Fridays)
              = SumFunctionOnSet([d \in D |-> EarlyCharge(who, d)], D)
         /\ Charged(who, "early", D \ Fridays) \in Int
<1> DEFINE C == D \ Fridays
           f == [d \in C |-> who.days[d].early]
           g == [d \in D |-> EarlyCharge(who, d)]
<1>1. C \subseteq D /\ C \subseteq AllDays
  OBVIOUS
<1>3. Charged(who, "early", C) = SumFunctionOnSet(f, C)
  BY DEF Charged
<1>4. \A d \in C : f[d] \in Int /\ g[d] = 2 * f[d]
  BY DaysAreRows DEF EarlyCharge
<1>5. \A d \in D \ C : g[d] = 0
  BY DEF EarlyCharge
<1> HIDE DEF C, f, g
<1>6. IsPart(f, C, 2, g, D)
  BY <1>1, <1>4, <1>5 DEF IsPart
<1>7. 2 * SumFunctionOnSet(f, C) = SumFunctionOnSet(g, D) /\ SumFunctionOnSet(f, C) \in Int
  BY ONLY <1>6, PartIsSum
<1> QED
  BY <1>3, <1>7 DEF C, g

\* Presence
LEMMA PresenceIsSum ==
  ASSUME NEW who \in WorkerRows, NEW from \in Nat, NEW to \in Nat, from .. to \subseteq AllDays
  PROVE  LET P == PresentDays(who, from, to, from .. to)
         IN  /\ 2 * DayMinutes * Cardinality(P)
                  = SumFunctionOnSet([d \in from .. to |-> PresencePay(who, d)], from .. to)
             /\ Cardinality(P) \in Nat
             /\ P = {d \in from .. to : /\ Attends(who.days[d]) /\ d \notin RestDays
                                        /\ \A l \in who.leaves : d \notin l.from .. l.to}
<1> DEFINE D == from .. to
           P == PresentDays(who, from, to, D)
           g == [d \in D |-> PresencePay(who, d)]
<1>1. IsFiniteSet(D)
  BY FS_Interval
<1>2. \A d \in D : d \in LeaveDays(who, from, to) <=> \E l \in who.leaves : d \in l.from .. l.to
  <2> SUFFICES ASSUME NEW d \in D
               PROVE  d \in LeaveDays(who, from, to) <=> \E l \in who.leaves : d \in l.from .. l.to
    OBVIOUS
  <2>1. \A l \in who.leaves : l.from \in Nat /\ l.to \in Nat
    BY LeavesAreRows DEF LeaveRows
  <2>2. \A l \in who.leaves : d \in Within(l, from, to) <=> d \in l.from .. l.to
    BY <2>1 DEF Within, Greatest, Least
  <2> QED
    BY <2>2 DEF LeaveDays, LeavesIn
<1>3. P = {d \in D : /\ Attends(who.days[d]) /\ d \notin RestDays
                     /\ \A l \in who.leaves : d \notin l.from .. l.to}
  BY <1>2 DEF PresentDays
<1>4. P \subseteq D /\ \A d \in P : g[d] = 2 * DayMinutes
  BY <1>3 DEF PresencePay, LeavesOf
<1>5. \A d \in D \ P : g[d] = 0
  BY <1>3 DEF PresencePay, LeavesOf
<1>6. IsFiniteSet(P)
  BY <1>1, <1>4, FS_Subset
<1>7. 2 * DayMinutes \in Int
  BY DaysAssumption
<1> HIDE DEF P, g
<1>8. SumFunctionOnSet(g, P) = (2 * DayMinutes) * Cardinality(P)
  BY ONLY <1>4, <1>6, <1>7, SumOfConstants
<1>9. SumFunctionOnSet(g, P) = SumFunctionOnSet(g, D)
  <2>1. \A d \in P : g[d] \in Int /\ g[d] = g[d]
    BY <1>4, <1>7
  <2> HIDE DEF D
  <2> QED
    BY ONLY <1>1, <1>4, <1>5, <2>1, SumOfChosen
<1>10. Cardinality(P) \in Nat
  BY <1>6, FS_CardinalityType
<1> QED
  BY <1>3, <1>8, <1>9, <1>10 DEF P, g

-----------------------------------------------------------------------------
(* What the leaves of a period pay *)

\* The sum of four parts
LEMMA SumOfFour ==
  ASSUME NEW a, NEW b, NEW c, NEW d, NEW h, NEW S, IsFiniteSet(S),
         \A x \in S : /\ a[x] \in Int /\ b[x] \in Int /\ c[x] \in Int /\ d[x] \in Int
                      /\ h[x] = a[x] + b[x] + c[x] + d[x]
  PROVE  SumFunctionOnSet(h, S) = SumFunctionOnSet(a, S) + SumFunctionOnSet(b, S)
                                  + SumFunctionOnSet(c, S) + SumFunctionOnSet(d, S)
<1> DEFINE ab == [x \in S |-> a[x] + b[x]]
           abc == [x \in S |-> ab[x] + c[x]]
<1>1. \A x \in S : a[x] \in Int /\ b[x] \in Int /\ ab[x] = a[x] + b[x]
  OBVIOUS
<1>2. \A x \in S : ab[x] \in Int /\ c[x] \in Int /\ abc[x] = ab[x] + c[x]
  OBVIOUS
<1>3. \A x \in S : abc[x] \in Int /\ d[x] \in Int /\ h[x] = abc[x] + d[x]
  OBVIOUS
<1>0. IsFiniteSet(S)
  OBVIOUS
<1> HIDE DEF ab, abc
<1>4. SumFunctionOnSet(ab, S) = SumFunctionOnSet(a, S) + SumFunctionOnSet(b, S)
  BY ONLY <1>0, <1>1, SumOfBoth
<1>5. SumFunctionOnSet(abc, S) = SumFunctionOnSet(ab, S) + SumFunctionOnSet(c, S)
  BY ONLY <1>0, <1>2, SumOfBoth
<1>6. SumFunctionOnSet(h, S) = SumFunctionOnSet(abc, S) + SumFunctionOnSet(d, S)
  BY ONLY <1>0, <1>3, SumOfBoth
<1> QED
  BY <1>4, <1>5, <1>6

\* A leave within a period, and its days
LEMMA LeaveIsWithin ==
  ASSUME NEW who \in WorkerRows, NEW from \in Nat, NEW to \in Nat,
         NEW l \in LeavesIn(who, from, to)
  PROVE  /\ Within(l, from, to) \subseteq from .. to
         /\ Within(l, from, to) \subseteq l.from .. l.to
         /\ l \in who.leaves /\ l \in LeaveRows
<1>1. l \in who.leaves /\ l \in LeaveRows
  BY LeavesAreRows DEF LeavesIn
<1> QED
  BY <1>1 DEF Within, Greatest, Least, LeaveRows

\* If leaves are clear it is the only one of its days.
LEMMA LeaveIsAlone ==
  ASSUME NEW who \in WorkerRows, LeavesAreClear(who), NEW from \in Nat, NEW to \in Nat,
         NEW l \in LeavesIn(who, from, to)
  PROVE  \A d \in Within(l, from, to) : LeavesOf(who, d) = {l}
<1> SUFFICES ASSUME NEW d \in Within(l, from, to) PROVE LeavesOf(who, d) = {l}
  OBVIOUS
<1>1. l \in who.leaves /\ d \in l.from .. l.to
  BY LeaveIsWithin
<1>2. \A k \in who.leaves : d \in k.from .. k.to => k = l
  BY <1>1 DEF LeavesAreClear
<1> QED
  BY <1>1, <1>2 DEF LeavesOf

\* The leaves of a period are finitely many.
LEMMA LeavesAreFinite ==
  ASSUME NEW who \in WorkerRows, NEW from, NEW to
  PROVE  IsFiniteSet(LeavesIn(who, from, to))
<1>1. IsFiniteSet(who.leaves) /\ LeavesIn(who, from, to) \subseteq who.leaves
  BY LeavesAreRows DEF LeavesIn
<1> QED
  BY <1>1, FS_Subset

\* What a leave pays of a period
LeaveWorth(who, l, days) ==
  CASE l.type = "SICK" /\ l.hourly -> Remainder(l)
    [] l.type = "SICK" /\ ~l.hourly -> DayMinutes * Cardinality(days)
    [] l.type = "PAID" -> 2 * DayMinutes * Cardinality(days)
    [] l.type = "OTHER" -> 2 * (l.rate * WorkedMinutes(who, days))
    [] l.type = "UNPAID" -> 0

\* Each type of leave has its own pay.
LEMMA LeavesAreTyped ==
  ASSUME NEW l \in LeaveRows, NEW who, NEW days, NEW day
  PROVE  /\ l.type = "SICK" /\ l.hourly =>
              /\ LeaveWorth(who, l, days) = Remainder(l)
              /\ LeaveHalves(l, day) = Remainder(l)
         /\ l.type = "SICK" /\ ~l.hourly =>
              /\ LeaveWorth(who, l, days) = DayMinutes * Cardinality(days)
              /\ LeaveHalves(l, day) = DayMinutes
         /\ l.type = "PAID" =>
              /\ LeaveWorth(who, l, days) = 2 * DayMinutes * Cardinality(days)
              /\ LeaveHalves(l, day) = 2 * DayMinutes
         /\ l.type = "OTHER" =>
              /\ LeaveWorth(who, l, days) = 2 * (l.rate * WorkedMinutes(who, days))
              /\ LeaveHalves(l, day) = 2 * l.rate * Minutes(day)
         /\ l.type = "UNPAID" => LeaveWorth(who, l, days) = 0 /\ LeaveHalves(l, day) = 0
         /\ \/ l.type = "SICK" /\ l.hourly
            \/ l.type = "SICK" /\ ~l.hourly
            \/ l.type = "PAID"
            \/ l.type = "OTHER"
            \/ l.type = "UNPAID"
         /\ Remainder(l) \in Nat /\ l.rate \in Nat /\ l.hourly \in BOOLEAN
<1>1. l.type \in LeaveTypes /\ l.hourly \in BOOLEAN /\ l.starts \in Nat /\ l.rate \in Nat
  BY DEF LeaveRows
<1>2. Remainder(l) \in Nat
      /\ Remainder(l) = IF Opens < l.starts /\ l.starts < Closes THEN Closes - l.starts ELSE 0
  BY <1>1, DaysAssumption DEF Remainder, Positive
<1>3. l.type = "SICK" /\ l.hourly =>
              /\ LeaveWorth(who, l, days) = Remainder(l)
              /\ LeaveHalves(l, day) = Remainder(l)
  BY <1>2 DEF LeaveWorth, LeaveHalves
<1>4. l.type = "SICK" /\ ~l.hourly =>
              /\ LeaveWorth(who, l, days) = DayMinutes * Cardinality(days)
              /\ LeaveHalves(l, day) = DayMinutes
  BY DEF LeaveWorth, LeaveHalves
<1>5. l.type = "PAID" =>
              /\ LeaveWorth(who, l, days) = 2 * DayMinutes * Cardinality(days)
              /\ LeaveHalves(l, day) = 2 * DayMinutes
  BY DEF LeaveWorth, LeaveHalves
<1>6. l.type = "OTHER" =>
              /\ LeaveWorth(who, l, days) = 2 * (l.rate * WorkedMinutes(who, days))
              /\ LeaveHalves(l, day) = 2 * l.rate * Minutes(day)
  BY DEF LeaveWorth, LeaveHalves
<1>7. l.type = "UNPAID" => LeaveWorth(who, l, days) = 0 /\ LeaveHalves(l, day) = 0
  BY DEF LeaveWorth, LeaveHalves
<1> QED
  BY <1>1, <1>2, <1>3, <1>4, <1>5, <1>6, <1>7 DEF LeaveTypes

\* The days of a leave are worth together what the leave pays.
LEMMA LeaveIsPaid ==
  ASSUME NEW who \in WorkerRows, LeavesAreClear(who), NEW from \in Nat, NEW to \in Nat,
         from .. to \subseteq AllDays, NEW l \in LeavesIn(who, from, to),
         NEW f, \A d \in from .. to : f[d] = LeavePay(who, d)
  PROVE  /\ SumFunctionOnSet(f, Within(l, from, to))
              = LeaveWorth(who, l, Within(l, from, to))
         /\ \A d \in Within(l, from, to) : f[d] \in Int
<1> DEFINE W == Within(l, from, to)
<1>1. /\ W \subseteq from .. to /\ W \subseteq l.from .. l.to
      /\ \A d \in W : LeavesOf(who, d) = {l}
      /\ l \in who.leaves /\ l \in LeaveRows
  BY LeaveIsAlone, LeaveIsWithin
<1>2. IsFiniteSet(W) /\ W \subseteq AllDays /\ W # {}
  <2>1. IsFiniteSet(from .. to)
    BY FS_Interval
  <2>2. IsFiniteSet(W)
    BY <1>1, <2>1, FS_Subset
  <2>3. W \subseteq AllDays
    BY <1>1
  <2>4. W # {}
    BY DEF LeavesIn
  <2> QED
    BY <2>2, <2>3, <2>4
<1>3. \A d \in W : f[d] = LeaveHalves(l, who.days[d])
  <2> SUFFICES ASSUME NEW d \in W PROVE f[d] = LeaveHalves(l, who.days[d])
    OBVIOUS
  <2>1. LeavesOf(who, d) = {l} /\ f[d] = LeavePay(who, d)
    BY <1>1
  <2>2. LeavesOf(who, d) # {} /\ (CHOOSE k \in LeavesOf(who, d) : TRUE) = l
    BY <2>1
  <2> QED
    BY <2>1, <2>2 DEF LeavePay
<1>4. Cardinality(W) \in Nat
  BY <1>2, FS_CardinalityType
<1>5. DayMinutes \in Int /\ 2 * DayMinutes \in Int
  BY DaysAssumption
<1> HIDE DEF W
<1>6. CASE l.type = "SICK" /\ l.hourly
  <2>1. PICK d : W = {d}
    <3>1. l.from = l.to /\ l.from \in Nat
      BY <1>1, <1>6 DEF LeavesAreClear, LeaveRows
    <3>2. \A d \in W : d = l.from
      BY <1>1, <3>1
    <3>3. PICK d : d \in W
      BY <1>2
    <3>4. W = {d}
      BY <3>2, <3>3
    <3> QED
      BY <3>4
  <2>2. f[d] = Remainder(l) /\ Remainder(l) \in Int /\ LeaveWorth(who, l, W) = Remainder(l)
    BY <1>1, <1>3, <1>6, <2>1, LeavesAreTyped
  <2>3. SumFunctionOnSet(f, W) = f[d] + SumFunctionOnSet(f, W \ {d})
    BY <1>2, <2>1, <2>2, SumTakesAny
  <2>4. SumFunctionOnSet(f, W \ {d}) = 0
    BY <2>1, SumOfNothing, W \ {d} = {}
  <2> QED
    BY <2>1, <2>2, <2>3, <2>4 DEF W
<1>7. CASE l.type = "SICK" /\ ~l.hourly
  <2>1. \A d \in W : f[d] = DayMinutes
    BY <1>1, <1>3, <1>7, LeavesAreTyped
  <2>2. SumFunctionOnSet(f, W) = DayMinutes * Cardinality(W)
    BY ONLY <1>2, <1>5, <2>1, SumOfConstants
  <2>3. LeaveWorth(who, l, W) = DayMinutes * Cardinality(W)
    BY <1>1, <1>7, LeavesAreTyped
  <2> QED
    BY <1>5, <2>1, <2>2, <2>3 DEF W
<1>8. CASE l.type = "PAID"
  <2>1. \A d \in W : f[d] = 2 * DayMinutes
    BY <1>1, <1>3, <1>8, LeavesAreTyped
  <2>2. SumFunctionOnSet(f, W) = 2 * DayMinutes * Cardinality(W)
    BY ONLY <1>2, <1>5, <2>1, SumOfConstants
  <2>3. LeaveWorth(who, l, W) = 2 * DayMinutes * Cardinality(W)
    BY <1>1, <1>8, LeavesAreTyped
  <2> QED
    BY <1>5, <2>1, <2>2, <2>3 DEF W
<1>9. CASE l.type = "OTHER"
  <2> DEFINE g == [d \in W |-> Minutes(who.days[d])]
  <2>1. 2 * l.rate \in Int /\ l.rate \in Nat
    BY <1>1 DEF LeaveRows
  <2>2. \A d \in W : g[d] \in Int /\ f[d] = (2 * l.rate) * g[d]
    <3>1. \A d \in W : f[d] = 2 * l.rate * Minutes(who.days[d])
      BY <1>1, <1>3, <1>9, LeavesAreTyped
    <3>2. \A d \in W : Minutes(who.days[d]) \in Nat
      BY <1>2, DaysAreRows
    <3> QED
      BY <3>1, <3>2
  <2>3. WorkedMinutes(who, W) = SumFunctionOnSet(g, W) /\ WorkedMinutes(who, W) \in Nat
    BY <1>2, WorkedIsSum
  <2>4. LeaveWorth(who, l, W) = 2 * (l.rate * WorkedMinutes(who, W))
    BY <1>1, <1>9, LeavesAreTyped
  <2> HIDE DEF g
  <2>5. SumFunctionOnSet(f, W) = (2 * l.rate) * SumFunctionOnSet(g, W)
    BY ONLY <1>2, <2>1, <2>2, SumOfMultiples
  <2>6. (2 * l.rate) * WorkedMinutes(who, W) = 2 * (l.rate * WorkedMinutes(who, W))
    BY <2>1, <2>3
  <2>7. \A d \in W : f[d] \in Int
    <3> SUFFICES ASSUME NEW d \in W PROVE f[d] \in Int
      OBVIOUS
    <3> PICK r \in Int, n \in Int : r = 2 * l.rate /\ n = g[d]
      BY <2>1, <2>2
    <3>1. f[d] = r * n
      BY <2>2
    <3> QED
      BY <3>1
  <2> QED
    BY <2>3, <2>4, <2>5, <2>6, <2>7 DEF W
<1>10. CASE l.type = "UNPAID"
  <2>1. \A d \in W : f[d] = 0
    BY <1>1, <1>3, <1>10, LeavesAreTyped
  <2>2. SumFunctionOnSet(f, W) = 0
    BY ONLY <1>2, <2>1, SumOfZeros
  <2>3. LeaveWorth(who, l, W) = 0
    BY <1>1, <1>10, LeavesAreTyped
  <2> QED
    BY <2>1, <2>2, <2>3 DEF W
<1> QED
  BY <1>1, <1>6, <1>7, <1>8, <1>9, <1>10, LeavesAreTyped

\* What the leaves of a period pay is what its days are worth for them.
LEMMA LeavesAddUp ==
  ASSUME NEW who \in WorkerRows, LeavesAreClear(who), NEW from \in Nat, NEW to \in Nat,
         from .. to \subseteq AllDays
  PROVE  LET L == LeavesIn(who, from, to)
             D == from .. to
         IN  /\ IsFiniteSet(L)
             /\ SumFunctionOnSet([d \in D |-> LeavePay(who, d)], D)
                  = SumFunctionOnSet([l \in L |-> LeaveWorth(who, l, Within(l, from, to))], L)
             /\ \A d \in D : LeavePay(who, d) \in Int
<1> DEFINE L == LeavesIn(who, from, to)
           D == from .. to
           f == [d \in D |-> LeavePay(who, d)]
           group == [l \in L |-> Within(l, from, to)]
           h == [l \in L |-> LeaveWorth(who, l, Within(l, from, to))]
<1>1. IsFiniteSet(L) /\ IsFiniteSet(D)
  BY LeavesAreFinite, FS_Interval
<1>2. \A l \in L : /\ SumFunctionOnSet(f, Within(l, from, to))
                        = LeaveWorth(who, l, Within(l, from, to))
                   /\ \A d \in Within(l, from, to) : f[d] \in Int
                   /\ Within(l, from, to) \subseteq D
                   /\ \A d \in Within(l, from, to) : LeavesOf(who, d) = {l}
  <2> SUFFICES ASSUME NEW l \in L
               PROVE  /\ SumFunctionOnSet(f, Within(l, from, to))
                           = LeaveWorth(who, l, Within(l, from, to))
                      /\ \A d \in Within(l, from, to) : f[d] \in Int
                      /\ Within(l, from, to) \subseteq D
                      /\ \A d \in Within(l, from, to) : LeavesOf(who, d) = {l}
    OBVIOUS
  <2>1. \A d \in from .. to : f[d] = LeavePay(who, d)
    OBVIOUS
  <2> HIDE DEF f
  <2>2. /\ SumFunctionOnSet(f, Within(l, from, to))
             = LeaveWorth(who, l, Within(l, from, to))
        /\ \A d \in Within(l, from, to) : f[d] \in Int
    BY <2>1, LeaveIsPaid
  <2> QED
    BY <2>2, LeaveIsAlone, LeaveIsWithin
<1>3. \A d \in D : f[d] = 0 \/ \E l \in L : d \in Within(l, from, to)
  <2> SUFFICES ASSUME NEW d \in D, f[d] # 0 PROVE \E l \in L : d \in Within(l, from, to)
    OBVIOUS
  <2>1. PICK l \in LeavesOf(who, d) : TRUE
    BY DEF LeavePay
  <2>2. l \in who.leaves /\ l \in LeaveRows /\ d \in l.from .. l.to
    BY LeavesAreRows DEF LeavesOf
  <2>3. d \in Within(l, from, to)
    BY <2>2 DEF Within, Greatest, Least, LeaveRows
  <2> QED
    BY <2>2, <2>3 DEF LeavesIn
<1>4. \A d \in D : f[d] \in Int
  <2> SUFFICES ASSUME NEW d \in D PROVE f[d] \in Int
    OBVIOUS
  <2>1. CASE f[d] = 0
    BY <2>1
  <2>2. CASE \E l \in L : d \in Within(l, from, to)
    BY <1>2, <2>2
  <2> QED
    BY <1>3, <2>1, <2>2
<1>5. \A l \in L : group[l] \subseteq D /\ h[l] = SumFunctionOnSet(f, group[l])
  BY <1>2
<1>6. \A k, l \in L : k # l => group[k] \cap group[l] = {}
  <2>1. \A k \in L : \A d \in group[k] : LeavesOf(who, d) = {k}
    BY <1>2
  <2> HIDE DEF group, L
  <2>2. ASSUME NEW k \in L, NEW l \in L, NEW d \in group[k] \cap group[l]
        PROVE  k = l
    <3>1. LeavesOf(who, d) = {k} /\ LeavesOf(who, d) = {l}
      BY <2>1, <2>2
    <3> QED
      BY <3>1
  <2> QED
    BY <2>2
<1>7. \A d \in D : f[d] = 0 \/ \E l \in L : d \in group[l]
  BY <1>3
<1>8. SumFunctionOnSet(f, D) = SumFunctionOnSet(h, L)
  <2> HIDE DEF f, D, L, group, h
  <2> QED
    BY ONLY <1>1, <1>4, <1>5, <1>6, <1>7, SumByGroups
<1> QED
  BY <1>1, <1>4, <1>8

\* What the leaves of a period pay, in the parts that a calculation adds up
LEMMA LeavesAreParts ==
  ASSUME NEW who \in WorkerRows, NEW from \in Nat, NEW to \in Nat,
         from .. to \subseteq AllDays
  PROVE  LET L == LeavesIn(who, from, to)
             D == from .. to
         IN  /\ SumFunctionOnSet([l \in L |-> LeaveWorth(who, l, Within(l, from, to))], L)
                  = SickRemainder(who, from, to) + DayMinutes * SickDays(who, from, to)
                    + (2 * DayMinutes) * PaidDays(who, from, to)
                    + 2 * HolidayMinutes(who, from, to, D)
             /\ SickRemainder(who, from, to) \in Int /\ SickDays(who, from, to) \in Int
             /\ PaidDays(who, from, to) \in Int /\ HolidayMinutes(who, from, to, D) \in Int
<1> DEFINE L == LeavesIn(who, from, to)
           D == from .. to
           h == [l \in L |-> LeaveWorth(who, l, Within(l, from, to))]
           H == {l \in L : l.type = "SICK" /\ l.hourly}
           S == {l \in L : l.type = "SICK" /\ ~l.hourly}
           P == {l \in L : l.type = "PAID"}
           O == {l \in L : l.type = "OTHER"}
           fH == [l \in H |-> Remainder(l)]
           fS == [l \in S |-> Cardinality(Within(l, from, to))]
           fP == [l \in P |-> Cardinality(Within(l, from, to))]
           fO == [l \in O |-> l.rate * WorkedMinutes(who, Within(l, from, to) \cap D)]
           gH == [l \in L |-> IF l \in H THEN h[l] ELSE 0]
           gS == [l \in L |-> IF l \in S THEN h[l] ELSE 0]
           gP == [l \in L |-> IF l \in P THEN h[l] ELSE 0]
           gO == [l \in L |-> IF l \in O THEN h[l] ELSE 0]
<1>1. IsFiniteSet(L)
  BY LeavesAreFinite
<1>2. \A l \in L : /\ Within(l, from, to) \subseteq D /\ IsFiniteSet(Within(l, from, to))
                   /\ Within(l, from, to) \subseteq AllDays
                   /\ Cardinality(Within(l, from, to)) \in Nat
                   /\ WorkedMinutes(who, Within(l, from, to)) \in Nat
                   /\ Within(l, from, to) \cap D = Within(l, from, to)
                   /\ l \in LeaveRows
  <2> SUFFICES ASSUME NEW l \in L
               PROVE  /\ Within(l, from, to) \subseteq D /\ IsFiniteSet(Within(l, from, to))
                      /\ Within(l, from, to) \subseteq AllDays
                      /\ Cardinality(Within(l, from, to)) \in Nat
                      /\ WorkedMinutes(who, Within(l, from, to)) \in Nat
                      /\ Within(l, from, to) \cap D = Within(l, from, to)
                      /\ l \in LeaveRows
    OBVIOUS
  <2>1. Within(l, from, to) \subseteq D /\ l \in LeaveRows
    BY LeaveIsWithin
  <2>2. IsFiniteSet(D)
    BY FS_Interval
  <2>3. IsFiniteSet(Within(l, from, to))
    BY <2>1, <2>2, FS_Subset
  <2>4. Within(l, from, to) \subseteq AllDays
    BY <2>1
  <2> QED
    BY <2>1, <2>3, <2>4, FS_CardinalityType, WorkedIsSum
<1>3. /\ \A l \in H : fH[l] \in Int /\ h[l] = 1 * fH[l]
      /\ \A l \in S : fS[l] \in Int /\ h[l] = DayMinutes * fS[l]
      /\ \A l \in P : fP[l] \in Int /\ h[l] = (2 * DayMinutes) * fP[l]
      /\ \A l \in O : fO[l] \in Int /\ h[l] = 2 * fO[l]
      /\ \A l \in (((L \ H) \ S) \ P) \ O : h[l] = 0
  <2>1. \A l \in H : fH[l] \in Int /\ h[l] = 1 * fH[l]
    BY <1>2, LeavesAreTyped
  <2>2. \A l \in S : fS[l] \in Int /\ h[l] = DayMinutes * fS[l]
    BY <1>2, LeavesAreTyped
  <2>3. \A l \in P : fP[l] \in Int /\ h[l] = (2 * DayMinutes) * fP[l]
    BY <1>2, LeavesAreTyped
  <2>4. \A l \in O : fO[l] \in Int /\ h[l] = 2 * fO[l]
    <3> SUFFICES ASSUME NEW l \in O PROVE fO[l] \in Int /\ h[l] = 2 * fO[l]
      OBVIOUS
    <3>1. l \in LeaveRows /\ l \in L /\ l.type = "OTHER" /\ l.rate \in Nat
      BY <1>2 DEF LeaveRows
    <3>2. h[l] = 2 * (l.rate * WorkedMinutes(who, Within(l, from, to)))
      BY <3>1, LeavesAreTyped
    <3>3. fO[l] = l.rate * WorkedMinutes(who, Within(l, from, to))
      BY <1>2, <3>1
    <3>4. l.rate * WorkedMinutes(who, Within(l, from, to)) \in Int
      <4> PICK r \in Nat, n \in Nat : r = l.rate /\ n = WorkedMinutes(who, Within(l, from, to))
        BY <1>2, <3>1
      <4> QED
        OBVIOUS
    <3> QED
      BY <3>2, <3>3, <3>4
  <2>5. \A l \in (((L \ H) \ S) \ P) \ O : h[l] = 0
    BY <1>2, LeavesAreTyped
  <2> QED
    BY <2>1, <2>2, <2>3, <2>4, <2>5
<1>4. /\ H \subseteq L /\ S \subseteq L /\ P \subseteq L /\ O \subseteq L
      /\ H \cap S = {} /\ H \cap P = {} /\ H \cap O = {} /\ S \cap P = {} /\ S \cap O = {}
      /\ P \cap O = {}
  <2>1. \A l \in H : l \notin S /\ l \notin P /\ l \notin O
    OBVIOUS
  <2>2. \A l \in S : l \notin P /\ l \notin O
    OBVIOUS
  <2>3. \A l \in P : l \notin O
    OBVIOUS
  <2> HIDE DEF H, S, P, O
  <2>4. H \subseteq L /\ S \subseteq L /\ P \subseteq L /\ O \subseteq L
    BY DEF H, S, P, O
  <2> QED
    BY <2>1, <2>2, <2>3, <2>4
<1>5. DayMinutes \in Nat
  BY DaysAssumption
<1>6. /\ SickRemainder(who, from, to) = SumFunctionOnSet(fH, H)
      /\ PaidDays(who, from, to) = SumFunctionOnSet(fP, P)
      /\ HolidayMinutes(who, from, to, D) = SumFunctionOnSet(fO, O)
  <2>1. SickRemainder(who, from, to) = SumFunctionOnSet(fH, H)
    BY DEF SickRemainder
  <2>2. PaidDays(who, from, to) = SumFunctionOnSet(fP, P)
    <3>1. {l \in LeavesIn(who, from, to) : l.type \in {"PAID"}} = P
      OBVIOUS
    <3> QED
      BY <3>1 DEF PaidDays, DaysOn
  <2>3. HolidayMinutes(who, from, to, D) = SumFunctionOnSet(fO, O)
    BY DEF HolidayMinutes
  <2> QED
    BY <2>1, <2>2, <2>3
<1>7. SickDays(who, from, to) = SumFunctionOnSet(fS, S)
  <2> DEFINE other == [who EXCEPT !.leaves = {l \in @ : ~l.hourly}]
  <2>1. other.leaves = {l \in who.leaves : ~l.hourly}
    BY DEF WorkerRows
  <2> HIDE DEF other
  <2>2. {l \in LeavesIn(other, from, to) : l.type \in {"SICK"}} = S
    BY <2>1 DEF LeavesIn
  <2>3. DaysOn(other, {"SICK"}, from, to) = SumFunctionOnSet(fS, S)
    BY <2>2 DEF DaysOn
  <2> QED
    BY <2>3 DEF SickDays, other
<1> HIDE DEF L, D, H, S, P, O, fH, fS, fP, fO, h
<1>8. /\ IsPart(fH, H, 1, gH, L) /\ IsPart(fS, S, DayMinutes, gS, L)
      /\ IsPart(fP, P, 2 * DayMinutes, gP, L) /\ IsPart(fO, O, 2, gO, L)
  <2>1. IsPart(fH, H, 1, gH, L)
    BY <1>1, <1>3, <1>4 DEF IsPart
  <2>2. IsPart(fS, S, DayMinutes, gS, L)
    BY <1>1, <1>3, <1>4, <1>5 DEF IsPart
  <2>3. IsPart(fP, P, 2 * DayMinutes, gP, L)
    BY <1>1, <1>3, <1>4, <1>5 DEF IsPart
  <2>4. IsPart(fO, O, 2, gO, L)
    BY <1>1, <1>3, <1>4 DEF IsPart
  <2> QED
    BY <2>1, <2>2, <2>3, <2>4
<1>9. \A l \in L : /\ gH[l] \in Int /\ gS[l] \in Int /\ gP[l] \in Int /\ gO[l] \in Int
                   /\ h[l] = gH[l] + gS[l] + gP[l] + gO[l]
  <2> SUFFICES ASSUME NEW l \in L
               PROVE  /\ gH[l] \in Int /\ gS[l] \in Int /\ gP[l] \in Int /\ gO[l] \in Int
                      /\ h[l] = gH[l] + gS[l] + gP[l] + gO[l]
    OBVIOUS
  <2>1. h[l] \in Int
    <3>1. \A m, n \in Int : m * n \in Int
      OBVIOUS
    <3> QED
      BY <1>3, <1>5, <3>1
  <2> QED
    BY <1>3, <1>4, <2>1
<1> HIDE DEF gH, gS, gP, gO
<1>10. SumFunctionOnSet(h, L) = SumFunctionOnSet(gH, L) + SumFunctionOnSet(gS, L)
                                + SumFunctionOnSet(gP, L) + SumFunctionOnSet(gO, L)
  BY ONLY <1>1, <1>9, SumOfFour
<1>11. /\ 1 * SumFunctionOnSet(fH, H) = SumFunctionOnSet(gH, L)
       /\ SumFunctionOnSet(fH, H) \in Int
  BY ONLY <1>8, PartIsSum
<1>12. /\ DayMinutes * SumFunctionOnSet(fS, S) = SumFunctionOnSet(gS, L)
       /\ SumFunctionOnSet(fS, S) \in Int
  BY ONLY <1>8, PartIsSum
<1>13. /\ (2 * DayMinutes) * SumFunctionOnSet(fP, P) = SumFunctionOnSet(gP, L)
       /\ SumFunctionOnSet(fP, P) \in Int
  BY ONLY <1>8, PartIsSum
<1>14. /\ 2 * SumFunctionOnSet(fO, O) = SumFunctionOnSet(gO, L)
       /\ SumFunctionOnSet(fO, O) \in Int
  BY ONLY <1>8, PartIsSum
<1>15. SumFunctionOnSet(h, L)
         = SickRemainder(who, from, to) + DayMinutes * SickDays(who, from, to)
           + (2 * DayMinutes) * PaidDays(who, from, to)
           + 2 * HolidayMinutes(who, from, to, D)
  BY <1>6, <1>7, <1>10, <1>11, <1>12, <1>13, <1>14
<1> QED
  BY <1>6, <1>7, <1>11, <1>12, <1>13, <1>14, <1>15 DEF h, L, D

-----------------------------------------------------------------------------
(* The pay of a month is the sum of its days *)

\* What days are worth together is what the parts of a calculation are.
LEMMA DaysAddUp ==
  ASSUME NEW who \in WorkerRows, LeavesAreClear(who), NEW from \in Nat, NEW to \in Nat,
         from .. to \subseteq AllDays
  PROVE  LET D == from .. to
             P == PresentDays(who, from, to, D)
         IN  /\ SumFunctionOnSet([d \in D |-> DayHalves(who, d)], D)
                  = (2 * DayMinutes) * Cardinality(P)
                    + SickRemainder(who, from, to) + DayMinutes * SickDays(who, from, to)
                    + (2 * DayMinutes) * PaidDays(who, from, to)
                    + 2 * HolidayMinutes(who, from, to, D)
                    + 4 * WeekendMinutes(who, D) + 3 * OvertimeMinutes(who, D)
                    - 3 * Charged(who, "delay", D \ Fridays)
                    - 2 * Charged(who, "early", D \ Fridays)
             /\ SumFunctionOnSet([d \in D |-> DayHalves(who, d)], D) \in Int
<1> DEFINE D == from .. to
           P == PresentDays(who, from, to, D)
           halves == [d \in D |-> DayHalves(who, d)]
           presence == [d \in D |-> PresencePay(who, d)]
           leave == [d \in D |-> LeavePay(who, d)]
           rest == [d \in D |-> RestPay(who, d)]
           overtime == [d \in D |-> OvertimePay(who, d)]
           delay == [d \in D |-> DelayCharge(who, d)]
           early == [d \in D |-> EarlyCharge(who, d)]
           paid == [d \in D |-> presence[d] + leave[d] + rest[d] + overtime[d]]
           charged == [d \in D |-> delay[d] + early[d]]
<1>1. IsFiniteSet(D)
  BY FS_Interval
<1>2. DayMinutes \in Nat
  BY DaysAssumption
<1>3. \A d \in D : /\ presence[d] \in Int /\ leave[d] \in Int /\ rest[d] \in Int
                   /\ overtime[d] \in Int /\ delay[d] \in Int /\ early[d] \in Int
  <2>1. \A d \in D : leave[d] \in Int
    BY LeavesAddUp
  <2>2. \A d \in D : d \in AllDays
    OBVIOUS
  <2> QED
    BY <1>2, <2>1, <2>2, DaysAreRows
       DEF PresencePay, RestPay, OvertimePay, DelayCharge, EarlyCharge
<1>4. \A d \in D : DayHalves(who, d) = presence[d] + leave[d] + rest[d] + overtime[d]
                                       - (delay[d] + early[d])
  <2> SUFFICES ASSUME NEW d \in D
               PROVE  DayHalves(who, d) = presence[d] + leave[d] + rest[d] + overtime[d]
                                          - (delay[d] + early[d])
    OBVIOUS
  <2>1. /\ presence[d] = PresencePay(who, d) /\ leave[d] = LeavePay(who, d)
        /\ rest[d] = RestPay(who, d) /\ overtime[d] = OvertimePay(who, d)
        /\ delay[d] = DelayCharge(who, d) /\ early[d] = EarlyCharge(who, d)
    OBVIOUS
  <2>2. DayHalves(who, d)
          = (IF LeavesOf(who, d) = {}
             THEN IF Attends(who.days[d]) /\ d \notin RestDays THEN 2 * DayMinutes ELSE 0
             ELSE LeaveHalves(CHOOSE l \in LeavesOf(who, d) : TRUE, who.days[d]))
            + (IF d \in RestDays THEN 4 * Minutes(who.days[d])
               ELSE 3 * Positive(who.days[d].out - Closes))
            - (IF d \in Fridays THEN 0
               ELSE 3 * who.days[d].delay + 2 * who.days[d].early)
    BY DEF DayHalves, LeavesOf
  <2>3. (IF LeavesOf(who, d) = {}
         THEN IF Attends(who.days[d]) /\ d \notin RestDays THEN 2 * DayMinutes ELSE 0
         ELSE LeaveHalves(CHOOSE l \in LeavesOf(who, d) : TRUE, who.days[d]))
          = presence[d] + leave[d]
    <3>1. CASE LeavesOf(who, d) = {}
      <4>1. leave[d] = 0
        BY <2>1, <3>1 DEF LeavePay
      <4>2. presence[d] = IF Attends(who.days[d]) /\ d \notin RestDays
                          THEN 2 * DayMinutes ELSE 0
        BY <2>1, <3>1 DEF PresencePay
      <4> QED
        BY <1>2, <3>1, <4>1, <4>2
    <3>2. CASE LeavesOf(who, d) # {}
      <4>1. presence[d] = 0
        BY <2>1, <3>2 DEF PresencePay
      <4>2. leave[d] = LeaveHalves(CHOOSE l \in LeavesOf(who, d) : TRUE, who.days[d])
        BY <2>1, <3>2 DEF LeavePay
      <4>3. leave[d] \in Int
        BY <1>3
      <4> QED
        BY <3>2, <4>1, <4>2, <4>3
    <3> QED
      BY <3>1, <3>2
  <2>4. (IF d \in RestDays THEN 4 * Minutes(who.days[d])
         ELSE 3 * Positive(who.days[d].out - Closes)) = rest[d] + overtime[d]
    <3>1. Minutes(who.days[d]) \in Nat /\ Positive(who.days[d].out - Closes) \in Nat
      BY DaysAreRows
    <3> QED
      BY <2>1, <3>1 DEF RestPay, OvertimePay
  <2>5. (IF d \in Fridays THEN 0 ELSE 3 * who.days[d].delay + 2 * who.days[d].early)
          = delay[d] + early[d]
    <3>1. who.days[d].delay \in Nat /\ who.days[d].early \in Nat
      BY DaysAreRows
    <3> QED
      BY <2>1, <3>1 DEF DelayCharge, EarlyCharge
  <2>6. /\ presence[d] \in Int /\ leave[d] \in Int /\ rest[d] \in Int
        /\ overtime[d] \in Int /\ delay[d] \in Int /\ early[d] \in Int
    BY <1>3
  <2> HIDE DEF presence, leave, rest, overtime, delay, early
  <2> QED
    BY <2>2, <2>3, <2>4, <2>5, <2>6
<1>5. /\ (2 * DayMinutes) * Cardinality(P) = SumFunctionOnSet(presence, D)
      /\ Cardinality(P) \in Nat
  BY PresenceIsSum
<1>6. SumFunctionOnSet(leave, D)
        = SickRemainder(who, from, to) + DayMinutes * SickDays(who, from, to)
          + (2 * DayMinutes) * PaidDays(who, from, to)
          + 2 * HolidayMinutes(who, from, to, D)
  BY LeavesAddUp, LeavesAreParts
<1>7. 4 * WeekendMinutes(who, D) = SumFunctionOnSet(rest, D)
  BY <1>1, RestIsSum
<1>8. 3 * OvertimeMinutes(who, D) = SumFunctionOnSet(overtime, D)
  BY <1>1, OvertimeIsSum
<1>9. 3 * Charged(who, "delay", D \ Fridays) = SumFunctionOnSet(delay, D)
  BY <1>1, DelayIsSum
<1>10. 2 * Charged(who, "early", D \ Fridays) = SumFunctionOnSet(early, D)
  BY <1>1, EarlyIsSum
<1>11. \A d \in D : halves[d] \in Int /\ charged[d] \in Int /\ paid[d] = halves[d] + charged[d]
  BY <1>3, <1>4
<1>12. \A d \in D : delay[d] \in Int /\ early[d] \in Int /\ charged[d] = delay[d] + early[d]
  BY <1>3
<1>13. \A d \in D : /\ presence[d] \in Int /\ leave[d] \in Int
                    /\ rest[d] \in Int /\ overtime[d] \in Int
                    /\ paid[d] = presence[d] + leave[d] + rest[d] + overtime[d]
  BY <1>3
<1> HIDE DEF D, P, halves, presence, leave, rest, overtime, delay, early, paid, charged
<1>14. SumFunctionOnSet(paid, D) = SumFunctionOnSet(halves, D) + SumFunctionOnSet(charged, D)
  BY ONLY <1>1, <1>11, SumOfBoth
<1>15. SumFunctionOnSet(charged, D) = SumFunctionOnSet(delay, D) + SumFunctionOnSet(early, D)
  BY ONLY <1>1, <1>12, SumOfBoth
<1>16. SumFunctionOnSet(paid, D) = SumFunctionOnSet(presence, D) + SumFunctionOnSet(leave, D)
                                   + SumFunctionOnSet(rest, D) + SumFunctionOnSet(overtime, D)
  BY ONLY <1>1, <1>13, SumOfFour
<1>17. /\ SumFunctionOnSet(presence, D) \in Int /\ SumFunctionOnSet(leave, D) \in Int
       /\ SumFunctionOnSet(rest, D) \in Int /\ SumFunctionOnSet(overtime, D) \in Int
       /\ SumFunctionOnSet(delay, D) \in Int /\ SumFunctionOnSet(early, D) \in Int
       /\ SumFunctionOnSet(halves, D) \in Int
  BY <1>1, <1>3, <1>11, SumIsInt
<1>18. SumFunctionOnSet(halves, D)
         = SumFunctionOnSet(presence, D) + SumFunctionOnSet(leave, D)
           + SumFunctionOnSet(rest, D) + SumFunctionOnSet(overtime, D)
           - SumFunctionOnSet(delay, D) - SumFunctionOnSet(early, D)
  BY ONLY <1>14, <1>15, <1>16, <1>17
<1>19. /\ SickRemainder(who, from, to) \in Int /\ SickDays(who, from, to) \in Int
       /\ PaidDays(who, from, to) \in Int /\ HolidayMinutes(who, from, to, D) \in Int
  BY LeavesAreParts DEF D
<1>20. SumFunctionOnSet(halves, D)
         = (2 * DayMinutes) * Cardinality(P)
           + (SickRemainder(who, from, to) + DayMinutes * SickDays(who, from, to)
              + (2 * DayMinutes) * PaidDays(who, from, to)
              + 2 * HolidayMinutes(who, from, to, D))
           + 4 * WeekendMinutes(who, D) + 3 * OvertimeMinutes(who, D)
           - 3 * Charged(who, "delay", D \ Fridays)
           - 2 * Charged(who, "early", D \ Fridays)
  BY <1>5, <1>6, <1>7, <1>8, <1>9, <1>10, <1>18
<1>21. \A a, b, c, d, e, f, g, i, j \in Int :
         a + (b + c + d + e) + f + g - i - j = a + b + c + d + e + f + g - i - j
  OBVIOUS
<1>22. /\ (2 * DayMinutes) * Cardinality(P) \in Int
       /\ DayMinutes * SickDays(who, from, to) \in Int
       /\ (2 * DayMinutes) * PaidDays(who, from, to) \in Int
       /\ 2 * HolidayMinutes(who, from, to, D) \in Int
       /\ 4 * WeekendMinutes(who, D) \in Int /\ 3 * OvertimeMinutes(who, D) \in Int
       /\ 3 * Charged(who, "delay", D \ Fridays) \in Int
       /\ 2 * Charged(who, "early", D \ Fridays) \in Int
  <2>1. \A m, n \in Int : m * n \in Int
    OBVIOUS
  <2> QED
    BY <1>2, <1>5, <1>7, <1>8, <1>9, <1>10, <1>17, <1>19, <2>1
<1>23. SumFunctionOnSet(halves, D)
         = (2 * DayMinutes) * Cardinality(P)
           + SickRemainder(who, from, to) + DayMinutes * SickDays(who, from, to)
           + (2 * DayMinutes) * PaidDays(who, from, to)
           + 2 * HolidayMinutes(who, from, to, D)
           + 4 * WeekendMinutes(who, D) + 3 * OvertimeMinutes(who, D)
           - 3 * Charged(who, "delay", D \ Fridays)
           - 2 * Charged(who, "early", D \ Fridays)
  BY ONLY <1>19, <1>20, <1>21, <1>22
<1> QED
  BY <1>17, <1>23 DEF halves, D, P

\* The working days of a month are counted.
LEMMA WorkDaysAreCounted ==
  ASSUME NEW who \in WorkerRows, NEW m \in Months
  PROVE  PaidWorkDays(who, m) \in Nat \ {0}
<1> DEFINE days == Least(who.until, FinalDay(m)) - Greatest(who.joined, FirstDay(m)) + 1
<1>1. days \in Int
  BY MonthsHaveDays DEF WorkerRows, Least, Greatest
<1>2. LastDay \in Nat \ {0} /\ WorkDays \in Nat \ {0}
  BY DaysAssumption, PayslipsAssumption
<1> HIDE DEF days
<1>3. PICK n \in Int : n = 2 * WorkDays * days + LastDay
  <2>1. \A a, b \in Int : 2 * a * b + LastDay \in Int
    BY <1>2
  <2> QED
    BY <1>1, <1>2, <2>1
<1>4. PICK q \in Int : q = n \div (2 * LastDay)
  <2> PICK k : k = 2 * LastDay
    OBVIOUS
  <2>1. k \in Nat \ {0}
    BY <1>2
  <2>2. n \div k \in Int
    BY <2>1
  <2> QED
    BY <2>2
<1>5. PaidWorkDays(who, m) = IF days >= LastDay THEN WorkDays ELSE Greatest(1, q)
  BY <1>3, <1>4 DEF PaidWorkDays, days
<1> QED
  BY <1>2, <1>5 DEF Greatest

\* Nothing is entered in an input with nothing entered.
LEMMA NothingIsEntered ==
  /\ ~EntersDays(NoInput) /\ ~EntersAttendance(NoInput)
  /\ NoInput.transport = Unset
<1>1. \A f \in {"unpaid", "sick", "paid", "unpaidMinutes"} : NoInput[f] = 0
  BY DEF NoInput
<1>2. \A f \in {"late", "early", "overtime", "weekend"} : NoInput[f] = 0
  BY DEF NoInput
<1>3. NoInput.absence = Unset /\ NoInput.transport = Unset
  BY DEF NoInput
<1> QED
  BY <1>1, <1>2, <1>3 DEF EntersDays, EntersAttendance

\* A month's pay is that of its days, up to the days that are worked in it.
LEMMA SlipIsOfTheDays ==
  ASSUME NEW who \in WorkerRows, NEW m \in Months, LeavesAreClear(who), NEW e, NEW claims
  PROVE  LET days == FirstDay(m) .. FinalDay(m)
             halves == SumFunctionOnSet([d \in days |-> DayHalves(who, d)], days)
                       - 2 * DayMinutes * Surplus(who, m)
         IN  Slip(who, e, m, claims, NoInput).earned
               = (who.base + who.transport) * Positive(halves)
<1> DEFINE from == FirstDay(m)
           to == FinalDay(m)
           D == from .. to
           P == PresentDays(who, from, to, D)
           W == PaidWorkDays(who, m)
           sum == SumFunctionOnSet([d \in D |-> DayHalves(who, d)], D)
           late == Charged(who, "delay", D \ Fridays)
           early == Charged(who, "early", D \ Fridays)
<1>1. from \in Nat /\ to \in Nat /\ D \subseteq AllDays
  BY MonthsHaveDays
<1>2. W \in Nat /\ DayMinutes \in Nat
  BY WorkDaysAreCounted, DaysAssumption
<1>3. Cardinality(P) \in Nat
      /\ P = {d \in D : /\ Attends(who.days[d]) /\ d \notin RestDays
                        /\ \A l \in who.leaves : d \notin l.from .. l.to}
  BY <1>1, PresenceIsSum
<1>4. Surplus(who, m) = Positive(Cardinality(P) - W)
  BY <1>3 DEF Surplus
<1>5. /\ sum = (2 * DayMinutes) * Cardinality(P)
               + SickRemainder(who, from, to) + DayMinutes * SickDays(who, from, to)
               + (2 * DayMinutes) * PaidDays(who, from, to)
               + 2 * HolidayMinutes(who, from, to, D)
               + 4 * WeekendMinutes(who, D) + 3 * OvertimeMinutes(who, D)
               - 3 * late - 2 * early
      /\ sum \in Int
  BY <1>1, DaysAddUp
<1>6. /\ SickRemainder(who, from, to) \in Int /\ SickDays(who, from, to) \in Int
      /\ PaidDays(who, from, to) \in Int /\ HolidayMinutes(who, from, to, D) \in Int
      /\ WeekendMinutes(who, D) \in Int /\ OvertimeMinutes(who, D) \in Int
      /\ late \in Int /\ early \in Int
  <2>1. IsFiniteSet(D)
    BY MonthsHaveDays
  <2> QED
    BY <1>1, <2>1, LeavesAreParts, RestIsSum, OvertimeIsSum, DelayIsSum, EarlyIsSum
<1>7. Halves(W, who, from, to, D, late, early, NoInput)
        = 2 * (Least(Cardinality(P), W) * DayMinutes)
          + SickRemainder(who, from, to) + DayMinutes * SickDays(who, from, to)
          + 2 * DayMinutes * PaidDays(who, from, to)
          + 3 * OvertimeMinutes(who, D) + 4 * WeekendMinutes(who, D)
          + 2 * HolidayMinutes(who, from, to, D)
          - 3 * late - 2 * early
  BY NothingIsEntered DEF Halves, ContractualMinutes
<1> HIDE DEF D, P, W, from, to, sum, late, early
<1>8. 2 * (Least(Cardinality(P), W) * DayMinutes)
        = (2 * DayMinutes) * Cardinality(P) - 2 * DayMinutes * Surplus(who, m)
  <2> PICK c \in Nat, w \in Nat, n \in Nat :
             c = Cardinality(P) /\ w = W /\ n = DayMinutes
    BY <1>2, <1>3
  <2>1. CASE c <= w
    <3>1. Least(c, w) = c /\ Positive(c - w) = 0
      BY <2>1 DEF Least, Positive
    <3>2. 2 * (c * n) = (2 * n) * c - 2 * n * 0
      OBVIOUS
    <3> QED
      BY <1>4, <3>1, <3>2
  <2>2. CASE c > w
    <3>1. Least(c, w) = w /\ Positive(c - w) = c - w
      BY <2>2 DEF Least, Positive
    <3>2. 2 * (w * n) = (2 * n) * c - 2 * n * (c - w)
      OBVIOUS
    <3> QED
      BY <1>4, <3>1, <3>2
  <2> QED
    BY <2>1, <2>2
<1>9. Halves(W, who, from, to, D, late, early, NoInput)
        = sum - 2 * DayMinutes * Surplus(who, m)
  <2>1. \A k, l \in Int : k * l \in Int
    OBVIOUS
  <2>2. Surplus(who, m) \in Int
    BY <1>2, <1>3, <1>4 DEF Positive
  <2>3. /\ (2 * DayMinutes) * Cardinality(P) \in Int
        /\ 2 * DayMinutes * Surplus(who, m) \in Int
        /\ DayMinutes * SickDays(who, from, to) \in Int
        /\ (2 * DayMinutes) * PaidDays(who, from, to) \in Int
        /\ 2 * HolidayMinutes(who, from, to, D) \in Int
        /\ 4 * WeekendMinutes(who, D) \in Int /\ 3 * OvertimeMinutes(who, D) \in Int
        /\ 3 * late \in Int /\ 2 * early \in Int
    BY <1>2, <1>3, <1>6, <2>1, <2>2
  <2>4. \A a, b, c, d, f, g, i, j, k, x \in Int :
          (a - x) + b + c + d + g + f + i - j - k = (a + b + c + d + i + f + g - j - k) - x
    OBVIOUS
  <2>5. Halves(W, who, from, to, D, late, early, NoInput)
          = ((2 * DayMinutes) * Cardinality(P) - 2 * DayMinutes * Surplus(who, m))
            + SickRemainder(who, from, to) + DayMinutes * SickDays(who, from, to)
            + (2 * DayMinutes) * PaidDays(who, from, to)
            + 3 * OvertimeMinutes(who, D) + 4 * WeekendMinutes(who, D)
            + 2 * HolidayMinutes(who, from, to, D)
            - 3 * late - 2 * early
    BY <1>7, <1>8
  <2> QED
    BY ONLY <1>5, <1>6, <2>3, <2>4, <2>5
<1>10. Slip(who, e, m, claims, NoInput).earned
         = (who.base + who.transport)
             * Positive(Halves(W, who, from, to, D, late, early, NoInput))
  BY NothingIsEntered DEF Slip, Earned, Or, W, from, to, D, late, early
<1> QED
  BY <1>9, <1>10 DEF sum, D, from, to

\* An input of money only, and one with its transport only, leave the attendance alone.
LEMMA MoneyIsNoAttendance ==
  ASSUME NEW i \in InputRows,
         i = [f \in DOMAIN i |-> IF f \in AttendanceFields THEN NoInput[f] ELSE i[f]],
         NEW who, NEW e, NEW m, NEW claims
  PROVE  Slip(who, e, m, claims, i).earned
           = Slip(who, e, m, claims, [NoInput EXCEPT !.transport = i.transport]).earned
<1> DEFINE j == [NoInput EXCEPT !.transport = i.transport]
<1>1. \A f \in AttendanceFields : f \in DOMAIN i /\ i[f] = NoInput[f]
  BY DEF InputRows, AttendanceFields
<1>2. i.absence = Unset /\ \A f \in {"unpaid", "sick", "paid", "unpaidMinutes"} : i[f] = 0
  BY <1>1 DEF NoInput, AttendanceFields
<1>3. \A f \in {"late", "early", "overtime", "weekend"} : i[f] = 0
  BY <1>1 DEF NoInput, AttendanceFields
<1>4. j.absence = Unset /\ j.transport = i.transport
      /\ (\A f \in {"unpaid", "sick", "paid", "unpaidMinutes"} : j[f] = 0)
      /\ (\A f \in {"late", "early", "overtime", "weekend"} : j[f] = 0)
  BY DEF NoInput
<1> HIDE DEF j
<1>5. ~EntersDays(i) /\ ~EntersAttendance(i) /\ ~EntersDays(j) /\ ~EntersAttendance(j)
  BY <1>2, <1>3, <1>4 DEF EntersDays, EntersAttendance
<1>6. \A W, from, to, D, late, early :
        Halves(W, who, from, to, D, late, early, i) = Halves(W, who, from, to, D, late, early, j)
  BY <1>5 DEF Halves, ContractualMinutes
<1>7. Slip(who, e, m, claims, i).earned = Slip(who, e, m, claims, j).earned
  BY <1>4, <1>6 DEF Slip, Earned
<1> QED
  BY <1>7 DEF j

\* These hold of all books.
LEMMA BooksPayDays ==
  ASSUME PayslipsTypeOK
  PROVE  PayIsOfTheDays /\ MoneyLeavesAttendance
<1>1. PayIsOfTheDays
  BY SlipIsOfTheDays DEF PayIsOfTheDays, PayslipsTypeOK
<1>2. MoneyLeavesAttendance
  <2> SUFFICES ASSUME NEW e \in DOMAIN worker, NEW m \in Months,
                      input[e][m] = [f \in DOMAIN input[e][m] |->
                                      IF f \in AttendanceFields THEN NoInput[f]
                                      ELSE input[e][m][f]],
                      input[e][m] # NoInput
               PROVE  Slip(worker[e], e, m, claim, input[e][m]).earned
                        = Slip(worker[e], e, m, claim,
                               [NoInput EXCEPT !.transport = input[e][m].transport]).earned
    BY DEF MoneyLeavesAttendance
  <2>1. input[e][m] \in InputRows
    BY DEF PayslipsTypeOK
  <2> QED
    BY <2>1, MoneyIsNoAttendance
<1> QED
  BY <1>1, <1>2

-----------------------------------------------------------------------------
(* A settlement on the last day of a month *)

\* What claims that are due come to is a number.
LEMMA TotalsAreNumbers ==
  ASSUME NEW claims \in [Claims -> ClaimRows \cup {NoClaim}], NEW e, NEW m, NEW kind
  PROVE  Total(claims, DueClaims(claims, e, m, kind)) \in Nat
<1> DEFINE due == DueClaims(claims, e, m, kind)
           f == [c \in due |-> Deductible(claims[c])]
<1>1. IsFiniteSet(due)
  BY PayslipsAssumption, FS_Subset DEF DueClaims
<1>2. \A c \in due : f[c] \in Nat
  <2> SUFFICES ASSUME NEW c \in due PROVE Deductible(claims[c]) \in Nat
    OBVIOUS
  <2>1. claims[c] \in ClaimRows
    BY DEF DueClaims, DueIn
  <2> QED
    BY <2>1 DEF Deductible, Least, ClaimRows
<1> HIDE DEF f, due
<1>3. SumFunctionOnSet(f, due) \in Nat
  BY ONLY <1>1, <1>2, SumIsNat
<1> QED
  BY <1>3 DEF Total, f, due

\* Days without punches around a period add nothing to it.
LEMMA QuietDaysAddNothing ==
  ASSUME NEW who \in WorkerRows, NEW from \in Nat, NEW to \in Nat, from .. to \subseteq AllDays,
         NEW window, window \subseteq AllDays, IsFiniteSet(window), from .. to \subseteq window,
         \A d \in window \ (from .. to) : who.days[d] = NoPunches
  PROVE  LET D == from .. to
         IN  /\ PresentDays(who, from, to, window) = PresentDays(who, from, to, D)
             /\ WeekendMinutes(who, window) = WeekendMinutes(who, D)
             /\ OvertimeMinutes(who, window) = OvertimeMinutes(who, D)
             /\ HolidayMinutes(who, from, to, window) = HolidayMinutes(who, from, to, D)
<1> DEFINE D == from .. to
<1>1. \A d \in window \ D : ~Attends(who.days[d]) /\ who.days[d].out = 0
  BY DEF NoPunches, Attends
<1>2. PresentDays(who, from, to, window) = PresentDays(who, from, to, D)
  BY <1>1 DEF PresentDays
<1>3. WeekendMinutes(who, window) = WeekendMinutes(who, D)
  <2>1. {d \in window \cap RestDays : Attends(who.days[d]) /\ who.days[d].out > 0}
          = {d \in D \cap RestDays : Attends(who.days[d]) /\ who.days[d].out > 0}
    BY <1>1
  <2> QED
    BY <2>1 DEF WeekendMinutes, WorkedMinutes
<1>4. OvertimeMinutes(who, window) = OvertimeMinutes(who, D)
  <2> DEFINE E == D \ RestDays
             X == window \ RestDays
             f == [d \in E |-> Positive(who.days[d].out - Closes)]
             g == [d \in X |-> Positive(who.days[d].out - Closes)]
  <2>1. E \subseteq X /\ IsFiniteSet(X)
    BY FS_Subset
  <2>2. \A d \in E : f[d] \in Int /\ g[d] = f[d]
    <3>1. \A d \in E : Positive(who.days[d].out - Closes) \in Nat
      BY DaysAreRows
    <3> QED
      BY <2>1, <3>1
  <2>3. \A d \in X \ E : g[d] = 0
    BY <1>1, DaysAssumption DEF Positive
  <2>4. /\ OvertimeMinutes(who, window) = SumFunctionOnSet(g, X)
        /\ OvertimeMinutes(who, D) = SumFunctionOnSet(f, E)
    BY DEF OvertimeMinutes
  <2> HIDE DEF E, X, f, g
  <2>5. SumFunctionOnSet(f, E) = SumFunctionOnSet(g, X)
    BY ONLY <2>1, <2>2, <2>3, SumOfChosen
  <2> QED
    BY <2>4, <2>5
<1>5. HolidayMinutes(who, from, to, window) = HolidayMinutes(who, from, to, D)
  <2> DEFINE L == {l \in LeavesIn(who, from, to) : l.type = "OTHER"}
             f(X) == [l \in L |-> l.rate * WorkedMinutes(who, Within(l, from, to) \cap X)]
  <2>1. \A l \in L : l.from \in Nat /\ l.to \in Nat
    BY LeavesAreRows DEF LeavesIn, LeaveRows
  <2>2. \A l \in L : Within(l, from, to) \subseteq D
    BY <2>1 DEF Within, Greatest, Least
  <2>3. \A l \in L : Within(l, from, to) \cap window = Within(l, from, to) \cap D
    BY <2>2
  <2>4. f(window) = f(D)
    BY <2>3
  <2> QED
    BY <2>4 DEF HolidayMinutes
<1> QED
  BY <1>2, <1>3, <1>4, <1>5

\* Days without lateness are charged nothing.
LEMMA PunctualDaysChargeNothing ==
  ASSUME NEW who \in WorkerRows, NEW D, D \subseteq AllDays, IsFiniteSet(D),
         \A d \in D \cap Fridays : who.days[d].delay = 0 /\ who.days[d].early = 0
  PROVE  /\ Charged(who, "delay", D) = Charged(who, "delay", D \ Fridays)
         /\ Charged(who, "early", D) = Charged(who, "early", D \ Fridays)
<1> DEFINE C == D \ Fridays
<1>1. \A d \in D : who.days[d].delay \in Int /\ who.days[d].early \in Int
  BY DaysAreRows
<1>2. C \subseteq D
  OBVIOUS
<1>3. Charged(who, "delay", D) = Charged(who, "delay", C)
  <2> DEFINE f == [d \in C |-> who.days[d].delay]
             g == [d \in D |-> who.days[d].delay]
  <2>1. /\ \A d \in C : f[d] \in Int /\ g[d] = f[d]
        /\ \A d \in D \ C : g[d] = 0
    BY <1>1
  <2>2. Charged(who, "delay", D) = SumFunctionOnSet(g, D)
        /\ Charged(who, "delay", C) = SumFunctionOnSet(f, C)
    BY DEF Charged
  <2> HIDE DEF f, g, C
  <2>3. SumFunctionOnSet(f, C) = SumFunctionOnSet(g, D)
    BY ONLY <1>2, <2>1, IsFiniteSet(D), SumOfChosen
  <2> QED
    BY <2>2, <2>3
<1>4. Charged(who, "early", D) = Charged(who, "early", C)
  <2> DEFINE f == [d \in C |-> who.days[d].early]
             g == [d \in D |-> who.days[d].early]
  <2>1. /\ \A d \in C : f[d] \in Int /\ g[d] = f[d]
        /\ \A d \in D \ C : g[d] = 0
    BY <1>1
  <2>2. Charged(who, "early", D) = SumFunctionOnSet(g, D)
        /\ Charged(who, "early", C) = SumFunctionOnSet(f, C)
    BY DEF Charged
  <2> HIDE DEF f, g, C
  <2>3. SumFunctionOnSet(f, C) = SumFunctionOnSet(g, D)
    BY ONLY <1>2, <2>1, IsFiniteSet(D), SumOfChosen
  <2> QED
    BY <2>2, <2>3
<1> QED
  BY <1>3, <1>4

\* What is due of all months up to one is that of this month, if nothing of earlier ones is.
LEMMA NothingOlderIsDue ==
  ASSUME NEW claims, NEW e, NEW m \in Months, NEW kind,
         \A n \in 1 .. m - 1 : DueClaims(claims, e, n, kind) = {}
  PROVE  UNION {DueClaims(claims, e, n, kind) : n \in 1 .. m} = DueClaims(claims, e, m, kind)
<1>1. m \in Nat /\ m >= 1
  BY PayslipsAssumption DEF Months
<1>2. \A n \in 1 .. m : n # m => DueClaims(claims, e, n, kind) = {}
  BY <1>1
<1>3. m \in 1 .. m
  BY <1>1
<1> QED
  BY <1>2, <1>3

\* If the books hold nothing that only one of them reads, both pay the same.
LEMMA SettlementPaysTheSlip ==
  ASSUME NEW who \in WorkerRows, NEW m \in Months, NEW e,
         NEW claims \in [Claims -> ClaimRows \cup {NoClaim}],
         \A d \in {FirstDay(m) - 1, FinalDay(m) + 1} \cap DOMAIN who.days :
           who.days[d] = NoPunches,
         \A d \in Fridays \cap (FirstDay(m) .. FinalDay(m)) :
           who.days[d].delay = 0 /\ who.days[d].early = 0,
         \A n \in 1 .. m - 1, kind \in {"advance", "penalty"} :
           DueClaims(claims, e, n, kind) = {},
         who.joined <= FirstDay(m), who.until >= FinalDay(m)
  PROVE  Settlement(who, e, FinalDay(m), claims) = Slip(who, e, m, claims, NoInput).net
<1> DEFINE from == FirstDay(m)
           to == FinalDay(m)
           D == from .. to
           window == (from - 1 .. to + 1) \cap DOMAIN who.days
           late == Charged(who, "delay", D)
           early == Charged(who, "early", D)
           advance == Total(claims, DueClaims(claims, e, m, "advance"))
           penalty == Total(claims, DueClaims(claims, e, m, "penalty"))
           bonus == Total(claims, DueClaims(claims, e, m, "bonus"))
<1>1. /\ from \in Nat /\ to \in Nat /\ D \subseteq AllDays /\ IsFiniteSet(D)
      /\ MonthOfDay(to) = m /\ to - from + 1 = LastDay
  BY MonthsHaveDays
<1>2. PaidWorkDays(who, m) = WorkDays
  <2>1. Least(who.until, to) = to /\ Greatest(who.joined, from) = from
    BY <1>1 DEF Least, Greatest, WorkerRows
  <2>2. LastDay \in Nat
    BY DaysAssumption
  <2> QED
    BY <1>1, <2>1, <2>2 DEF PaidWorkDays
<1>3. /\ window \subseteq AllDays /\ IsFiniteSet(window) /\ D \subseteq window
      /\ \A d \in window \ D : who.days[d] = NoPunches
  <2>1. DOMAIN who.days = AllDays
    BY DEF WorkerRows
  <2>2. IsFiniteSet(from - 1 .. to + 1)
    BY <1>1, FS_Interval
  <2>3. window \subseteq AllDays /\ IsFiniteSet(window)
    BY <2>1, <2>2, FS_Subset
  <2>4. D \subseteq window
    BY <1>1, <2>1
  <2>5. \A d \in window \ D : d \in {from - 1, to + 1} \cap DOMAIN who.days
    BY <1>1
  <2> QED
    BY <2>3, <2>4, <2>5
<1>4. late = Charged(who, "delay", D \ Fridays) /\ early = Charged(who, "early", D \ Fridays)
  BY <1>1, PunctualDaysChargeNothing
<1>5. /\ PresentDays(who, from, to, window) = PresentDays(who, from, to, D)
      /\ WeekendMinutes(who, window) = WeekendMinutes(who, D)
      /\ OvertimeMinutes(who, window) = OvertimeMinutes(who, D)
      /\ HolidayMinutes(who, from, to, window) = HolidayMinutes(who, from, to, D)
  <2> HIDE DEF window, from, to
  <2> QED
    BY <1>1, <1>3, QuietDaysAddNothing DEF D
<1> HIDE DEF window, late, early
<1>6. Halves(WorkDays, who, from, to, window, late, early, NoInput)
        = Halves(WorkDays, who, from, to, D, late, early, NoInput)
  BY <1>5, NothingIsEntered DEF Halves, ContractualMinutes
<1>7. EarnedUntil(who, to) = Slip(who, e, m, claims, NoInput).earned
  <2>1. EarnedUntil(who, to)
          = Earned(WorkDays, who.base + who.transport, who, from, to, window, late, early, NoInput)
    BY <1>1 DEF EarnedUntil, window, late, early
  <2>2. Slip(who, e, m, claims, NoInput).earned
          = Earned(WorkDays, who.base + who.transport, who, from, to, D, late, early, NoInput)
    BY <1>2, <1>4, NothingIsEntered DEF Slip, Or
  <2> QED
    BY <1>6, <2>1, <2>2 DEF Earned
<1>8. /\ Total(claims, UNION {DueClaims(claims, e, n, "advance") : n \in 1 .. m}) = advance
      /\ Total(claims, UNION {DueClaims(claims, e, n, "penalty") : n \in 1 .. m}) = penalty
  <2>1. /\ \A n \in 1 .. m - 1 : DueClaims(claims, e, n, "advance") = {}
        /\ \A n \in 1 .. m - 1 : DueClaims(claims, e, n, "penalty") = {}
    OBVIOUS
  <2>2. UNION {DueClaims(claims, e, n, "advance") : n \in 1 .. m}
          = DueClaims(claims, e, m, "advance")
    BY <2>1, NothingOlderIsDue
  <2>3. UNION {DueClaims(claims, e, n, "penalty") : n \in 1 .. m}
          = DueClaims(claims, e, m, "penalty")
    BY <2>1, NothingOlderIsDue
  <2> QED
    BY <2>2, <2>3
<1>9. /\ advance \in Nat /\ penalty \in Nat /\ who.insurance \in Nat /\ who.fare \in Nat
      /\ Flat \in Nat
  BY TotalsAreNumbers, PayslipsAssumption DEF WorkerRows
<1>10. NoInput.bonus = Unset /\ NoInput.penalty = Unset /\ NoInput.advance = Unset
       /\ NoInput.insurance = Unset /\ NoInput.clothing = 0
  BY DEF NoInput
<1> DEFINE owed == advance + penalty + who.insurance + who.fare + Flat
           gross == EarnedUntil(who, to) + Scale(WorkDays) * bonus
<1> HIDE DEF advance, penalty
<1>11. penalty + 0 + advance + who.insurance + who.fare + Flat = owed
  BY <1>9
<1>12. Slip(who, e, m, claims, NoInput).net
         = RoundUp(Positive(gross - Scale(WorkDays) * owed), Scale(WorkDays), Unit)
  <2> DEFINE slip == Slip(who, e, m, claims, NoInput)
  <2>1. slip.deducted = owed
    BY <1>10, <1>11 DEF Slip, Or, advance, penalty
  <2>2. slip.gross = slip.earned + Scale(WorkDays) * bonus
    BY <1>2, <1>10 DEF Slip, Or
  <2>3. slip.net = RoundUp(Positive(slip.gross - Scale(WorkDays) * slip.deducted),
                           Scale(WorkDays), Unit)
    BY <1>2 DEF Slip
  <2> HIDE DEF slip
  <2>4. slip.gross = gross
    BY <1>7, <2>2 DEF slip
  <2> QED
    BY <2>1, <2>3, <2>4 DEF slip
<1>13. Settlement(who, e, to, claims)
         = RoundUp(Positive(gross - Scale(WorkDays) * owed), Scale(WorkDays), Unit)
  BY <1>1, <1>8 DEF Settlement
<1> QED
  BY <1>12, <1>13

\* Whether there are fares changes nothing of when an employee was there.
LEMMA RidersAreWorkers ==
  ASSUME NEW who \in WorkerRows, NEW fares \in BOOLEAN
  PROVE  /\ Riding(who, fares) \in WorkerRows
         /\ Riding(who, fares).days = who.days
         /\ Riding(who, fares).joined = who.joined /\ Riding(who, fares).until = who.until
<1>1. [who EXCEPT !.fare = 0] \in WorkerRows
  BY DEF WorkerRows
<1>2. /\ [who EXCEPT !.fare = 0].days = who.days
      /\ [who EXCEPT !.fare = 0].joined = who.joined
      /\ [who EXCEPT !.fare = 0].until = who.until
  BY DEF WorkerRows
<1> QED
  BY <1>1, <1>2 DEF Riding

\* This holds of all books.
LEMMA BooksSettleSlips ==
  ASSUME PayslipsTypeOK
  PROVE  SettlementIsTheSlip
<1> SUFFICES ASSUME NEW e \in DOMAIN worker, NEW m \in Months, NEW fares \in BOOLEAN,
                    \A d \in {FirstDay(m) - 1, FinalDay(m) + 1} \cap DOMAIN worker[e].days :
                      worker[e].days[d] = NoPunches,
                    \A d \in Fridays \cap (FirstDay(m) .. FinalDay(m)) :
                      worker[e].days[d].delay = 0 /\ worker[e].days[d].early = 0,
                    \A n \in 1 .. m - 1, kind \in {"advance", "penalty"} :
                      DueClaims(claim, e, n, kind) = {},
                    worker[e].joined <= FirstDay(m), worker[e].until >= FinalDay(m)
             PROVE  Settlement(Riding(worker[e], fares), e, FinalDay(m), claim)
                      = Slip(Riding(worker[e], fares), e, m, claim, NoInput).net
  BY DEF SettlementIsTheSlip
<1>1. claim \in [Claims -> ClaimRows \cup {NoClaim}] /\ worker[e] \in WorkerRows
  BY DEF PayslipsTypeOK
<1>2. PICK who \in WorkerRows :
        /\ who = Riding(worker[e], fares)
        /\ who.days = worker[e].days
        /\ who.joined = worker[e].joined /\ who.until = worker[e].until
  BY <1>1, RidersAreWorkers
<1>3. Settlement(who, e, FinalDay(m), claim) = Slip(who, e, m, claim, NoInput).net
  BY <1>1, <1>2, SettlementPaysTheSlip
<1> QED
  BY <1>2, <1>3

-----------------------------------------------------------------------------
(* The amounts of an item are numbers *)

\* What is entered, or else computed, is a number.
LEMMA OrIsNumber ==
  ASSUME NEW x \in Entries, NEW n \in Nat
  PROVE  Or(x, n) \in Nat
BY DEF Or, Entries, Unset

\* What a month has earned
LEMMA HalvesAreNumbers ==
  ASSUME NEW who \in WorkerRows, NEW m \in Months, NEW i \in InputRows, NEW W \in Nat
  PROVE  LET from == FirstDay(m)
             to == FinalDay(m)
             D == from .. to
         IN  Halves(W, who, from, to, D, Charged(who, "delay", D \ Fridays),
                    Charged(who, "early", D \ Fridays), i) \in Int
<1> DEFINE from == FirstDay(m)
           to == FinalDay(m)
           D == from .. to
           late == Charged(who, "delay", D \ Fridays)
           early == Charged(who, "early", D \ Fridays)
<1>1. from \in Nat /\ to \in Nat /\ D \subseteq AllDays /\ IsFiniteSet(D)
  BY MonthsHaveDays
<1>2. DayMinutes \in Nat
  BY DaysAssumption
<1>3. /\ SickRemainder(who, from, to) \in Int /\ SickDays(who, from, to) \in Int
      /\ PaidDays(who, from, to) \in Int /\ HolidayMinutes(who, from, to, D) \in Int
      /\ WeekendMinutes(who, D) \in Int /\ OvertimeMinutes(who, D) \in Int
      /\ late \in Int /\ early \in Int
  BY <1>1, LeavesAreParts, RestIsSum, OvertimeIsSum, DelayIsSum, EarlyIsSum
<1>4. Cardinality(PresentDays(who, from, to, D)) \in Nat
  BY <1>1, PresenceIsSum
<1>5. /\ i.absence \in Int /\ i.unpaid \in Int /\ i.sick \in Int /\ i.paid \in Int
      /\ i.unpaidMinutes \in Int /\ i.overtime \in Int /\ i.weekend \in Int
      /\ i.late \in Int /\ i.early \in Int
  BY DEF InputRows, Entries, Unset
<1> HIDE DEF from, to, D, late, early
<1>6. \A k, l \in Int : k * l \in Int
  OBVIOUS
<1>7. ContractualMinutes(W, who, from, to, D, i) \in Int
  <2>1. CASE EntersDays(i)
    <3> DEFINE n == Positive(W - Positive(i.absence) - i.unpaid - i.sick - i.paid)
    <3>1. n \in Int
      BY <1>5 DEF Positive
    <3>2. n * DayMinutes \in Int
      BY <1>2, <1>6, <3>1
    <3>3. ContractualMinutes(W, who, from, to, D, i)
            = Positive(n * DayMinutes - i.unpaidMinutes)
      BY <2>1 DEF ContractualMinutes
    <3> HIDE DEF n
    <3> QED
      BY <1>5, <3>2, <3>3 DEF Positive
  <2>2. CASE ~EntersDays(i)
    <3> DEFINE n == Least(Cardinality(PresentDays(who, from, to, D)), W)
    <3>1. n \in Int
      BY <1>4 DEF Least
    <3>2. ContractualMinutes(W, who, from, to, D, i) = n * DayMinutes
      BY <2>2 DEF ContractualMinutes
    <3> HIDE DEF n
    <3> QED
      BY <1>2, <1>6, <3>1, <3>2
  <2> QED
    BY <2>1, <2>2
<1> DEFINE Pick(manual, automatic) == IF EntersAttendance(i) THEN manual ELSE automatic
<1>8. /\ Pick(i.sick, SickDays(who, from, to)) \in Int
      /\ Pick(i.paid, PaidDays(who, from, to)) \in Int
      /\ Pick(i.overtime, OvertimeMinutes(who, D)) \in Int
      /\ Pick(i.weekend, WeekendMinutes(who, D)) \in Int
      /\ Pick(i.late, late) \in Int /\ Pick(i.early, early) \in Int
  BY <1>3, <1>5
<1>9. Halves(W, who, from, to, D, late, early, i)
        = 2 * ContractualMinutes(W, who, from, to, D, i)
          + SickRemainder(who, from, to)
          + DayMinutes * Pick(i.sick, SickDays(who, from, to))
          + 2 * DayMinutes * Pick(i.paid, PaidDays(who, from, to))
          + 3 * Pick(i.overtime, OvertimeMinutes(who, D))
          + 4 * Pick(i.weekend, WeekendMinutes(who, D))
          + 2 * HolidayMinutes(who, from, to, D)
          - 3 * Pick(i.late, late) - 2 * Pick(i.early, early)
  BY DEF Halves
<1> HIDE DEF Pick
<1>10. /\ 2 * ContractualMinutes(W, who, from, to, D, i) \in Int
       /\ DayMinutes * Pick(i.sick, SickDays(who, from, to)) \in Int
       /\ 2 * DayMinutes * Pick(i.paid, PaidDays(who, from, to)) \in Int
       /\ 3 * Pick(i.overtime, OvertimeMinutes(who, D)) \in Int
       /\ 4 * Pick(i.weekend, WeekendMinutes(who, D)) \in Int
       /\ 2 * HolidayMinutes(who, from, to, D) \in Int
       /\ 3 * Pick(i.late, late) \in Int /\ 2 * Pick(i.early, early) \in Int
  BY <1>2, <1>3, <1>6, <1>7, <1>8
<1>11. \A a, b, c, d, f, g, h, j, k \in Int : a + b + c + d + f + g + h - j - k \in Int
  OBVIOUS
<1>12. Halves(W, who, from, to, D, late, early, i) \in Int
  BY ONLY <1>3, <1>9, <1>10, <1>11
<1> QED
  BY <1>12 DEF from, to, D, late, early

\* What is rounded up is a number.
LEMMA RoundedIsNumber ==
  ASSUME NEW net \in Int, NEW scale \in Nat \ {0}
  PROVE  RoundUp(net, scale, Unit) \in Int
<1>1. Unit \in Nat \ {0}
  BY PayslipsAssumption
<1>2. PICK k \in Nat \ {0} : k = Unit * scale
  <2>1. \A a, b \in Nat \ {0} : a * b \in Nat \ {0}
    OBVIOUS
  <2> QED
    BY <1>1, <2>1
<1>3. PICK n \in Int : n = net + k - 1
  OBVIOUS
<1>4. PICK q \in Int : q = n \div k
  OBVIOUS
<1>5. \A a, b \in Int : a * b \in Int
  OBVIOUS
<1>6. Unit * q \in Int
  BY <1>1, <1>5
<1> QED
  BY <1>2, <1>3, <1>4, <1>6 DEF RoundUp

\* The deductions and the net pay of an item
LEMMA SlipsAreNumbers ==
  ASSUME NEW who \in WorkerRows, NEW e, NEW m \in Months, NEW i \in InputRows,
         NEW claims \in [Claims -> ClaimRows \cup {NoClaim}]
  PROVE  /\ Slip(who, e, m, claims, i).net \in Int
         /\ Slip(who, e, m, claims, i).deducted \in Int
<1> DEFINE slip == Slip(who, e, m, claims, i)
           W == PaidWorkDays(who, m)
           D == FirstDay(m) .. FinalDay(m)
           advance == Total(claims, DueClaims(claims, e, m, "advance"))
           penalty == Total(claims, DueClaims(claims, e, m, "penalty"))
           bonus == Total(claims, DueClaims(claims, e, m, "bonus"))
           halves == Halves(W, who, FirstDay(m), FinalDay(m), D,
                            Charged(who, "delay", D \ Fridays),
                            Charged(who, "early", D \ Fridays), i)
<1>1. W \in Nat \ {0}
  BY WorkDaysAreCounted
<1>2. halves \in Int
  BY <1>1, HalvesAreNumbers
<1>3. advance \in Nat /\ penalty \in Nat /\ bonus \in Nat
  BY TotalsAreNumbers
<1>4. /\ who.base \in Nat /\ who.transport \in Nat /\ who.insurance \in Nat
      /\ who.fare \in Nat /\ Flat \in Nat
      /\ i.clothing \in Nat /\ i.bonus \in Entries /\ i.penalty \in Entries
      /\ i.advance \in Entries /\ i.insurance \in Entries /\ i.transport \in Entries
  BY PayslipsAssumption DEF WorkerRows, InputRows
<1>5. \A a, b \in Int : a * b \in Int
  OBVIOUS
<1>6. Scale(W) \in Nat \ {0}
  <2>1. \A a, b \in Nat \ {0} : 2 * a * b \in Nat \ {0}
    OBVIOUS
  <2> QED
    BY <1>1, <2>1, DaysAssumption DEF Scale
<1> DEFINE earned == (who.base + Or(i.transport, who.transport)) * Positive(halves)
           gross == earned + Scale(W) * Or(i.bonus, bonus)
           owed == Or(i.penalty, penalty) + i.clothing + Or(i.advance, advance)
                   + Or(i.insurance, who.insurance) + who.fare + Flat
<1>7. /\ slip.deducted = owed
      /\ slip.net = RoundUp(Positive(gross - Scale(W) * owed), Scale(W), Unit)
  BY DEF Slip, Earned
<1> HIDE DEF slip, halves, advance, penalty, bonus, W
<1>8. owed \in Int
  <2>1. Or(i.penalty, penalty) \in Nat /\ Or(i.advance, advance) \in Nat
        /\ Or(i.insurance, who.insurance) \in Nat
    BY <1>3, <1>4, OrIsNumber
  <2> QED
    BY <1>4, <2>1
<1>9. gross \in Int
  <2>1. Or(i.transport, who.transport) \in Nat /\ Or(i.bonus, bonus) \in Nat
    BY <1>3, <1>4, OrIsNumber
  <2>2. Positive(halves) \in Int /\ who.base + Or(i.transport, who.transport) \in Int
    BY <1>2, <1>4, <2>1 DEF Positive
  <2>3. earned \in Int /\ Scale(W) * Or(i.bonus, bonus) \in Int
    BY <1>5, <1>6, <2>1, <2>2
  <2> HIDE DEF earned
  <2> QED
    BY <2>3
<1> HIDE DEF gross, owed
<1>10. Positive(gross - Scale(W) * owed) \in Int
  <2>1. Scale(W) * owed \in Int
    BY <1>5, <1>6, <1>8
  <2>2. gross - Scale(W) * owed \in Int
    BY <1>9, <2>1
  <2> QED
    BY <2>2 DEF Positive
<1>11. RoundUp(Positive(gross - Scale(W) * owed), Scale(W), Unit) \in Int
  BY <1>6, <1>10, RoundedIsNumber
<1> QED
  BY <1>7, <1>8, <1>11 DEF slip

\* An item stays as long as no claim of its month changes.
LEMMA SlipStays ==
  ASSUME NEW old, NEW new, NEW m,
         \A c \in Claims : \/ old[c] = new[c]
                           \/ ~DueIn(old[c], m) /\ ~DueIn(new[c], m),
         NEW who, NEW e, NEW i
  PROVE  Slip(who, e, m, old, i) = Slip(who, e, m, new, i)
<1>1. \A kind : DueClaims(old, e, m, kind) = DueClaims(new, e, m, kind)
  BY DEF DueClaims
<1>2. \A kind : \A c \in DueClaims(old, e, m, kind) : old[c] = new[c]
  BY DEF DueClaims
<1>3. \A kind : Total(old, DueClaims(old, e, m, kind)) = Total(new, DueClaims(new, e, m, kind))
  <2> SUFFICES ASSUME NEW kind
               PROVE  Total(old, DueClaims(old, e, m, kind))
                        = Total(new, DueClaims(new, e, m, kind))
    OBVIOUS
  <2> DEFINE due == DueClaims(old, e, m, kind)
  <2>1. [c \in due |-> Deductible(old[c])] = [c \in due |-> Deductible(new[c])]
    BY <1>2
  <2> QED
    BY <1>1, <2>1 DEF Total
<1>4. {c \in Claims : DueIn(old[c], m) /\ old[c].who = e}
        = {c \in Claims : DueIn(new[c], m) /\ new[c].who = e}
  OBVIOUS
<1>5. /\ Total(old, DueClaims(old, e, m, "bonus")) = Total(new, DueClaims(new, e, m, "bonus"))
      /\ Total(old, DueClaims(old, e, m, "penalty")) = Total(new, DueClaims(new, e, m, "penalty"))
      /\ Total(old, DueClaims(old, e, m, "advance")) = Total(new, DueClaims(new, e, m, "advance"))
  BY <1>3
<1> QED
  BY ONLY <1>4, <1>5, Zenon DEF Slip

-----------------------------------------------------------------------------
(* The items of a run and the books of its month *)

\* The item of an employee, by the books as they are and as the calculation has read them
PayOf(e, m) == Slip(Riding(worker[e], run[m].fares), e, m, claim, input[e][m])
PayRead(e) ==
  Slip(Riding(worker[e], run[work.month].fares), e, work.month, work.claim, work.input[e])

\* Nothing is calculated for a run that is complete.
WorkIsOpen == work # NoWork => run[work.month].state # "completed"

\* The calculation begins without totals, and then has those of the items it has written.
WorkIsCounted ==
  /\ work.stage = "read" => work.totals = NoTotals
  /\ work.stage = "pay" =>
       LET slips == run[work.month].slips
       IN  /\ DOMAIN slips \cup work.todo \subseteq DOMAIN worker
           /\ DOMAIN slips \cap work.todo = {}
           /\ \A e \in DOMAIN slips : slips[e] = PayRead(e)
           /\ \A e \in DOMAIN worker : work.input[e] \in InputRows
           /\ work.totals.of = Cardinality(DOMAIN slips)
           /\ work.totals.net = SlipsSum(slips, "net")
           /\ work.totals.deducted = SlipsSum(slips, "deducted")

\* What it has read is what the books say, unless they have changed since.
WorkIsCurrent ==
  work.stage = "pay" /\ work.month \notin unread =>
    \A e \in DOMAIN worker : PayRead(e) = PayOf(e, work.month)

\* Items are of employees.
SlipsAreOfWorkers == \A m \in Months : DOMAIN run[m].slips \subseteq DOMAIN worker

\* The inductive invariant, on top of that of the claims
PayInvariant ==
  /\ SlipsAreOfWorkers /\ WorkIsOpen /\ WorkIsCounted /\ WorkIsCurrent
  /\ SlipsAreCurrent /\ TotalsMatchSlips

\* What a step of the tables leaves of the items: those of months it does not touch.
LEMMA TablesLeavePay ==
  ASSUME SlipsInvariant, PayInvariant, SameRuns, unread \subseteq unread',
         \A e \in DOMAIN worker, m \in Months \ unread' : PayOf(e, m)' = PayOf(e, m)
  PROVE  PayInvariant'
<1>1. UNCHANGED <<worker, run, work>>
  BY DEF SameRuns
<1>2. WorkIsOpen'
  BY <1>1 DEF PayInvariant, WorkIsOpen, NoWork
<1>3. \A e : PayRead(e)' = PayRead(e)
  BY <1>1 DEF PayRead
<1>4. WorkIsCounted'
  BY <1>1, <1>3 DEF PayInvariant, WorkIsCounted
<1>5. WorkIsCurrent'
  BY <1>1, <1>3, WorkHasShape DEF PayInvariant, WorkIsCurrent
<1>6. SlipsAreCurrent'
  <2> SUFFICES ASSUME NEW m \in Months, m \notin unread', run'[m].state = "completed",
                      NEW e \in Workers, e \in DOMAIN run'[m].slips
               PROVE  run'[m].slips[e] = PayOf(e, m)'
    BY DEF SlipsAreCurrent, Booked, PayOf
  <2>1. m \notin unread /\ run[m].state = "completed" /\ e \in Booked(m)
    BY <1>1 DEF Booked
  <2>2. run[m].slips[e] = PayOf(e, m)
    BY <2>1 DEF PayInvariant, SlipsAreCurrent, PayOf
  <2>3. e \in DOMAIN worker
    BY <2>1 DEF Booked, PayInvariant, SlipsAreOfWorkers
  <2> QED
    BY <1>1, <2>2, <2>3
<1>7. TotalsMatchSlips'
  BY <1>1 DEF PayInvariant, TotalsMatchSlips, Booked
<1>8. SlipsAreOfWorkers'
  BY <1>1 DEF PayInvariant, SlipsAreOfWorkers
<1> QED
  BY <1>2, <1>4, <1>5, <1>6, <1>7, <1>8 DEF PayInvariant

\* A write of a claim touches the months that it is due in before and after.
LEMMA RewriteTouchesItsMonths ==
  ASSUME PayslipsTypeOK, NEW c \in Claims, NEW old \in ClaimRows \cup {NoClaim},
         NEW d \in ClaimRows \cup {NoClaim}, claim[c] \in {old, NoClaim}, Rewrite(c, old, d)
  PROVE  /\ unread \subseteq unread'
         /\ \A m \in Months \ unread', b \in Claims :
              \/ claim[b] = claim'[b]
              \/ ~DueIn(claim[b], m) /\ ~DueIn(claim'[b], m)
<1>1. claim'[c] = d /\ \A b \in Claims \ {c} : claim'[b] = claim[b]
  BY RewriteIsTyped
<1>2. unread' = unread \cup (MonthsOf(old, d) \ {NoMonth})
  BY DEF Rewrite, Touches
<1>3. ASSUME NEW m \in Months \ unread', NEW x \in {old, d}
      PROVE  ~DueIn(x, m)
  <2> SUFFICES ASSUME x # NoClaim, MonthOf(x) = m PROVE FALSE
    BY DEF DueIn
  <2>1. m \in MonthsOf(old, d)
    BY <1>3 DEF MonthsOf
  <2>2. m # NoMonth
    BY DEF Months, NoMonth
  <2> QED
    BY <1>2, <1>3, <2>1, <2>2
<1>4. ~DueIn(NoClaim, 0) /\ \A m : ~DueIn(NoClaim, m)
  BY DEF DueIn
<1>5. ASSUME NEW m \in Months \ unread', NEW b \in Claims
      PROVE  \/ claim[b] = claim'[b]
             \/ ~DueIn(claim[b], m) /\ ~DueIn(claim'[b], m)
  <2>1. CASE b = c
    BY <1>1, <1>3, <1>4, <2>1
  <2>2. CASE b # c
    BY <1>1, <2>2
  <2> QED
    BY <2>1, <2>2
<1> QED
  BY <1>2, <1>5

\* Then the items of other months stay what they are.
LEMMA RewritePays ==
  ASSUME SlipsInvariant, PayInvariant, SameRuns, UNCHANGED input,
         NEW c \in Claims, NEW old \in ClaimRows \cup {NoClaim},
         NEW d \in ClaimRows \cup {NoClaim}, claim[c] \in {old, NoClaim}, Rewrite(c, old, d)
  PROVE  PayInvariant'
<1>1. /\ unread \subseteq unread'
      /\ \A m \in Months \ unread', b \in Claims :
           \/ claim[b] = claim'[b]
           \/ ~DueIn(claim[b], m) /\ ~DueIn(claim'[b], m)
  BY RewriteTouchesItsMonths DEF SlipsInvariant, ShapesOK
<1>2. ASSUME NEW e \in DOMAIN worker, NEW m \in Months \ unread'
      PROVE  PayOf(e, m)' = PayOf(e, m)
  <2>1. UNCHANGED <<worker, input>>
    BY DEF SameRuns
  <2>2. \A b \in Claims : \/ claim[b] = claim'[b]
                          \/ ~DueIn(claim[b], m) /\ ~DueIn(claim'[b], m)
    BY <1>1
  <2>3. \A who, i : Slip(who, e, m, claim, i) = Slip(who, e, m, claim', i)
    BY <2>2, SlipStays
  <2> QED
    BY <2>1, <2>3 DEF PayOf, SameRuns
<1> QED
  BY <1>1, <1>2, TablesLeavePay

\* Requests that leave the claims and the inputs leave the items.
LEMMA ReadingPays ==
  ASSUME SlipsInvariant, PayInvariant, SameRuns, UNCHANGED <<claim, input, unread>>
  PROVE  PayInvariant'
<1>1. \A e, m : PayOf(e, m)' = PayOf(e, m)
  BY DEF SameRuns, PayOf
<1> QED
  BY <1>1, TablesLeavePay

\* create and update
LEMMA ClaimsPay ==
  ASSUME SlipsInvariant, PayInvariant, NEW c \in Claims, CreateClaim(c) \/ UpdateClaim(c)
  PROVE  PayInvariant'
<1>1. CASE CreateClaim(c)
  <2>1. claim[c] = NoClaim /\ UNCHANGED input /\ SameRuns
    BY <1>1 DEF CreateClaim
  <2>2. PICK d \in ClaimRows : Rewrite(c, NoClaim, d)
    BY <1>1, CreateIsRewrite
  <2> QED
    BY <2>1, <2>2, RewritePays
<1>2. CASE UpdateClaim(c)
  <2>1. claim[c] \in ClaimRows
    BY <1>2, UpdateIsRewrite
  <2>2. PICK d \in ClaimRows : Rewrite(c, claim[c], d)
    BY <1>2, UpdateIsRewrite
  <2>3. UNCHANGED input /\ SameRuns
    BY <1>2 DEF UpdateClaim
  <2> QED
    BY <2>1, <2>2, <2>3, RewritePays
<1> QED
  BY <1>1, <1>2

\* Trashing and restoring
LEMMA TrashPays ==
  ASSUME SlipsInvariant, PayInvariant, NEW p \in Secretaries,
         TrashClaim(p) \/ RestoreClaim(p) \/ AbandonLetter(p)
  PROVE  PayInvariant'
<1>1. CASE TrashClaim(p)
  <2> DEFINE c == letter[p].id
  <2>1. /\ c \in Claims /\ claim[c] \in ClaimRows /\ Rewrite(c, claim[c], NoClaim)
        /\ UNCHANGED input /\ SameRuns
    BY <1>1, TablesAreTyped DEF TrashClaim, SlipsInvariant, LettersAreSane
  <2> QED
    BY <2>1, RewritePays
<1>2. CASE RestoreClaim(p)
  <2> DEFINE c == letter[p].id
             old == letter[p].read
  <2>1. /\ letter[p].op = "restore" /\ claim[c] = NoClaim
        /\ Rewrite(c, old, [old EXCEPT !.created = today])
        /\ UNCHANGED input /\ SameRuns
    BY <1>2 DEF RestoreClaim, Restored
  <2>2. c \in Claims /\ old \in ClaimRows /\ today \in Months
    BY <2>1, TablesAreTyped DEF SlipsInvariant, LettersAreSane
  <2>3. [old EXCEPT !.created = today] \in ClaimRows
    BY <2>2 DEF ClaimRows
  <2>4. PICK d \in ClaimRows : Rewrite(c, old, d)
    BY <2>1, <2>3
  <2> QED
    BY <2>1, <2>2, <2>4, RewritePays
<1>3. CASE AbandonLetter(p)
  BY <1>3, ReadingPays DEF AbandonLetter, SameClaims
<1> QED
  BY <1>1, <1>2, <1>3

\* upsertInput touches its month.
LEMMA InputsPay ==
  ASSUME SlipsInvariant, PayInvariant, NEW e \in Workers, NEW m \in Months, UpsertInput(e, m)
  PROVE  PayInvariant'
<1>1. PICK i : input' = [input EXCEPT ![e][m] = i]
  BY DEF UpsertInput
<1>2. /\ unread' = unread \cup ({m} \ {NoMonth})
      /\ UNCHANGED claim /\ SameRuns
  BY DEF UpsertInput, Touches, SameClaims
<1>3. m \in unread'
  BY <1>2 DEF Months, NoMonth
<1>4. ASSUME NEW f \in DOMAIN worker, NEW n \in Months \ unread'
      PROVE  PayOf(f, n)' = PayOf(f, n)
  <2>1. input'[f][n] = input[f][n]
    <3>1. n # m
      BY <1>3
    <3>2. input \in [Workers -> [Months -> InputRows]] /\ f \in Workers
      BY DEF SlipsInvariant, ShapesOK, PayslipsTypeOK
    <3> QED
      BY <1>1, <3>1, <3>2
  <2> QED
    BY <1>2, <2>1 DEF PayOf, SameRuns
<1> QED
  BY <1>2, <1>4, TablesLeavePay

-----------------------------------------------------------------------------
(* Calculations and their items *)

\* A step that writes one run at most, which is not complete then, leaves complete ones.
LEMMA OtherRunsPay ==
  ASSUME PayInvariant, SameBooks, NEW m \in Months,
         \A n \in Months \ {m} : run'[n] = run[n], unread \ {m} \subseteq unread',
         run'[m].state # "completed", DOMAIN run'[m].slips \subseteq DOMAIN worker
  PROVE  SlipsAreOfWorkers' /\ SlipsAreCurrent' /\ TotalsMatchSlips'
<1>1. UNCHANGED <<worker, claim, input>>
  BY DEF SameBooks, SameClaims
<1>2. SlipsAreOfWorkers'
  BY <1>1 DEF PayInvariant, SlipsAreOfWorkers
<1>3. SlipsAreCurrent'
  <2> SUFFICES ASSUME NEW n \in Months, n \notin unread', run'[n].state = "completed",
                      NEW e \in Workers, e \in DOMAIN run'[n].slips
               PROVE  run'[n].slips[e]
                        = Slip(Riding(worker[e], run'[n].fares), e, n, claim, input[e][n])
    BY <1>1 DEF SlipsAreCurrent, Booked
  <2>1. n # m /\ run'[n] = run[n] /\ n \notin unread
    OBVIOUS
  <2> QED
    BY <2>1 DEF PayInvariant, SlipsAreCurrent, Booked
<1>4. TotalsMatchSlips'
  <2>1. \A n \in Months : run'[n].state = "completed" => run'[n] = run[n]
    OBVIOUS
  <2> QED
    BY <2>1 DEF PayInvariant, TotalsMatchSlips, Booked
<1> QED
  BY <1>2, <1>3, <1>4

\* A calculation that does not write items yet, or has ended
LEMMA NotPaying ==
  ASSUME work'.stage # "pay", work'.stage = "read" => work'.totals = NoTotals
  PROVE  WorkIsCounted' /\ WorkIsCurrent'
BY DEF WorkIsCounted, WorkIsCurrent

\* A run begins...
LEMMA OpenRunPays ==
  ASSUME SlipsInvariant, PayInvariant, NEW m \in Months, OpenRun(m)
  PROVE  PayInvariant'
<1>1. /\ run' = [run EXCEPT ![m] = [NotRun EXCEPT !.number = run[m].number + 1,
                                                   !.state = "queued"]]
      /\ work' = [NoWork EXCEPT !.month = m, !.stage = "read"]
      /\ UNCHANGED unread /\ SameBooks
  BY DEF OpenRun
<1>2. run = [n \in Months |-> run[n]]
  BY RunsHaveShapes
<1>3. PICK r : /\ r = [number |-> run[m].number + 1, state |-> "queued", fares |-> TRUE,
                       slips |-> << >>, totals |-> NoTotals]
               /\ run' = [run EXCEPT ![m] = r]
  <2>1. ASSUME NEW x, x = [NotRun EXCEPT !.number = run[m].number + 1, !.state = "queued"]
        PROVE  x = [number |-> run[m].number + 1, state |-> "queued", fares |-> TRUE,
                    slips |-> << >>, totals |-> NoTotals]
    BY <2>1 DEF NotRun
  <2> QED
    BY <1>1, <2>1
<1>4. run'[m] = r /\ \A n \in Months \ {m} : run'[n] = run[n]
  BY <1>2, <1>3
<1>5. r.state = "queued" /\ DOMAIN r.slips \subseteq DOMAIN worker
  BY <1>3
<1>6. /\ work' = [month |-> m, stage |-> "read", claim |-> << >>, input |-> << >>, todo |-> {},
                  totals |-> NoTotals]
  BY <1>1 DEF NoWork
<1>7. WorkIsOpen'
  BY <1>4, <1>5, <1>6 DEF WorkIsOpen
<1>8. SlipsAreOfWorkers' /\ SlipsAreCurrent' /\ TotalsMatchSlips'
  <2>1. run'[m].state # "completed" /\ DOMAIN run'[m].slips \subseteq DOMAIN worker
    BY <1>4, <1>5
  <2>2. unread \ {m} \subseteq unread'
    BY <1>1
  <2> QED
    BY <1>1, <1>4, <2>1, <2>2, OtherRunsPay
<1>9. WorkIsCounted' /\ WorkIsCurrent'
  BY <1>6, NotPaying
<1> QED
  BY <1>7, <1>8, <1>9 DEF PayInvariant

\* ...or is tried again...
LEMMA RetryRunPays ==
  ASSUME SlipsInvariant, PayInvariant, NEW m \in Months, RetryRun(m)
  PROVE  PayInvariant'
<1>1. /\ work' = [NoWork EXCEPT !.month = m, !.stage = "read"]
      /\ UNCHANGED <<run, unread>> /\ SameBooks /\ run[m].state = "failed"
  BY DEF RetryRun
<1>2. work' = [month |-> m, stage |-> "read", claim |-> << >>, input |-> << >>, todo |-> {},
               totals |-> NoTotals]
  BY <1>1 DEF NoWork
<1>3. WorkIsOpen'
  BY <1>1, <1>2 DEF WorkIsOpen
<1>4. run'[m].state # "completed" /\ DOMAIN run'[m].slips \subseteq DOMAIN worker
  BY <1>1 DEF PayInvariant, SlipsAreOfWorkers
<1>5. SlipsAreOfWorkers' /\ SlipsAreCurrent' /\ TotalsMatchSlips'
  <2>1. \A n \in Months \ {m} : run'[n] = run[n]
    BY <1>1
  <2>2. unread \ {m} \subseteq unread'
    BY <1>1
  <2> QED
    BY <1>1, <1>4, <2>1, <2>2, OtherRunsPay
<1>6. WorkIsCounted' /\ WorkIsCurrent'
  BY <1>2, NotPaying
<1> QED
  BY <1>3, <1>5, <1>6 DEF PayInvariant

\* ...and reads the books.
LEMMA ReadBooksPays ==
  ASSUME SlipsInvariant, PayInvariant, ReadBooks
  PROVE  PayInvariant'
<1> DEFINE m == work.month
<1>1. /\ work.stage = "read"
      /\ work' = [work EXCEPT !.stage = "pay", !.claim = claim, !.todo = DOMAIN worker,
                              !.input = [e \in DOMAIN worker |-> input[e][m]]]
      /\ unread' = unread \ {m} /\ SameBooks
  BY DEF ReadBooks, BooksRead
<1>2. m \in Months /\ IsRun(run[m]) /\ run = [n \in Months |-> run[n]]
  BY <1>1, WorkHasShape, RunsHaveShapes
<1>3. PICK r, fares : /\ r = [run[m] EXCEPT !.state = "processing", !.slips = << >>,
                                            !.fares = fares]
                      /\ run' = [run EXCEPT ![m] = r]
  BY <1>2 DEF ReadBooks, BooksRead
<1>4. r.state = "processing" /\ r.slips = << >>
  BY <1>2, <1>3 DEF IsRun
<1>5. run'[m] = r /\ \A n \in Months \ {m} : run'[n] = run[n]
  BY <1>2, <1>3
<1>6. PICK i : /\ i = [e \in DOMAIN worker |-> input[e][m]]
               /\ work' = [work EXCEPT !.stage = "pay", !.claim = claim,
                                       !.todo = DOMAIN worker, !.input = i]
  BY <1>1
<1>7. work' = [month |-> m, stage |-> "pay", claim |-> claim, input |-> i,
               todo |-> DOMAIN worker, totals |-> NoTotals]
  <2>1. work = [month |-> work.month, stage |-> work.stage, claim |-> work.claim,
                input |-> work.input, todo |-> work.todo, totals |-> work.totals]
    BY WorkHasShape
  <2>2. work.totals = NoTotals
    BY <1>1 DEF PayInvariant, WorkIsCounted
  <2> QED
    BY <1>6, <2>1, <2>2
<1>8. /\ work'.month = m /\ work'.stage = "pay" /\ work'.claim = claim /\ work'.input = i
      /\ work'.todo = DOMAIN worker /\ work'.totals = NoTotals
  BY ONLY <1>7
<1>9. UNCHANGED <<worker, claim, input>>
  BY <1>1 DEF SameBooks, SameClaims
<1>10. WorkIsOpen'
  BY <1>4, <1>5, <1>8 DEF WorkIsOpen
<1>11. WorkIsCounted'
  <2>1. run'[work'.month].slips = << >> /\ DOMAIN << >> = {}
    BY <1>4, <1>5, <1>8
  <2>2. /\ SlipsSum(<< >>, "net") = 0 /\ SlipsSum(<< >>, "deducted") = 0
        /\ Cardinality({}) = 0
    BY <2>1, SumOfNothing, FS_EmptySet DEF SlipsSum
  <2>3. /\ NoTotals.of = 0 /\ NoTotals.net = 0 /\ NoTotals.deducted = 0
    BY DEF NoTotals
  <2>4. \A e \in DOMAIN worker : i[e] \in InputRows
    BY <1>2, <1>6 DEF SlipsInvariant, ShapesOK, PayslipsTypeOK
  <2>5. work'.stage # "read"
    BY <1>8
  <2> QED
    BY <1>8, <1>9, <2>1, <2>2, <2>3, <2>4, <2>5 DEF WorkIsCounted
<1>12. WorkIsCurrent'
  <2>1. \A e \in DOMAIN worker : i[e] = input[e][m]
    BY <1>6
  <2>2. \A e \in DOMAIN worker : PayRead(e)' = PayOf(e, m)'
    BY <1>8, <1>9, <2>1 DEF PayRead, PayOf
  <2> QED
    BY <1>8, <1>9, <2>2 DEF WorkIsCurrent
<1>13. SlipsAreOfWorkers' /\ SlipsAreCurrent' /\ TotalsMatchSlips'
  <2>1. run'[m].state # "completed" /\ DOMAIN run'[m].slips \subseteq DOMAIN worker
    BY <1>4, <1>5
  <2>2. unread \ {m} \subseteq unread'
    BY <1>1
  <2> QED
    BY <1>1, <1>2, <1>5, <2>1, <2>2, OtherRunsPay
<1> QED
  BY <1>10, <1>11, <1>12, <1>13 DEF PayInvariant

\* The items that are there, each of an employee and with amounts that can be added
LEMMA ItemsAreNumbers ==
  ASSUME SlipsInvariant, PayInvariant, work.stage = "pay", NEW e \in DOMAIN worker
  PROVE  PayRead(e).net \in Int /\ PayRead(e).deducted \in Int
<1>1. work.month \in Months /\ work.claim \in [Claims -> ClaimRows \cup {NoClaim}]
  BY WorkHasShape
<1>2. work.input[e] \in InputRows
  BY DEF PayInvariant, WorkIsCounted
<1>3. worker[e] \in WorkerRows
  BY DEF SlipsInvariant, ShapesOK, PayslipsTypeOK
<1>4. Riding(worker[e], run[work.month].fares) \in WorkerRows
  BY <1>1, <1>3, RunsHaveShapes, RidersAreWorkers DEF IsRun
<1> QED
  BY <1>1, <1>2, <1>4, SlipsAreNumbers DEF PayRead

\* One more item, and what it adds to a sum
HasOneMore(s, slips, e, field) ==
  /\ IsFiniteSet(DOMAIN slips) /\ e \notin DOMAIN slips /\ DOMAIN s = DOMAIN slips \cup {e}
  /\ s[e][field] \in Int
  /\ \A f \in DOMAIN slips : s[f] = slips[f] /\ slips[f][field] \in Int

\* The totals grow by what the new item shows.
LEMMA SlipsSumGrows ==
  ASSUME NEW s, NEW slips, NEW e, NEW field, HasOneMore(s, slips, e, field)
  PROVE  SlipsSum(s, field) = SlipsSum(slips, field) + s[e][field]
<1> USE DEF HasOneMore
<1> DEFINE S == DOMAIN slips
           g == [f \in S |-> slips[f][field]]
           h == [f \in S \cup {e} |-> s[f][field]]
<1>1. DOMAIN s = S \cup {e}
  OBVIOUS
<1>2. SlipsSum(slips, field) = SumFunctionOnSet(g, S)
      /\ SlipsSum(s, field) = SumFunctionOnSet(h, S \cup {e})
  BY <1>1 DEF SlipsSum
<1>3. \A f \in S \cup {e} : h[f] \in Int
  OBVIOUS
<1>4. h[e] = s[e][field] /\ \A f \in S : g[f] \in Int /\ g[f] = h[f]
  OBVIOUS
<1>5. IsFiniteSet(S) /\ e \notin S
  OBVIOUS
<1> HIDE DEF HasOneMore, S, g, h
<1>6. SumFunctionOnSet(h, S \cup {e}) = SumFunctionOnSet(h, S) + h[e]
  BY ONLY <1>3, <1>5, SumGainsElement
<1>7. SumFunctionOnSet(g, S) = SumFunctionOnSet(h, S)
  BY ONLY <1>4, <1>5, SumOfEquals
<1> QED
  BY <1>2, <1>4, <1>6, <1>7

\* An item is what the books that were read say, and is counted.
LEMMA PayWorkerPays ==
  ASSUME SlipsInvariant, PayInvariant, NEW e \in Workers, PayWorker(e)
  PROVE  PayInvariant'
<1> DEFINE m == work.month
           slips == run[m].slips
<1>1. PICK slip :
        /\ slip = PayRead(e)
        /\ work.stage = "pay" /\ e \in work.todo
        /\ run' = [run EXCEPT ![m].slips =
                     [f \in DOMAIN @ \cup {e} |-> IF f = e THEN slip ELSE @[f]]]
        /\ work' = [work EXCEPT !.todo = @ \ {e}, !.totals = Plus(@, slip)]
        /\ UNCHANGED unread /\ SameBooks
  BY DEF PayWorker, PayRead
<1>2. m \in Months /\ IsRun(run[m]) /\ run = [n \in Months |-> run[n]]
  BY <1>1, WorkHasShape, RunsHaveShapes
<1>3. PICK s : /\ s = [f \in DOMAIN slips \cup {e} |-> IF f = e THEN slip ELSE slips[f]]
               /\ run' = [run EXCEPT ![m] = [run[m] EXCEPT !.slips = s]]
  BY <1>1, <1>2
<1>4. PICK r : r = [run[m] EXCEPT !.slips = s] /\ run' = [run EXCEPT ![m] = r]
  BY <1>3
<1>5. r.slips = s /\ r.state = run[m].state /\ r.fares = run[m].fares
  BY <1>2, <1>4 DEF IsRun
<1>6. run'[m] = r /\ \A n \in Months \ {m} : run'[n] = run[n]
  BY <1>2, <1>4
<1>7. PICK T, t : /\ T = work.todo \ {e} /\ t = Plus(work.totals, slip)
                  /\ work' = [work EXCEPT !.todo = T, !.totals = t]
  BY <1>1, WorkHasShape
<1>8. work' = [month |-> m, stage |-> "pay", claim |-> work.claim, input |-> work.input,
               todo |-> T, totals |-> t]
  <2>1. work = [month |-> work.month, stage |-> work.stage, claim |-> work.claim,
                input |-> work.input, todo |-> work.todo, totals |-> work.totals]
    BY WorkHasShape
  <2> QED
    BY <1>1, <1>7, <2>1
<1>9. /\ work'.month = m /\ work'.stage = "pay" /\ work'.claim = work.claim
      /\ work'.input = work.input /\ work'.todo = T /\ work'.totals = t
  BY ONLY <1>8
<1>10. UNCHANGED <<worker, claim, input>>
  BY <1>1 DEF SameBooks, SameClaims
<1>11. /\ DOMAIN slips \cup work.todo \subseteq DOMAIN worker
       /\ DOMAIN slips \cap work.todo = {}
       /\ \A f \in DOMAIN slips : slips[f] = PayRead(f)
       /\ \A f \in DOMAIN worker : work.input[f] \in InputRows
       /\ work.totals.of = Cardinality(DOMAIN slips)
       /\ work.totals.net = SlipsSum(slips, "net")
       /\ work.totals.deducted = SlipsSum(slips, "deducted")
  BY <1>1 DEF PayInvariant, WorkIsCounted
<1>12. e \notin DOMAIN slips /\ e \in DOMAIN worker /\ IsFiniteSet(DOMAIN slips)
  <2>1. DOMAIN slips \subseteq Workers
    BY <1>2, RunsHaveShapes
  <2> QED
    BY <1>1, <1>11, <2>1, PayslipsAssumption, FS_Subset
<1>13. \A f : PayRead(f)' = PayRead(f)
  BY <1>5, <1>6, <1>9, <1>10 DEF PayRead
<1>14. /\ DOMAIN s = DOMAIN slips \cup {e} /\ s[e] = slip
       /\ \A f \in DOMAIN slips : s[f] = slips[f]
  BY <1>3, <1>12
<1>15. run[m].state # "completed"
  <2>1. work # NoWork
    BY <1>1, WorkHasShape
  <2> QED
    BY <2>1 DEF PayInvariant, WorkIsOpen
<1>16. WorkIsOpen'
  BY <1>5, <1>6, <1>9, <1>15 DEF WorkIsOpen
<1>17. /\ t.of = Cardinality(DOMAIN s)
       /\ t.net = SlipsSum(s, "net")
       /\ t.deducted = SlipsSum(s, "deducted")
  <2>1. /\ t.of = work.totals.of + 1 /\ t.deducted = work.totals.deducted + slip.deducted
        /\ t.net = work.totals.net + slip.net
    BY <1>7 DEF Plus
  <2>2. Cardinality(DOMAIN slips \cup {e}) = Cardinality(DOMAIN slips) + 1
    BY <1>12, FS_AddElement
  <2>3. /\ slip.net \in Int /\ slip.deducted \in Int
        /\ \A f \in DOMAIN slips : slips[f].net \in Int /\ slips[f].deducted \in Int
    BY <1>1, <1>11, <1>12, ItemsAreNumbers
  <2>4. \A f \in DOMAIN slips : slips[f]["net"] \in Int /\ slips[f]["deducted"] \in Int
    BY <2>3
  <2>5. slip["net"] \in Int /\ slip["deducted"] \in Int
    BY <2>3
  <2>6. \A field \in {"net", "deducted"} :
          SlipsSum(s, field) = SlipsSum(slips, field) + slip[field]
    <3> SUFFICES ASSUME NEW field \in {"net", "deducted"}
                 PROVE  SlipsSum(s, field) = SlipsSum(slips, field) + slip[field]
      OBVIOUS
    <3>1. slip[field] \in Int /\ \A f \in DOMAIN slips : slips[f][field] \in Int
      BY <2>4, <2>5
    <3>2. HasOneMore(s, slips, e, field)
      BY <1>12, <1>14, <3>1 DEF HasOneMore
    <3> HIDE DEF m, slips
    <3>3. SlipsSum(s, field) = SlipsSum(slips, field) + s[e][field]
      BY ONLY <3>2, SlipsSumGrows
    <3> QED
      BY <1>14, <3>3
  <2>7. /\ SlipsSum(s, "net") = SlipsSum(slips, "net") + slip.net
        /\ SlipsSum(s, "deducted") = SlipsSum(slips, "deducted") + slip.deducted
    BY <2>6
  <2> QED
    BY <1>11, <1>14, <2>1, <2>2, <2>7
<1>18. WorkIsCounted'
  <2>1. run'[work'.month].slips = s
    BY <1>5, <1>6, <1>9
  <2>2. \A f \in DOMAIN s : s[f] = PayRead(f)'
    BY <1>1, <1>11, <1>13, <1>14
  <2>3. DOMAIN s \cup work'.todo \subseteq DOMAIN worker' /\ DOMAIN s \cap work'.todo = {}
    BY <1>7, <1>9, <1>10, <1>11, <1>12, <1>14
  <2>4. \A f \in DOMAIN worker' : work'.input[f] \in InputRows
    BY <1>9, <1>10, <1>11
  <2>5. work'.stage = "pay" /\ work'.totals = t
    BY <1>9
  <2> QED
    BY <1>17, <2>1, <2>2, <2>3, <2>4, <2>5 DEF WorkIsCounted
<1>19. WorkIsCurrent'
  <2>1. \A f : PayOf(f, m)' = PayOf(f, m)
    BY <1>5, <1>6, <1>9, <1>10 DEF PayOf
  <2> QED
    BY <1>1, <1>9, <1>10, <1>13, <2>1 DEF WorkIsCurrent, PayInvariant
<1>20. SlipsAreOfWorkers' /\ SlipsAreCurrent' /\ TotalsMatchSlips'
  <2>1. run'[m].state # "completed" /\ DOMAIN run'[m].slips \subseteq DOMAIN worker
    BY <1>5, <1>6, <1>11, <1>12, <1>14, <1>15
  <2>2. unread \ {m} \subseteq unread'
    BY <1>1
  <2> QED
    BY <1>1, <1>2, <1>6, <2>1, <2>2, OtherRunsPay
<1> QED
  BY <1>16, <1>18, <1>19, <1>20 DEF PayInvariant

\* Whoever is passed over has no item.
LEMMA SkipWorkerPays ==
  ASSUME SlipsInvariant, PayInvariant, NEW e \in Workers, SkipWorker(e)
  PROVE  PayInvariant'
<1> DEFINE m == work.month
<1>1. /\ work.stage = "pay" /\ work' = [work EXCEPT !.todo = @ \ {e}]
      /\ UNCHANGED <<run, unread>> /\ SameBooks
  BY DEF SkipWorker
<1>2. work' = [month |-> m, stage |-> "pay", claim |-> work.claim, input |-> work.input,
               todo |-> work.todo \ {e}, totals |-> work.totals]
  <2>1. work = [month |-> work.month, stage |-> work.stage, claim |-> work.claim,
                input |-> work.input, todo |-> work.todo, totals |-> work.totals]
    BY WorkHasShape
  <2> QED
    BY <1>1, <2>1
<1>3. /\ work'.month = m /\ work'.stage = "pay" /\ work'.claim = work.claim
      /\ work'.input = work.input /\ work'.todo = work.todo \ {e}
      /\ work'.totals = work.totals
  BY ONLY <1>2
<1>4. UNCHANGED <<worker, claim, input>>
  BY <1>1 DEF SameBooks, SameClaims
<1>5. (\A f : PayRead(f)' = PayRead(f)) /\ (\A f : PayOf(f, m)' = PayOf(f, m))
  BY <1>1, <1>3, <1>4 DEF PayRead, PayOf
<1>6. m \in Months /\ run[m].state # "completed" /\ work # NoWork
  BY <1>1, WorkHasShape DEF PayInvariant, WorkIsOpen
<1>7. WorkIsOpen'
  BY <1>1, <1>3, <1>6 DEF WorkIsOpen
<1>8. WorkIsCounted'
  BY <1>1, <1>3, <1>4, <1>5 DEF PayInvariant, WorkIsCounted
<1>9. WorkIsCurrent'
  BY <1>1, <1>3, <1>4, <1>5 DEF PayInvariant, WorkIsCurrent
<1>10. SlipsAreOfWorkers' /\ SlipsAreCurrent' /\ TotalsMatchSlips'
  <2>1. run'[m].state # "completed" /\ DOMAIN run'[m].slips \subseteq DOMAIN worker
    BY <1>1, <1>6 DEF PayInvariant, SlipsAreOfWorkers
  <2>2. unread \ {m} \subseteq unread' /\ \A n \in Months \ {m} : run'[n] = run[n]
    BY <1>1
  <2> QED
    BY <1>1, <1>6, <2>1, <2>2, OtherRunsPay
<1> QED
  BY <1>7, <1>8, <1>9, <1>10 DEF PayInvariant

\* A run completes with the totals of its items, and these are what the books say.
LEMMA CloseRunPays ==
  ASSUME SlipsInvariant, PayInvariant, CloseRun
  PROVE  PayInvariant'
<1> DEFINE m == work.month
<1>1. /\ work.stage = "pay"
      /\ run' = [run EXCEPT ![m].state = "completed", ![m].totals = work.totals]
      /\ work' = NoWork /\ UNCHANGED unread /\ SameBooks
  BY DEF CloseRun
<1>2. m \in Months /\ IsRun(run[m]) /\ run = [n \in Months |-> run[n]]
  BY <1>1, WorkHasShape, RunsHaveShapes
<1>3. PICK r : /\ r = [run[m] EXCEPT !.state = "completed", !.totals = work.totals]
               /\ run' = [run EXCEPT ![m] = r]
  BY <1>1, <1>2
<1>4. r.slips = run[m].slips /\ r.totals = work.totals /\ r.fares = run[m].fares
  BY <1>2, <1>3 DEF IsRun
<1>5. run'[m] = r /\ \A n \in Months \ {m} : run'[n] = run[n]
  BY <1>2, <1>3
<1>6. UNCHANGED <<worker, claim, input>>
  BY <1>1 DEF SameBooks, SameClaims
<1>7. WorkIsOpen' /\ WorkIsCounted' /\ WorkIsCurrent'
  <2>1. work'.stage = "none"
    BY <1>1 DEF NoWork
  <2> QED
    BY <1>1, <2>1, NotPaying DEF WorkIsOpen
<1>8. SlipsAreOfWorkers'
  BY <1>4, <1>5, <1>6 DEF PayInvariant, SlipsAreOfWorkers
<1>9. SlipsAreCurrent'
  <2> SUFFICES ASSUME NEW n \in Months, n \notin unread', run'[n].state = "completed",
                      NEW e \in Workers, e \in DOMAIN run'[n].slips
               PROVE  run'[n].slips[e]
                        = Slip(Riding(worker[e], run'[n].fares), e, n, claim, input[e][n])
    BY <1>6 DEF SlipsAreCurrent, Booked
  <2>1. CASE n # m
    <3>1. n \notin unread /\ run'[n] = run[n]
      BY <1>1, <1>5, <2>1
    <3>2. run[n].state = "completed" /\ e \in Booked(n)
      BY <3>1 DEF Booked
    <3>3. SlipsAreCurrent
      BY DEF PayInvariant
    <3>4. run[n].slips[e] = Slip(Riding(worker[e], run[n].fares), e, n, claim, input[e][n])
      BY ONLY <3>1, <3>2, <3>3, n \in Months DEF SlipsAreCurrent
    <3> QED
      BY <3>1, <3>4
  <2>2. CASE n = m
    <3>1. /\ e \in DOMAIN run[m].slips /\ run'[n].slips = run[m].slips
          /\ run'[n].fares = run[m].fares
      BY <1>4, <1>5, <2>2
    <3>2. run[m].slips[e] = PayRead(e) /\ e \in DOMAIN worker
      BY <1>1, <3>1 DEF PayInvariant, WorkIsCounted
    <3>3. PayRead(e) = PayOf(e, m)
      BY <1>1, <2>2, <3>2 DEF PayInvariant, WorkIsCurrent
    <3> QED
      BY <2>2, <3>1, <3>2, <3>3 DEF PayOf
  <2> QED
    BY <2>1, <2>2
<1>10. TotalsMatchSlips'
  <2> SUFFICES ASSUME NEW n \in Months, run'[n].state = "completed"
               PROVE  /\ run'[n].totals.of = Cardinality(Booked(n)')
                      /\ run'[n].totals.net = SlipsSum(run'[n].slips, "net")
                      /\ run'[n].totals.deducted = SlipsSum(run'[n].slips, "deducted")
    BY DEF TotalsMatchSlips
  <2>1. CASE n # m
    BY <1>5, <2>1 DEF PayInvariant, TotalsMatchSlips, Booked
  <2>2. CASE n = m
    <3>1. run'[n].slips = run[m].slips /\ run'[n].totals = work.totals
      BY <1>4, <1>5, <2>2
    <3>2. Booked(n)' = DOMAIN run[m].slips
      BY <1>2, <3>1, RunsHaveShapes DEF Booked
    <3> QED
      BY <1>1, <3>1, <3>2 DEF PayInvariant, WorkIsCounted
  <2> QED
    BY <2>1, <2>2
<1> QED
  BY <1>7, <1>8, <1>9, <1>10 DEF PayInvariant

\* A run that fails keeps its items and is not complete.
LEMMA FailRunPays ==
  ASSUME SlipsInvariant, PayInvariant, FailRun
  PROVE  PayInvariant'
<1> DEFINE m == work.month
<1>1. /\ work # NoWork
      /\ run' = [run EXCEPT ![m].state = "failed"]
      /\ work' = NoWork /\ UNCHANGED unread /\ SameBooks
  BY DEF FailRun
<1>2. m \in Months /\ IsRun(run[m]) /\ run = [n \in Months |-> run[n]]
  BY <1>1, WorkHasShape, RunsHaveShapes
<1>3. PICK r : r = [run[m] EXCEPT !.state = "failed"] /\ run' = [run EXCEPT ![m] = r]
  BY <1>1, <1>2
<1>4. r.slips = run[m].slips /\ r.state = "failed"
  BY <1>2, <1>3 DEF IsRun
<1>5. run'[m] = r /\ \A n \in Months \ {m} : run'[n] = run[n]
  BY <1>2, <1>3
<1>6. WorkIsOpen' /\ WorkIsCounted' /\ WorkIsCurrent'
  <2>1. work'.stage = "none"
    BY <1>1 DEF NoWork
  <2> QED
    BY <1>1, <2>1, NotPaying DEF WorkIsOpen
<1>7. SlipsAreOfWorkers' /\ SlipsAreCurrent' /\ TotalsMatchSlips'
  <2>1. run'[m].state # "completed" /\ DOMAIN run'[m].slips \subseteq DOMAIN worker
    BY <1>2, <1>4, <1>5 DEF PayInvariant, SlipsAreOfWorkers
  <2>2. unread \ {m} \subseteq unread'
    BY <1>1
  <2> QED
    BY <1>1, <1>2, <1>5, <2>1, <2>2, OtherRunsPay
<1> QED
  BY <1>6, <1>7 DEF PayInvariant

\* Steps of receipts, of time and of nothing
LEMMA QuietPays ==
  ASSUME SlipsInvariant, PayInvariant, UNCHANGED <<worker, run, work, claim, input, unread>>
  PROVE  PayInvariant'
<1>1. SlipsAreOfWorkers' /\ WorkIsOpen'
  BY DEF PayInvariant, SlipsAreOfWorkers, WorkIsOpen, NoWork
<1>2. (\A e : PayRead(e)' = PayRead(e)) /\ (\A e, m : PayOf(e, m)' = PayOf(e, m))
  BY DEF PayRead, PayOf
<1>3. WorkIsCounted' /\ WorkIsCurrent'
  BY <1>2 DEF PayInvariant, WorkIsCounted, WorkIsCurrent
<1>4. SlipsAreCurrent' /\ TotalsMatchSlips'
  BY DEF PayInvariant, SlipsAreCurrent, TotalsMatchSlips, Booked
<1> QED
  BY <1>1, <1>3, <1>4 DEF PayInvariant

-----------------------------------------------------------------------------
(* What is paid adds up *)

\* At the start nothing is calculated.
LEMMA PayBegins ==
  ASSUME PayslipsInit
  PROVE  PayInvariant
<1>1. run = [m \in Months |-> NotRun] /\ work = NoWork
  BY DEF PayslipsInit
<1>2. /\ NotRun.state = "none" /\ NotRun.slips = << >> /\ DOMAIN << >> = {}
      /\ NoWork.stage = "none"
  BY DEF NotRun, NoWork
<1>3. SlipsAreOfWorkers /\ WorkIsOpen /\ WorkIsCounted /\ WorkIsCurrent
  BY <1>1, <1>2 DEF SlipsAreOfWorkers, WorkIsOpen, WorkIsCounted, WorkIsCurrent
<1>4. SlipsAreCurrent /\ TotalsMatchSlips
  BY <1>1, <1>2 DEF SlipsAreCurrent, TotalsMatchSlips
<1> QED
  BY <1>3, <1>4 DEF PayInvariant

\* Every step preserves the invariant.
LEMMA PayGoesOn ==
  ASSUME SlipsInvariant, PayInvariant, [PayslipsNext]_payslipVars
  PROVE  PayInvariant'
<1>1. CASE UNCHANGED payslipVars
  BY <1>1, QuietPays DEF payslipVars
<1>2. CASE StartSlips
  <2>1. ASSUME NEW c \in Claims, CreateClaim(c) \/ UpdateClaim(c)
        PROVE  PayInvariant'
    BY <2>1, ClaimsPay
  <2>2. ASSUME NEW p \in Secretaries, NEW c \in Claims, ReadForTrash(p, c)
        PROVE  PayInvariant'
    BY <2>2, ReadingPays DEF ReadForTrash, SameClaims
  <2>3. ASSUME NEW p \in Secretaries, NEW h \in DOMAIN trashed, ReadFromTrash(p, h)
        PROVE  PayInvariant'
    BY <2>3, ReadingPays DEF ReadFromTrash, SameClaims
  <2>4. ASSUME NEW h \in DOMAIN trashed, DeleteEntry(h)
        PROVE  PayInvariant'
    BY <2>4, ReadingPays DEF DeleteEntry
  <2>5. ASSUME NEW e \in Workers, NEW m \in Months, UpsertInput(e, m)
        PROVE  PayInvariant'
    BY <2>5, InputsPay
  <2>6. ASSUME NEW m \in Months, OpenRun(m) \/ RetryRun(m)
        PROVE  PayInvariant'
    BY <2>6, OpenRunPays, RetryRunPays
  <2>7. ASSUME NEW E \in SUBSET Workers, NEW m \in Months,
               SignReceipts(E, m) \/ WithdrawReceipts(E, m)
        PROVE  PayInvariant'
    BY <2>7, QuietPays DEF SignReceipts, WithdrawReceipts, SameWork, SameBooks, SameClaims
  <2>8. CASE MonthPasses
    BY <2>8, QuietPays DEF MonthPasses, SameBooks, SameClaims
  <2> QED
    BY <1>2, <2>1, <2>2, <2>3, <2>4, <2>5, <2>6, <2>7, <2>8 DEF StartSlips
<1>3. CASE ContinueSlips
  <2>1. ASSUME NEW p \in Secretaries, TrashClaim(p) \/ RestoreClaim(p) \/ AbandonLetter(p)
        PROVE  PayInvariant'
    BY <2>1, TrashPays
  <2>2. ASSUME NEW e \in Workers, PayWorker(e) \/ SkipWorker(e)
        PROVE  PayInvariant'
    BY <2>2, PayWorkerPays, SkipWorkerPays
  <2>3. CASE ReadBooks \/ CloseRun \/ FailRun
    BY <2>3, ReadBooksPays, CloseRunPays, FailRunPays
  <2> QED
    BY <1>3, <2>1, <2>2, <2>3 DEF ContinueSlips
<1> QED
  BY <1>1, <1>2, <1>3 DEF PayslipsNext

\* For any employees, days, leaves, claims, inputs and months: the items of a completed run
\* are what the books of its month say unless these have changed since; its totals are
\* those of its items, also after failed attempts and employees that were passed over; the
\* pay of a month is the sum of its days if leaves are clear; an input of money leaves the
\* attendance alone; a settlement on the last day of a month pays what its item does.
THEOREM PayAlwaysAddsUp == PayslipsSpec => []PayAddsUp
<1>1. PayslipsInit => PayInvariant
  BY PayBegins
<1>2. SlipsInvariant /\ PayInvariant /\ [PayslipsNext]_payslipVars => PayInvariant'
  BY PayGoesOn
<1>3. PayslipsSpec => []PayInvariant
  BY <1>1, <1>2, SlipsInvariantHolds, PTL DEF PayslipsSpec
<1>4. SlipsInvariant /\ PayInvariant => PayAddsUp
  BY BooksPayDays, BooksSettleSlips DEF PayInvariant, PayAddsUp, SlipsInvariant, ShapesOK
<1> QED
  BY <1>3, <1>4, SlipsInvariantHolds, PTL
=============================================================================
