----------------------------- MODULE Inventory -----------------------------
(***************************************************************************)
(* The stock mutations of InventoryService                                 *)
(* (src/backend-nest/src/inventory/inventory.service.ts), run by           *)
(* concurrent database transactions.                                       *)
(*                                                                         *)
(* Every service that moves stock (sales, purchasing, invoices, batches,   *)
(* cycle counts, locations) opens a Prisma transaction and calls           *)
(* applyStockChangeWithin, reserveStockWithin and                          *)
(* releaseReservationWithin inside it.  A transaction is here a script, a  *)
(* sequence of such calls.  Prisma runs it at PostgreSQL's default         *)
(* isolation, READ COMMITTED: a plain SELECT sees the committed version of *)
(* a row (or the transaction's own), an UPDATE waits for the row's lock    *)
(* and works on the version it then finds, and locks are kept until the    *)
(* transaction ends.                                                       *)
(***************************************************************************)
EXTENDS StockRow

CONSTANTS
  Procs,     \* the requests in progress, one transaction each
  NoProc,    \* the owner of a row nobody has locked
  Scripts    \* the transactions that callers run

ASSUME NoProcAssumption == NoProc \notin Procs
ASSUME ScriptsAssumption == Scripts \subseteq Seq(Call)

-----------------------------------------------------------------------------
VARIABLES
  stock,     \* stock[k]: the committed version of row k
  latest,    \* latest[k]: its newest version, committed or not
  owner,     \* owner[k]: who holds the row's lock
  script,    \* script[p]: the calls p's transaction has still to make
  pc         \* pc[p]: "idle", "open", or "checked" between the two statements
             \* of one applyStockChangeWithin

stockVars == <<stock, latest, owner, script, pc>>

StockInit ==
  /\ stock = [k \in Rows |-> OpeningRow(Opening[k])]
  /\ latest = stock
  /\ owner = [k \in Rows |-> NoProc]
  /\ script = [p \in Procs |-> << >>]
  /\ pc = [p \in Procs |-> "idle"]

\* What a SELECT of p sees of row k.
Seen(p, k) == IF owner[k] = p THEN latest[k] ELSE stock[k]

Current(p) == Head(script[p])

Calling(p, op) == script[p] # << >> /\ Current(p).op = op

\* The row lock an UPDATE needs is free or already p's.
CanLock(p, k) == owner[k] \in {NoProc, p}

-----------------------------------------------------------------------------
(* Transactions *)

\* prisma.$transaction: BEGIN
Begin(p, s) ==
  /\ pc[p] = "idle"
  /\ pc' = [pc EXCEPT ![p] = "open"]
  /\ script' = [script EXCEPT ![p] = s]
  /\ UNCHANGED <<stock, latest, owner>>

Unlocked(p) == [k \in Rows |-> IF owner[k] = p THEN NoProc ELSE owner[k]]

Ended(p) ==
  /\ owner' = Unlocked(p)
  /\ pc' = [pc EXCEPT ![p] = "idle"]
  /\ script' = [script EXCEPT ![p] = << >>]

\* COMMIT, once the callback has returned
Commit(p) ==
  /\ pc[p] = "open"
  /\ script[p] = << >>
  /\ stock' = [k \in Rows |-> IF owner[k] = p THEN latest[k] ELSE stock[k]]
  /\ UNCHANGED latest
  /\ Ended(p)

\* ROLLBACK, when the callback throws or the connection is lost
Rollback(p) ==
  /\ latest' = [k \in Rows |-> IF owner[k] = p THEN stock[k] ELSE latest[k]]
  /\ UNCHANGED stock
  /\ Ended(p)

\* Mutant of Wrote: each call commits on its own.
WroteAndCommitted(p, k, r) ==
  /\ latest' = [latest EXCEPT ![k] = r]
  /\ stock' = [stock EXCEPT ![k] = r]
  /\ script' = [script EXCEPT ![p] = Tail(@)]
  /\ pc' = [pc EXCEPT ![p] = "open"]
  /\ UNCHANGED owner

\* One call has succeeded with row k now r: go on with the next.
Wrote(p, k, r) ==
  /\ latest' = [latest EXCEPT ![k] = r]
  /\ owner' = [owner EXCEPT ![k] = p]
  /\ script' = [script EXCEPT ![p] = Tail(@)]
  /\ pc' = [pc EXCEPT ![p] = "open"]
  /\ UNCHANGED stock

\* PostgreSQL makes p wait for a row that q has locked.
WaitsFor(p, q) ==
  /\ pc[p] # "idle"
  /\ script[p] # << >>
  /\ \/ Current(p).op # "apply"
     \/ Current(p).n > 0
     \/ pc[p] = "checked"
  /\ q # p
  /\ owner[Current(p).row] = q

-----------------------------------------------------------------------------
(* The service methods *)

\* applyStockChangeWithin and the two others validate their amount first.
BadAmount(p) ==
  /\ pc[p] = "open"
  /\ script[p] # << >>
  /\ ~ValidAmount(Current(p))
  /\ Rollback(p)

\* applyStockChangeWithin, a deduction: is there enough on hand?
CheckOnHand(p) ==
  /\ pc[p] = "open"
  /\ Calling(p, "apply")
  /\ Current(p).n < 0
  /\ IF Seen(p, Current(p).row).quantity + Current(p).n < 0
     THEN Rollback(p)
     ELSE /\ pc' = [pc EXCEPT ![p] = "checked"]
          /\ UNCHANGED <<stock, latest, owner, script>>

\* applyStockChangeWithin: the upsert and the movement.
ApplyStockChange(p) ==
  /\ Calling(p, "apply")
  /\ IF Current(p).n > 0 THEN pc[p] = "open" ELSE pc[p] = "checked"
  /\ LET k == Current(p).row
     IN  /\ CanLock(p, k)
         /\ Wrote(p, k, Applied(latest[k], Current(p).n))

\* Mutant of ReserveStock: wait for stock inside the transaction.
ReserveWhenAvailable(p) ==
  /\ pc[p] = "open"
  /\ Calling(p, "reserve")
  /\ Current(p).n > 0
  /\ LET k == Current(p).row
         n == Current(p).n
     IN  /\ CanLock(p, k)
         /\ CanReserve(latest[k], n)
         /\ Wrote(p, k, Reserved(latest[k], n))

\* reserveStockWithin
ReserveStock(p) ==
  /\ pc[p] = "open"
  /\ Calling(p, "reserve")
  /\ Current(p).n > 0
  /\ LET k == Current(p).row
         n == Current(p).n
     IN  /\ CanLock(p, k)
         /\ IF CanReserve(latest[k], n)
            THEN Wrote(p, k, Reserved(latest[k], n))
            ELSE Rollback(p)

\* releaseReservationWithin
ReleaseReservation(p) ==
  /\ pc[p] = "open"
  /\ Calling(p, "release")
  /\ Current(p).n > 0
  /\ LET k == Current(p).row
         n == Current(p).n
     IN  /\ CanLock(p, k)
         /\ IF CanRelease(latest[k], n)
            THEN Wrote(p, k, Released(latest[k], n))
            ELSE Rollback(p)

\* The statements of an open transaction.
Statement(p) ==
  \/ BadAmount(p)
  \/ CheckOnHand(p)
  \/ ApplyStockChange(p)
  \/ ReserveStock(p)
  \/ ReleaseReservation(p)

\* PostgreSQL aborts a transaction of a cycle of lock waits.
DeadlockVictim(p) ==
  /\ \E D \in SUBSET Procs :
       p \in D /\ \A q \in D : \E r \in D : WaitsFor(q, r)
  /\ Rollback(p)

\* The interactive-transaction timeout, a lost connection, a crash.
Interrupt(p) ==
  /\ pc[p] # "idle"
  /\ Rollback(p)

StockNext ==
  \E p \in Procs :
    \/ \E s \in Scripts : Begin(p, s)
    \/ BadAmount(p)
    \/ CheckOnHand(p)
    \/ ApplyStockChange(p)
    \/ ReserveStock(p)
    \/ ReleaseReservation(p)
    \/ Commit(p)
    \/ DeadlockVictim(p)
    \/ Interrupt(p)

StockSpec == StockInit /\ [][StockNext]_stockVars

(***************************************************************************)
(* Fairness.  A started request keeps executing: Node's event loop and     *)
(* PostgreSQL both go on.  Row locks are granted in the order they were    *)
(* requested, so a transaction that can take its row again and again in    *)
(* the end does: SF on the statements.  The deadlock detector runs while a *)
(* cycle lasts.  Nothing makes a crash or a timeout happen.                *)
(***************************************************************************)
StockFairness ==
  \A p \in Procs :
    /\ SF_stockVars(Statement(p))
    /\ WF_stockVars(Commit(p))
    /\ WF_stockVars(DeadlockVictim(p))

-----------------------------------------------------------------------------
(* Properties *)

\* Types, and what the lock table means: an unlocked row has no uncommitted
\* version, and only an open transaction holds locks.
StockTypeOK ==
  /\ stock \in [Rows -> Row]
  /\ latest \in [Rows -> Row]
  /\ owner \in [Rows -> Procs \cup {NoProc}]
  /\ script \in [Procs -> Seq(Call)]
  /\ pc \in [Procs -> {"idle", "open", "checked"}]

LockDiscipline ==
  \A k \in Rows :
    /\ owner[k] = NoProc => latest[k] = stock[k]
    /\ \A p \in Procs : owner[k] = p => pc[p] # "idle"

\* Reservations reconcile with their journal: whatever transactions interleave,
\* roll back or crash, stock_levels.reserved is the sum of the row's RESERVE and
\* RELEASE movements, in the committed and in the uncommitted version.
ReservedMatchesJournal ==
  \A k \in Rows :
    /\ stock[k].reserved = stock[k].held
    /\ latest[k].reserved = latest[k].held

\* The stock the movements account for is never missing from the row.  The
\* converse fails: a deduction that overtakes another is clamped at zero while
\* its movement is recorded in full (GREATEST in applyStockChangeWithin).
OnHandCoversJournal == \A k \in Rows : stock[k].quantity >= stock[k].moved

\* available is never below what is on hand and unreserved: the two writers of
\* available (the recomputation in the upsert and the increments of the
\* reservation calls) cannot lose sellable stock.
NoLostAvailability ==
  \A k \in Rows : stock[k].available >= stock[k].quantity - stock[k].reserved

\* Strict two-phase locking makes the committed rows change as if every
\* transaction ran alone and at once: no lost update, no half-applied script,
\* no reservation granted from units another transaction has taken.
Atomic == INSTANCE AtomicStock WITH Rows <- Rows, Opening <- Opening, Scripts <- Scripts, stock <- stock

TransactionsAreAtomic == Atomic!Spec

\* Every transaction ends, deadlocked or not.
TransactionsEnd == \A p \in Procs : pc[p] # "idle" ~> pc[p] = "idle"

\* What the comment on applyStockChangeWithin promises: "Validation that must
\* observe the same snapshot as the write (product exists, sufficient stock on
\* hand) is performed HERE" - so no deduction is ever clamped and the on-hand
\* quantity is what the movements say.
QuantityMatchesJournal == \A k \in Rows : stock[k].quantity = stock[k].moved
=============================================================================
