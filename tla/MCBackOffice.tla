---------------------------- MODULE MCBackOffice ----------------------------
(***************************************************************************)
(* The office for TLC: a behaviour runs the component that `part' names.   *)
(* All requests, and the clock and the ticks of the synchronisation, are   *)
(* bounded.                                                                *)
(***************************************************************************)
EXTENDS BackOffice, TLC

CONSTANTS
  MaxSalesRequests, MaxPurchaseRequests, MaxVanRequests, MaxSyncSteps, MaxTime,
  MaxLeaveRequests

VARIABLES
  part,    \* the component that runs
  left     \* how many of its requests, or of the writes and ticks, may still begin

\* One item, two of them, or two lines of one each.
MCBaskets == {<<1>>, <<2>>, <<1, 1>>}

\* The third day is in the next month.
MCMonthOf == <<1, 1, 2>>
\* Two days, two of which the second is in another month, one day.
MCSpans == {<<1, 2>>, <<2, 3>>, <<3, 3>>}

MaxRequests ==
  [sales |-> MaxSalesRequests, purchases |-> MaxPurchaseRequests, vans |-> MaxVanRequests,
   sync |-> MaxSyncSteps, leaves |-> MaxLeaveRequests]

MCInit ==
  /\ part \in DOMAIN MaxRequests
  /\ left = MaxRequests[part]
  /\ SalesInit
  /\ PurchaseInit
  /\ RepInit
  /\ SyncInit
  /\ LeavesInit

Asking == left > 0 /\ left' = left - 1 /\ UNCHANGED part
Going == UNCHANGED <<part, left>>

SalesSide ==
  \/ \E i \in Invoices : CreateSalesInvoice(i) /\ Going
  \/ \E c \in Clerks : StartSales(c) /\ Asking
  \/ \E c \in Clerks : ContinueSales(c) /\ Going

PurchaseSide ==
  \/ \E b \in Bills : CreatePurchaseInvoice(b) /\ Going
  \/ \E c \in Buyers : StartPurchase(c) /\ Asking
  \/ \E c \in Buyers : ContinuePurchase(c) /\ Going

Vans ==
  \/ \E a \in Agents : StartRep(a) /\ Asking
  \/ \E a \in Agents : ContinueRep(a) /\ Going

TwoSites ==
  \/ Pass /\ clock < MaxTime /\ Going
  \/ BeginTick /\ Asking
  \/ \E s \in Sites : Use(s) /\ Asking
  \/ Work /\ Going

LeaveDesk ==
  \/ \E p \in DeskClerks : StartLeave(p) /\ Asking
  \/ \E p \in DeskClerks : ContinueLeave(p) /\ Going

MCNext ==
  \/ part = "sales" /\ SalesSide /\ UNCHANGED <<purchaseVars, repVars, syncVars, leaveVars>>
  \/ part = "purchases" /\ PurchaseSide /\ UNCHANGED <<salesVars, repVars, syncVars, leaveVars>>
  \/ part = "vans" /\ Vans /\ UNCHANGED <<salesVars, purchaseVars, syncVars, leaveVars>>
  \/ part = "sync" /\ TwoSites /\ UNCHANGED <<salesVars, purchaseVars, repVars, leaveVars>>
  \/ part = "leaves" /\ LeaveDesk /\ UNCHANGED <<salesVars, purchaseVars, repVars, syncVars>>

MCSpec ==
  MCInit /\ [][MCNext]_<<salesVars, purchaseVars, repVars, syncVars, leaveVars, part, left>>

\* The requests of the components are the same two, and so are their rows.
Symmetry == Permutations(Clerks) \cup Permutations(Invoices)
=============================================================================
