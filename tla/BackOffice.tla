------------------------------ MODULE BackOffice ------------------------------
(***************************************************************************)
(* The office: the invoices of both sides, the representatives' vans, the  *)
(* synchronisation of two sites and leave requests.  They share no row     *)
(* that a property is about.                                               *)
(***************************************************************************)
EXTENDS SalesInvoices, PurchaseInvoices, Representatives, Synchronisation, Leaves

OfficeSpec == SalesSpec /\ PurchaseSpec /\ RepSpec /\ SyncSpec /\ LeavesSpec

-----------------------------------------------------------------------------
(* Properties *)

\* The types of the five components.
OfficeTypeOK ==
  SalesInvoicesTypeOK /\ PurchaseInvoicesTypeOK /\ RepTypeOK /\ SyncTypeOK /\ LeavesTypeOK

\* What sales and purchase invoices show as paid was recorded, and what the
\* customer owes stays within the credit limit.
MoneyIsKept == PaidWithinTotal /\ PaidWasRecorded /\ OutstandingWithinLimit
=============================================================================
