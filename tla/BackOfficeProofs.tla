---------------------------- MODULE BackOfficeProofs ----------------------------
(***************************************************************************)
(* Proofs about the office.  Invoices of both sides, for any finite set of *)
(* invoices and lines and any number of requests: goods have moved with    *)
(* what is posted, payments with what was recorded, and no customer owes   *)
(* more than the limit.  Then the representatives' vans, the               *)
(* synchronisation of two sites and leave requests, and what all of these  *)
(* come to together.                                                       *)
(***************************************************************************)
EXTENDS BackOffice, Sums, SequenceTheorems

-----------------------------------------------------------------------------
(* What the books of a document come to *)

\* A balance is a sum over the entries.
LEMMA BalanceIsSum ==
  ASSUME NEW entries
  PROVE  Balance(entries) = SumFunctionOnSet(entries, DOMAIN entries)
BY Zenon DEF Balance, MapThenSumSet, SumFunctionOnSet, FoldFunctionOnSet

\* Nothing is booked before there is an entry.
LEMMA NothingBooked == DOMAIN NoEntries = {} /\ Balance(NoEntries) = 0
<1>1. DOMAIN NoEntries = {}
  BY DEF NoEntries
<1> QED
  BY <1>1, BalanceIsSum, SumOfNothing

\* A new entry adds its value to the balance.
LEMMA BookingAdds ==
  ASSUME NEW entries, IsFiniteSet(DOMAIN entries), \A r \in DOMAIN entries : entries[r] \in Int,
         NEW ref, ref \notin DOMAIN entries, NEW value \in Int
  PROVE  /\ Balance(Booked(entries, ref, value)) = Balance(entries) + value
         /\ DOMAIN Booked(entries, ref, value) \subseteq DOMAIN entries \cup {ref}
         /\ \A r \in DOMAIN Booked(entries, ref, value) : Booked(entries, ref, value)[r] \in Int
         /\ IsFiniteSet(DOMAIN Booked(entries, ref, value))
<1>1. CASE value = 0
  <2>1. Booked(entries, ref, value) = entries
    BY <1>1 DEF Booked
  <2>2. Balance(entries) \in Int
    BY BalanceIsSum, SumIsInt
  <2> QED
    BY <1>1, <2>1, <2>2
<1>2. CASE value # 0
  <2> PICK S, booked : S = DOMAIN entries /\ booked = Booked(entries, ref, value)
    OBVIOUS
  <2>1. booked = [r \in S \cup {ref} |-> IF r = ref THEN value ELSE entries[r]]
    BY <1>2 DEF Booked
  <2>2. /\ DOMAIN booked = S \cup {ref} /\ booked[ref] = value
        /\ \A r \in S : booked[r] = entries[r]
    BY <2>1
  <2>3. IsFiniteSet(S) /\ ref \notin S
    OBVIOUS
  <2>4. \A r \in S \cup {ref} : booked[r] \in Int
    BY <2>2
  <2>5. SumFunctionOnSet(booked, S \cup {ref}) = SumFunctionOnSet(booked, S) + value
    BY <2>2, <2>3, <2>4, SumGainsElement
  <2>6. SumFunctionOnSet(booked, S) = SumFunctionOnSet(entries, S)
    BY <2>2, <2>3, SumOfEquals
  <2>7. Balance(booked) = Balance(entries) + value
    BY <2>2, <2>5, <2>6, BalanceIsSum
  <2>8. IsFiniteSet(S \cup {ref})
    BY <2>3, FS_AddElement
  <2> QED
    BY <2>2, <2>4, <2>7, <2>8
<1> QED
  BY <1>1, <1>2

\* A posting shows its value until it is reversed.
LEMMA PostedAndReversed ==
  ASSUME NEW value \in Int
  PROVE  LET posted == Booked(NoEntries, "post", value)
             back == Booked(posted, "reverse", -value)
         IN  /\ Balance(posted) = value /\ DOMAIN posted \subseteq {"post"}
             /\ Balance(back) = 0 /\ DOMAIN back \subseteq {"post", "reverse"}
<1> PICK posted, back : /\ posted = Booked(NoEntries, "post", value)
                        /\ back = Booked(posted, "reverse", -value)
  OBVIOUS
<1>1. IsFiniteSet(DOMAIN NoEntries)
  BY NothingBooked, FS_EmptySet
<1>2. /\ Balance(posted) = Balance(NoEntries) + value
      /\ DOMAIN posted \subseteq {"post"} /\ IsFiniteSet(DOMAIN posted)
      /\ \A r \in DOMAIN posted : posted[r] \in Int
  BY <1>1, NothingBooked, BookingAdds
<1>3. -value \in Int /\ "reverse" \notin DOMAIN posted
  BY <1>2
<1>4. /\ Balance(back) = Balance(posted) + (-value)
      /\ DOMAIN back \subseteq DOMAIN posted \cup {"reverse"}
  BY <1>2, <1>3, BookingAdds
<1> QED
  BY <1>2, <1>4, NothingBooked

-----------------------------------------------------------------------------
(* Purchase invoices *)

\* What holds of a bill on which no two requests have overlapped: its row shows
\* its items, costs and payments, and stock and books show it while it is posted.
UndisturbedBill(b) ==
  LET row == bill[b]
  IN  /\ row.total = row.units + costs[b]
      /\ row.paid = payments[b]
      /\ row.status \in Posted => (row.status = "PAID" <=> payments[b] >= row.total)
      /\ brought[b] = IF row.status \in Posted THEN row.units ELSE 0
      /\ b \notin billUnmapped =>
           /\ Balance(billBooks[b]) = IF row.status \in Posted THEN row.total ELSE 0
           /\ row.status \in Posted => billBooks[b] = Booked(NoEntries, "post", row.total)
           /\ row.status \in {"absent", "DRAFT"} => billBooks[b] = NoEntries

\* What holds of every bill.
BillOK(b) ==
  /\ bill[b].paid <= payments[b]
  /\ bill[b].status = "absent" =>
       bill[b] = NoBillYet /\ costs[b] = 0 /\ payments[b] = 0 /\ b \notin contested
  /\ b \notin reverted => /\ credited[b] <= 1
                          /\ bill[b].status \in Posted => credited[b] = 1
                          /\ bill[b].status \in {"absent", "DRAFT"} => credited[b] = 0
  /\ b \notin contested => UndisturbedBill(b)

\* What a request has read: it is no later than the bill is, and while no other
\* request is on the bill it is what the bill still is.
ReadByBuyer(c) ==
  LET d == doing[c]
      b == d.at
  IN  /\ d.op = "none" => d = Nothing
      /\ d.op # "none" =>
           /\ b \in Bills /\ bill[b].status # "absent"
           /\ d.op \in {"update", "remove", "add", "drop", "post"} => d.row.status = "DRAFT"
           /\ d.op = "pay" => d.row.status \in Posted
           /\ d.op = "cancel" => d.row.status \in Posted \cup {"DRAFT"}
           /\ d.summed =>
                /\ d.op \in {"add", "drop", "pay"}
                /\ d.saw \in Posted \cup {"DRAFT", "CANCELLED"}
                /\ d.next.status = d.saw \/ {d.next.status, d.saw} \subseteq Posted
                /\ d.next.paid <= PaidAfter(d)
           /\ b \notin contested =>
                /\ d.row = bill[b]
                /\ d.summed => /\ d.saw = bill[b].status
                               /\ d.next = Recalculated(bill[b], CostsAfter(d), PaidAfter(d))

\* Two requests on one bill have contested it.
BuyersApart ==
  \A c, d \in Buyers : c # d /\ doing[c].at = doing[d].at /\ doing[c].op # "none" =>
    doing[c].at \in contested

PurchaseInvoicesInv ==
  /\ PurchaseInvoicesTypeOK
  /\ DOMAIN billBooks = Bills
  /\ \A b \in Bills : BillOK(b)
  /\ \A c \in Buyers : ReadByBuyer(c)
  /\ BuyersApart

\* Nothing is wrong before there are bills.
LEMMA PurchaseInitInv == PurchaseInit => PurchaseInvoicesInv
<1> SUFFICES ASSUME PurchaseInit PROVE PurchaseInvoicesInv
  OBVIOUS
<1>1. NoBillYet \in Bill /\ Nothing \in Doing
  BY DEF NoBillYet, Bill, Nothing, Doing, BillStatuses, Posted
<1>2. PurchaseInvoicesTypeOK
  BY <1>1, NothingBooked DEF PurchaseInit, PurchaseInvoicesTypeOK
<1>3. \A b \in Bills : BillOK(b)
  BY NothingBooked DEF PurchaseInit, BillOK, UndisturbedBill, NoBillYet, Posted
<1>4. \A c \in Buyers : ReadByBuyer(c)
  BY DEF PurchaseInit, ReadByBuyer, Nothing
<1>5. BuyersApart
  BY DEF PurchaseInit, BuyersApart, Nothing
<1> QED
  BY <1>2, <1>3, <1>4, <1>5 DEF PurchaseInvoicesInv, PurchaseInit

\* What recalculate writes.
LEMMA RecalculatedRow ==
  ASSUME NEW row \in Bill, NEW n \in Nat, NEW p \in Nat, NEW r, r = Recalculated(row, n, p)
  PROVE  /\ r \in Bill /\ r.units = row.units /\ r.edit = row.edit
         /\ r.total = row.units + n /\ r.paid = p
         /\ row.status \notin Posted => r.status = row.status
         /\ row.status \in Posted => r.status \in Posted /\ (r.status = "PAID" <=> p >= r.total)
<1> PICK total, status :
      /\ total = row.units + n
      /\ status = IF row.status \notin Posted THEN row.status
                  ELSE IF p >= total THEN "PAID"
                  ELSE IF p > 0 THEN "PARTIALLY_PAID" ELSE "POSTED"
  OBVIOUS
<1>1. r = [row EXCEPT !.total = total, !.paid = p, !.status = status]
  BY DEF Recalculated
<1>2. total \in Nat /\ status \in BillStatuses
  BY DEF Bill, BillStatuses, Posted
<1>3. /\ r \in Bill /\ r.units = row.units /\ r.edit = row.edit /\ r.total = total
      /\ r.paid = p /\ r.status = status
  BY <1>1, <1>2 DEF Bill
<1> QED
  BY <1>3 DEF Posted

\* The books of bill b stay as they are.
SameBill(b) ==
  /\ bill'[b] = bill[b] /\ costs'[b] = costs[b] /\ payments'[b] = payments[b]
  /\ brought'[b] = brought[b] /\ credited'[b] = credited[b] /\ billBooks'[b] = billBooks[b]
  /\ b \in reverted' <=> b \in reverted
  /\ b \in billUnmapped' <=> b \in billUnmapped
  /\ b \in contested' <=> b \in contested

\* What holds of a bill holds while nobody works on it.
LEMMA SameBillIsOK ==
  ASSUME NEW b \in Bills, BillOK(b), SameBill(b)
  PROVE  BillOK(b)'
BY DEF BillOK, UndisturbedBill, SameBill

\* What a request has read of a bill nobody has worked on still is so.
LEMMA SameBillIsRead ==
  ASSUME NEW c \in Buyers, ReadByBuyer(c), doing'[c] = doing[c],
         doing[c].op # "none" => SameBill(doing[c].at)
  PROVE  ReadByBuyer(c)'
<1> PICK d : d = doing[c]
  OBVIOUS
<1>1. CASE d.op = "none"
  BY <1>1 DEF ReadByBuyer
<1>2. CASE d.op # "none"
  <2>1. CostsAfter(d)' = CostsAfter(d) /\ PaidAfter(d)' = PaidAfter(d)
    BY <1>2 DEF CostsAfter, PaidAfter, SameBill
  <2>2. /\ bill'[d.at] = bill[d.at]
        /\ d.at \in contested' <=> d.at \in contested
    BY <1>2 DEF SameBill
  <2> QED
    BY <1>2, <2>1, <2>2 DEF ReadByBuyer
<1> QED
  BY <1>1, <1>2

\* A request that ends on its bill leaves the others where they were: what they
\* have read of the bill is contested.
LEMMA BuyerEnds ==
  ASSUME PurchaseInvoicesInv, NEW c \in Buyers, doing[c].op # "none", NEW b, b = doing[c].at,
         Ends(c), PurchaseInvoicesTypeOK', DOMAIN billBooks' = Bills, UNCHANGED contested,
         \A x \in Bills \ {b} : SameBill(x),
         payments'[b] >= payments[b], bill'[b].status # "absent", BillOK(b)'
  PROVE  PurchaseInvoicesInv'
<1>1. doing'[c] = Nothing /\ \A d \in Buyers \ {c} : doing'[d] = doing[d]
  BY DEF Ends, PurchaseInvoicesInv, PurchaseInvoicesTypeOK
<1>2. \A x \in Bills : BillOK(x)'
  BY SameBillIsOK DEF PurchaseInvoicesInv
<1>3. ASSUME NEW d \in Buyers PROVE ReadByBuyer(d)'
  <2>1. CASE d = c
    BY <1>1, <2>1 DEF ReadByBuyer, Nothing
  <2>2. CASE d # c /\ doing[d].op # "none" /\ doing[d].at = b
    <3> PICK e : e = doing[d]
      OBVIOUS
    <3>1. b \in contested /\ b \in Bills /\ b \in contested'
      BY <2>2 DEF PurchaseInvoicesInv, BuyersApart, ReadByBuyer
    <3>2. ReadByBuyer(d) /\ doing'[d] = e /\ e.n \in Nat /\ e.next.paid \in Nat
      BY <1>1, <2>2 DEF PurchaseInvoicesInv, PurchaseInvoicesTypeOK, Doing, Bill
    <3>3. payments[b] \in Nat /\ payments'[b] \in Nat
      BY <3>1 DEF PurchaseInvoicesInv, PurchaseInvoicesTypeOK
    <3>4. e.summed => e.next.paid <= PaidAfter(e)'
      BY <2>2, <3>2, <3>3 DEF PaidAfter, ReadByBuyer
    <3> QED
      BY <2>2, <3>1, <3>2, <3>4 DEF ReadByBuyer
  <2>3. CASE d # c /\ ~(doing[d].op # "none" /\ doing[d].at = b)
    <3>1. ReadByBuyer(d) /\ doing'[d] = doing[d]
      BY <1>1, <2>3 DEF PurchaseInvoicesInv
    <3>2. doing[d].op # "none" => SameBill(doing[d].at)
      BY <2>3, <3>1 DEF ReadByBuyer
    <3> QED
      BY <3>1, <3>2, SameBillIsRead
  <2> QED
    BY <2>1, <2>2, <2>3
<1>4. BuyersApart'
  <2>1. \A d \in Buyers : doing[d].op # "none" => doing[d].at \in Bills
    BY DEF PurchaseInvoicesInv, ReadByBuyer
  <2>2. Nothing.op = "none" /\ Nothing.at \notin Bills
    BY NoBillAssumption DEF Nothing
  <2> QED
    BY <1>1, <2>1, <2>2 DEF PurchaseInvoicesInv, BuyersApart
<1> QED
  BY <1>2, <1>3, <1>4 DEF PurchaseInvoicesInv

\* A request that reads a bill contests it when another one has read it.
LEMMA BuyerReads ==
  ASSUME PurchaseInvoicesInv, NEW c \in Buyers, NEW b \in Bills, NEW op, NEW n \in Nat,
         Read(c, b, op, n), bill[b].status # "absent",
         \/ op \in {"update", "remove", "add", "drop", "post"} /\ bill[b].status = "DRAFT"
         \/ op = "pay" /\ bill[b].status \in Posted
         \/ op = "cancel" /\ bill[b].status \in Posted \cup {"DRAFT"}
  PROVE  PurchaseInvoicesInv'
<1> PICK r : r = [Nothing EXCEPT !.op = op, !.at = b, !.row = bill[b], !.n = n]
  OBVIOUS
<1>1. /\ r.op = op /\ r.at = b /\ r.row = bill[b] /\ r.n = n /\ r.summed = FALSE
      /\ r \in Doing
  BY DEF Nothing, NoBillYet, Doing, Bill, BillStatuses, Posted, PurchaseInvoicesInv, PurchaseInvoicesTypeOK
<1>2. /\ doing[c] = Nothing /\ doing'[c] = r /\ \A d \in Buyers \ {c} : doing'[d] = doing[d]
  BY DEF Read, PurchaseInvoicesInv, PurchaseInvoicesTypeOK
<1>3. /\ UNCHANGED <<bill, costs, payments, brought, credited, billBooks, reverted, billUnmapped>>
      /\ contested' = IF \E d \in Buyers : doing[d].at = b THEN contested \cup {b} ELSE contested
  BY DEF Read
<1>4. PurchaseInvoicesTypeOK'
  <2>1. doing' \in [Buyers -> Doing]
    BY <1>1 DEF Read, PurchaseInvoicesInv, PurchaseInvoicesTypeOK
  <2>2. contested' \subseteq Bills /\ reverted' \subseteq contested'
    BY <1>3 DEF PurchaseInvoicesInv, PurchaseInvoicesTypeOK
  <2> QED
    BY <1>3, <2>1, <2>2 DEF PurchaseInvoicesInv, PurchaseInvoicesTypeOK
<1>5. ASSUME NEW x \in Bills PROVE BillOK(x)'
  <2>1. bill[x].status = "absent" => x # b
    OBVIOUS
  <2>2. BillOK(x) /\ (x \in contested => x \in contested') /\ (x # b => (x \in contested' <=> x \in contested))
    BY <1>3 DEF PurchaseInvoicesInv
  <2> QED
    BY <1>3, <2>1, <2>2 DEF BillOK, UndisturbedBill
<1>6. ASSUME NEW d \in Buyers PROVE ReadByBuyer(d)'
  <2>1. CASE d = c
    BY <1>1, <1>2, <1>3, <2>1 DEF ReadByBuyer
  <2>2. CASE d # c
    <3> PICK e : e = doing[d]
      OBVIOUS
    <3>1. CostsAfter(e)' = CostsAfter(e) /\ PaidAfter(e)' = PaidAfter(e)
      BY <1>3 DEF CostsAfter, PaidAfter
    <3>2. e.at \notin contested' => e.at \notin contested
      BY <1>3
    <3>3. ReadByBuyer(d) /\ doing'[d] = e
      BY <1>2, <2>2 DEF PurchaseInvoicesInv
    <3> QED
      BY <1>3, <3>1, <3>2, <3>3 DEF ReadByBuyer
  <2> QED
    BY <2>1, <2>2
<1>7. BuyersApart'
  <2> SUFFICES ASSUME NEW d \in Buyers, NEW e \in Buyers, d # e, doing'[d].at = doing'[e].at,
                      doing'[d].op # "none"
               PROVE  doing'[d].at \in contested'
    BY DEF BuyersApart
  <2>1. CASE d = c \/ e = c
    <3>1. doing'[c].at = b
      BY <1>1, <1>2
    <3>2. doing'[d].at = b /\ doing'[e].at = b
      BY <2>1, <3>1
    <3>3. \E f \in Buyers : doing[f].at = b
      BY <1>2, <2>1, <3>2
    <3> QED
      BY <1>3, <3>2, <3>3
  <2>2. CASE d # c /\ e # c
    BY <1>2, <1>3, <2>2 DEF PurchaseInvoicesInv, BuyersApart
  <2> QED
    BY <2>1, <2>2
<1> QED
  BY <1>3, <1>4, <1>5, <1>6, <1>7 DEF PurchaseInvoicesInv

\* A bill's row and the request that works on it have their types.
LEMMA BuyerTypes ==
  ASSUME PurchaseInvoicesInv, NEW c \in Buyers, doing[c].op # "none"
  PROVE  /\ doing[c] \in Doing /\ doing[c].at \in Bills /\ doing[c].n \in Nat
         /\ doing[c].row \in Bill /\ doing[c].next \in Bill
         /\ bill[doing[c].at] \in Bill /\ costs[doing[c].at] \in Nat
         /\ payments[doing[c].at] \in Nat /\ brought[doing[c].at] \in Int
         /\ credited[doing[c].at] \in Nat
         /\ BillOK(doing[c].at) /\ ReadByBuyer(c)
         /\ [doing EXCEPT ![c] = Nothing] \in [Buyers -> Doing]
<1>1. doing[c] \in Doing /\ doing[c].at \in Bills
  BY DEF PurchaseInvoicesInv, PurchaseInvoicesTypeOK, ReadByBuyer
<1>2. Nothing \in Doing
  BY DEF NoBillYet, Bill, Nothing, Doing, BillStatuses, Posted
<1> QED
  BY <1>1, <1>2 DEF PurchaseInvoicesInv, PurchaseInvoicesTypeOK, Doing

\* createPurchaseInvoice
LEMMA CreatePurchaseInv ==
  ASSUME PurchaseInvoicesInv, NEW b \in Bills, CreatePurchaseInvoice(b)
  PROVE  PurchaseInvoicesInv'
<1>1. /\ bill[b] = NoBillYet /\ costs[b] = 0 /\ payments[b] = 0 /\ b \notin contested
      /\ BillOK(b)
  BY DEF CreatePurchaseInvoice, PurchaseInvoicesInv, BillOK
<1>2. PICK n, old, new :
        /\ n \in Nat \ {0}
        /\ old = [NoBillYet EXCEPT !.status = "DRAFT", !.units = n]
        /\ new = Recalculated(old, 0, 0)
        /\ bill' = [bill EXCEPT ![b] = new]
  BY <1>1, BillUnitsAssumption DEF CreatePurchaseInvoice
<1>3. old \in Bill /\ old.status = "DRAFT" /\ old.units = n
  BY <1>2 DEF NoBillYet, Bill, BillStatuses
<1>4. /\ new \in Bill /\ new.status = "DRAFT" /\ new.units = n /\ new.total = n /\ new.paid = 0
  <2>1. new = Recalculated(old, 0, 0) /\ 0 \in Nat /\ "DRAFT" \notin Posted
    BY <1>2 DEF Posted
  <2>2. old \in Bill
    BY <1>3
  <2>3. /\ new \in Bill /\ new.units = old.units /\ new.total = old.units + 0 /\ new.paid = 0
        /\ old.status \notin Posted => new.status = old.status
    BY ONLY <2>1, <2>2, RecalculatedRow
  <2> QED
    BY <1>2, <1>3, <2>1, <2>3
<1>5. /\ bill'[b] = new /\ \A x \in Bills \ {b} : bill'[x] = bill[x]
      /\ bill' \in [Bills -> Bill]
  BY <1>2, <1>4 DEF PurchaseInvoicesInv, PurchaseInvoicesTypeOK
<1>6. UNCHANGED <<costs, payments, brought, credited, billBooks, doing, contested, reverted, billUnmapped>>
  BY DEF CreatePurchaseInvoice
<1>7. BillOK(b)'
  BY <1>1, <1>2, <1>4, <1>5, <1>6 DEF BillOK, UndisturbedBill, NoBillYet, Posted
<1>8. \A x \in Bills : BillOK(x)'
  BY <1>5, <1>6, <1>7, SameBillIsOK DEF PurchaseInvoicesInv, SameBill
<1>9. \A c \in Buyers : ReadByBuyer(c)'
  <2> TAKE c \in Buyers
  <2>1. ReadByBuyer(c) /\ (doing[c].op # "none" => doing[c].at \in Bills \ {b})
    BY <1>1 DEF PurchaseInvoicesInv, ReadByBuyer, NoBillYet
  <2>2. doing[c].op # "none" => SameBill(doing[c].at)
    BY <1>5, <1>6, <2>1 DEF SameBill
  <2> QED
    BY <1>6, <2>1, <2>2, SameBillIsRead
<1> QED
  BY <1>5, <1>6, <1>8, <1>9 DEF PurchaseInvoicesInv, PurchaseInvoicesTypeOK, BuyersApart

\* update
LEMMA UpdatePurchaseInv ==
  ASSUME PurchaseInvoicesInv, NEW c \in Buyers, UpdatePurchaseInvoice(c)
  PROVE  PurchaseInvoicesInv'
<1> PICK d, b : d = doing[c] /\ b = doing[c].at
  OBVIOUS
<1>1. d.op = "update" /\ Kept(b)
  BY DEF UpdatePurchaseInvoice
<1>2. /\ b \in Bills /\ d.n \in Nat /\ bill[b] \in Bill /\ costs[b] \in Nat /\ payments[b] \in Nat
      /\ BillOK(b) /\ ReadByBuyer(c)
  BY <1>1, BuyerTypes
<1> PICK row, new :
      /\ row = [bill[b] EXCEPT !.units = d.n, !.edit = @ + 1]
      /\ new = Recalculated(row, costs[b], payments[b])
  OBVIOUS
<1>3. row \in Bill /\ row.status = bill[b].status /\ row.units = d.n
  <2> PICK old, n : old = bill[b] /\ n = d.n
    OBVIOUS
  <2>1. row = [old EXCEPT !.units = n, !.edit = @ + 1] /\ n \in Nat /\ old \in Bill
    BY <1>2
  <2>2. /\ row.status = old.status /\ row.units = n /\ row.total = old.total
        /\ row.paid = old.paid /\ row.edit \in Nat
    BY ONLY <2>1 DEF Bill
  <2>3. row = [status |-> row.status, units |-> row.units, edit |-> row.edit,
               total |-> row.total, paid |-> row.paid]
    BY ONLY <2>1 DEF Bill
  <2> QED
    BY <2>1, <2>2, <2>3 DEF Bill
<1>4. /\ new \in Bill /\ new.units = d.n
      /\ new.total = new.units + costs[b] /\ new.paid = payments[b]
      /\ row.status \notin Posted => new.status = row.status
      /\ row.status \in Posted => new.status \in Posted /\ (new.status = "PAID" <=> payments[b] >= new.total)
  <2> PICK m, p : m = costs[b] /\ p = payments[b]
    OBVIOUS
  <2>1. new = Recalculated(row, m, p)
    OBVIOUS
  <2>2. row \in Bill /\ m \in Nat /\ p \in Nat
    BY <1>2, <1>3
  <2>3. /\ new \in Bill /\ new.units = row.units
        /\ new.total = row.units + m /\ new.paid = p
        /\ row.status \notin Posted => new.status = row.status
        /\ row.status \in Posted => new.status \in Posted /\ (new.status = "PAID" <=> p >= new.total)
    BY ONLY <2>1, <2>2, RecalculatedRow
  <2> QED
    BY <1>3, <2>3
<1>5. bill' = [bill EXCEPT ![b] = new] /\ Ends(c)
      /\ UNCHANGED <<costs, payments, brought, credited, billBooks, contested, reverted, billUnmapped>>
  BY DEF UpdatePurchaseInvoice
<1>6. /\ bill'[b] = new /\ \A x \in Bills \ {b} : bill'[x] = bill[x]
      /\ bill' \in [Bills -> Bill]
  BY <1>2, <1>4, <1>5 DEF PurchaseInvoicesInv, PurchaseInvoicesTypeOK
<1>7. b \notin contested => bill[b].status = "DRAFT"
  BY <1>1, <1>2 DEF ReadByBuyer
<1>8. BillOK(b)'
  <2>1. new.status = bill[b].status \/ {new.status, bill[b].status} \subseteq Posted
    BY <1>3, <1>4
  <2>2. b \notin contested => new.status = "DRAFT" /\ "DRAFT" \notin Posted
    BY <1>3, <1>4, <1>7 DEF Posted
  <2>3. new.status # "absent"
    BY <1>1, <2>1 DEF Kept, Posted
  <2>4. new.paid <= payments[b]
    <3>1. payments[b] \in Nat /\ new.paid = payments[b]
      BY <1>2, <1>4
    <3> QED
      BY ONLY <3>1
  <2>5. ASSUME b \notin contested PROVE UndisturbedBill(b)'
    BY <1>2, <1>4, <1>5, <1>6, <1>7, <2>2, <2>5 DEF BillOK, UndisturbedBill
  <2> QED
    BY <1>2, <1>5, <1>6, <2>1, <2>3, <2>4, <2>5 DEF BillOK, Posted
<1>9. PurchaseInvoicesTypeOK' /\ DOMAIN billBooks' = Bills
  BY <1>1, <1>5, <1>6, BuyerTypes DEF PurchaseInvoicesInv, PurchaseInvoicesTypeOK, Ends
<1>10. \A x \in Bills \ {b} : SameBill(x)
  BY <1>5, <1>6 DEF SameBill
<1>11. bill'[b].status # "absent" /\ payments'[b] >= payments[b]
  <2>1. bill[b].status # "absent" /\ bill'[b] = new
    BY <1>1, <1>6 DEF Kept
  <2>2. new.status # "absent"
    BY <1>3, <1>4, <2>1 DEF Posted
  <2>3. payments'[b] = payments[b] /\ payments[b] \in Nat
    BY <1>2, <1>5
  <2>4. payments'[b] >= payments[b]
    BY ONLY <2>3
  <2> QED
    BY <2>1, <2>2, <2>4
<1> QED
  BY <1>1, <1>5, <1>8, <1>9, <1>10, <1>11, BuyerEnds

\* A new status.
LEMMA WithStatus ==
  ASSUME NEW row \in Bill, NEW status \in BillStatuses, NEW new,
         new = [row EXCEPT !.status = status]
  PROVE  /\ new \in Bill /\ new.status = status /\ new.units = row.units
         /\ new.total = row.total /\ new.paid = row.paid /\ new.edit = row.edit
BY DEF Bill

\* remove
LEMMA RemovePurchaseInv ==
  ASSUME PurchaseInvoicesInv, NEW c \in Buyers, RemovePurchaseInvoice(c)
  PROVE  PurchaseInvoicesInv'
<1> PICK d, b : d = doing[c] /\ b = doing[c].at
  OBVIOUS
<1>1. d.op = "remove" /\ Kept(b)
  BY DEF RemovePurchaseInvoice
<1>2. /\ b \in Bills /\ bill[b] \in Bill /\ payments[b] \in Nat
      /\ BillOK(b) /\ ReadByBuyer(c)
  BY <1>1, BuyerTypes
<1> PICK row, new : row = bill[b] /\ new = [bill[b] EXCEPT !.status = "removed"]
  OBVIOUS
<1>3. /\ new \in Bill /\ new.status = "removed" /\ new.units = row.units
      /\ new.total = row.total /\ new.paid = row.paid
  BY <1>2, WithStatus DEF BillStatuses
<1>4. /\ bill' = [bill EXCEPT ![b] = new] /\ Ends(c)
      /\ UNCHANGED <<costs, payments, brought, credited, billBooks, contested, reverted, billUnmapped>>
  BY DEF RemovePurchaseInvoice
<1>5. /\ bill'[b] = new /\ \A x \in Bills \ {b} : bill'[x] = bill[x]
      /\ bill' \in [Bills -> Bill]
  BY <1>2, <1>3, <1>4 DEF PurchaseInvoicesInv, PurchaseInvoicesTypeOK
<1>6. b \notin contested => row.status = "DRAFT"
  BY <1>1, <1>2 DEF ReadByBuyer
<1>7. BillOK(b)'
  <2>1. ASSUME b \notin contested PROVE UndisturbedBill(b)'
    BY <1>2, <1>3, <1>4, <1>5, <1>6, <2>1 DEF BillOK, UndisturbedBill, Posted
  <2> QED
    BY <1>2, <1>3, <1>4, <1>5, <2>1 DEF BillOK, Posted
<1>8. PurchaseInvoicesTypeOK' /\ DOMAIN billBooks' = Bills
  BY <1>1, <1>4, <1>5, BuyerTypes DEF PurchaseInvoicesInv, PurchaseInvoicesTypeOK, Ends
<1>9. \A x \in Bills \ {b} : SameBill(x)
  BY <1>4, <1>5 DEF SameBill
<1>10. bill'[b].status # "absent" /\ payments'[b] >= payments[b]
  BY <1>2, <1>3, <1>4, <1>5
<1> QED
  BY <1>1, <1>4, <1>7, <1>8, <1>9, <1>10, BuyerEnds

\* postWithin books the entry, or marks the bill.
LEMMA BookBillChanges ==
  ASSUME PurchaseInvoicesInv, NEW b \in Bills, NEW ref \in {"post", "reverse"}, NEW value,
         BookBill(b, ref, value)
  PROVE  /\ DOMAIN billBooks' = Bills /\ billUnmapped' \subseteq Bills
         /\ \A x \in Bills : DOMAIN billBooks'[x] \subseteq {"post", "reverse"}
         /\ \A x \in Bills \ {b} : /\ billBooks'[x] = billBooks[x]
                                   /\ x \in billUnmapped' <=> x \in billUnmapped
         /\ b \notin billUnmapped' => /\ b \notin billUnmapped
                                     /\ billBooks'[b] = Booked(billBooks[b], ref, value)
<1>1. DOMAIN billBooks = Bills /\ \A x \in Bills : DOMAIN billBooks[x] \subseteq {"post", "reverse"}
  BY DEF PurchaseInvoicesInv, PurchaseInvoicesTypeOK
<1>2. billUnmapped \subseteq Bills
  BY DEF PurchaseInvoicesInv, PurchaseInvoicesTypeOK
<1>3. DOMAIN Booked(billBooks[b], ref, value) \subseteq {"post", "reverse"}
  BY <1>1 DEF Booked
<1>4. CASE billBooks' = [billBooks EXCEPT ![b] = Booked(@, ref, value)] /\ UNCHANGED billUnmapped
  <2>1. /\ DOMAIN billBooks' = Bills /\ billBooks'[b] = Booked(billBooks[b], ref, value)
        /\ \A x \in Bills \ {b} : billBooks'[x] = billBooks[x]
    BY <1>1, <1>4
  <2> QED
    BY <1>1, <1>2, <1>3, <1>4, <2>1
<1>5. CASE UNCHANGED billBooks /\ billUnmapped' = billUnmapped \cup {b}
  BY <1>1, <1>2, <1>5
<1> QED
  BY <1>4, <1>5 DEF BookBill

\* post: the row is locked and still a draft, so its goods have not come in.
LEMMA PostPurchaseInv ==
  ASSUME PurchaseInvoicesInv, NEW c \in Buyers, PostPurchaseInvoice(c)
  PROVE  PurchaseInvoicesInv'
<1> PICK d, b : d = doing[c] /\ b = doing[c].at
  OBVIOUS
<1>1. d.op = "post" /\ Kept(b) /\ bill[b].status = "DRAFT"
  BY DEF PostPurchaseInvoice, StillDraft
<1>2. /\ b \in Bills /\ bill[b] \in Bill /\ costs[b] \in Nat /\ payments[b] \in Nat
      /\ brought[b] \in Int /\ credited[b] \in Nat /\ d.row \in Bill
      /\ BillOK(b) /\ ReadByBuyer(c)
  BY <1>1, BuyerTypes
<1> PICK old, row, m, p, new :
      /\ old = bill[b] /\ m = costs[b] /\ p = payments[b]
      /\ row = [bill[b] EXCEPT !.status = "POSTED"]
      /\ new = Recalculated(row, m, p)
  OBVIOUS
<1>3. row \in Bill /\ row.status = "POSTED" /\ row.units = old.units
  BY <1>2, WithStatus DEF BillStatuses, Posted
<1>4. /\ new \in Bill /\ new.units = old.units /\ new.total = old.units + m /\ new.paid = p
      /\ new.status \in Posted /\ (new.status = "PAID" <=> p >= new.total)
  <2>1. row \in Bill /\ m \in Nat /\ p \in Nat /\ row.status \in Posted
    BY <1>2, <1>3 DEF Posted
  <2>2. /\ new \in Bill /\ new.units = row.units /\ new.total = row.units + m /\ new.paid = p
        /\ new.status \in Posted /\ (new.status = "PAID" <=> p >= new.total)
    BY ONLY <2>1, new = Recalculated(row, m, p), RecalculatedRow
  <2> QED
    BY <1>3, <2>2
<1>5. /\ bill' = [bill EXCEPT ![b] = new] /\ Ends(c)
      /\ brought' = [brought EXCEPT ![b] = @ + d.row.units]
      /\ credited' = [credited EXCEPT ![b] = @ + 1]
      /\ BookBill(b, "post", bill'[b].total)
      /\ UNCHANGED <<costs, payments, contested, reverted>>
  BY DEF PostPurchaseInvoice
<1>6. /\ bill'[b] = new /\ \A x \in Bills \ {b} : bill'[x] = bill[x]
      /\ bill' \in [Bills -> Bill]
  BY <1>2, <1>4, <1>5 DEF PurchaseInvoicesInv, PurchaseInvoicesTypeOK
<1>7. /\ brought'[b] = brought[b] + d.row.units /\ credited'[b] = credited[b] + 1
      /\ \A x \in Bills \ {b} : brought'[x] = brought[x] /\ credited'[x] = credited[x]
      /\ brought' \in [Bills -> Int] /\ credited' \in [Bills -> Nat]
  BY <1>2, <1>5 DEF PurchaseInvoicesInv, PurchaseInvoicesTypeOK, Bill
<1>8. /\ DOMAIN billBooks' = Bills /\ billUnmapped' \subseteq Bills
      /\ \A x \in Bills : DOMAIN billBooks'[x] \subseteq {"post", "reverse"}
      /\ \A x \in Bills \ {b} : /\ billBooks'[x] = billBooks[x]
                                /\ x \in billUnmapped' <=> x \in billUnmapped
      /\ b \notin billUnmapped' => /\ b \notin billUnmapped
                                  /\ billBooks'[b] = Booked(billBooks[b], "post", new.total)
  <2> PICK value : value = new.total
    OBVIOUS
  <2>1. b \in Bills /\ "post" \in {"post", "reverse"} /\ BookBill(b, "post", value)
    BY <1>2, <1>5, <1>6
  <2>2. /\ DOMAIN billBooks' = Bills /\ billUnmapped' \subseteq Bills
        /\ \A x \in Bills : DOMAIN billBooks'[x] \subseteq {"post", "reverse"}
        /\ \A x \in Bills \ {b} : /\ billBooks'[x] = billBooks[x]
                                  /\ x \in billUnmapped' <=> x \in billUnmapped
        /\ b \notin billUnmapped' => /\ b \notin billUnmapped
                                    /\ billBooks'[b] = Booked(billBooks[b], "post", value)
    BY ONLY <2>1, PurchaseInvoicesInv, BookBillChanges
  <2> QED
    BY <2>2
<1>9. "DRAFT" \notin Posted /\ "absent" \notin Posted
  BY DEF Posted
<1>10. BillOK(b)'
  <2>1. b \notin reverted => credited'[b] = 1
    BY <1>1, <1>2, <1>7 DEF BillOK
  <2>2. ASSUME b \notin contested PROVE UndisturbedBill(b)'
    <3>1. d.row = old /\ UndisturbedBill(b)
      BY <1>2, <1>1, <2>2 DEF ReadByBuyer, BillOK
    <3>2. new.total = new.units + costs'[b] /\ new.paid = payments'[b]
      BY <1>4, <1>5
    <3>3. brought'[b] = new.units
      <4>1. brought[b] = 0 /\ old.units \in Nat
        BY <1>1, <1>2, <1>9, <3>1 DEF UndisturbedBill, Bill
      <4> QED
        BY <1>4, <1>7, <3>1, <4>1
    <3>4. ASSUME b \notin billUnmapped'
          PROVE  billBooks'[b] = Booked(NoEntries, "post", new.total) /\ Balance(billBooks'[b]) = new.total
      <4>1. billBooks[b] = NoEntries
        BY <1>1, <1>8, <3>1, <3>4 DEF UndisturbedBill
      <4>2. new.total \in Int
        BY <1>4 DEF Bill
      <4> QED
        BY <1>8, <3>4, <4>1, <4>2, PostedAndReversed
    <3> QED
      BY <1>4, <1>6, <1>9, <3>2, <3>3, <3>4 DEF UndisturbedBill
  <2>3. new.paid <= payments'[b]
    <3>1. new.paid = p /\ payments'[b] = p /\ p \in Nat
      BY <1>2, <1>4, <1>5
    <3> QED
      BY ONLY <3>1
  <2>4. new.status \notin {"absent", "DRAFT"} /\ bill'[b] = new
    BY <1>4, <1>6, <1>9
  <2>5. /\ b \in reverted' <=> b \in reverted
        /\ b \in contested' <=> b \in contested
    BY <1>5
  <2>6. b \notin reverted => credited'[b] <= 1
    BY ONLY <2>1
  <2> QED
    BY ONLY <2>1, <2>2, <2>3, <2>4, <2>5, <2>6 DEF BillOK
<1>11. PurchaseInvoicesTypeOK'
  BY <1>1, <1>5, <1>6, <1>7, <1>8, BuyerTypes DEF PurchaseInvoicesInv, PurchaseInvoicesTypeOK, Ends
<1>12. \A x \in Bills \ {b} : SameBill(x)
  BY <1>5, <1>6, <1>7, <1>8 DEF SameBill
<1>13. bill'[b].status # "absent" /\ payments'[b] >= payments[b]
  <2>1. new.status # "absent" /\ bill'[b] = new
    BY <1>4, <1>6, <1>9
  <2>2. payments'[b] = payments[b] /\ payments[b] \in Nat
    BY <1>2, <1>5
  <2>3. payments'[b] >= payments[b]
    BY ONLY <2>2
  <2> QED
    BY <2>1, <2>3
<1>14. Ends(c) /\ DOMAIN billBooks' = Bills /\ UNCHANGED contested
  BY <1>5, <1>8
<1> QED
  BY <1>1, <1>10, <1>11, <1>12, <1>13, <1>14, BuyerEnds

\* cancel: a draft is only marked, a posted bill's goods and books go back.
LEMMA CancelPurchaseInv ==
  ASSUME PurchaseInvoicesInv, NEW c \in Buyers, CancelPurchaseInvoice(c)
  PROVE  PurchaseInvoicesInv'
<1> PICK d, b : d = doing[c] /\ b = doing[c].at
  OBVIOUS
<1>1. d.op = "cancel" /\ Kept(b)
  BY DEF CancelPurchaseInvoice
<1>2. /\ b \in Bills /\ bill[b] \in Bill /\ payments[b] \in Nat /\ brought[b] \in Int
      /\ d.row \in Bill /\ BillOK(b) /\ ReadByBuyer(c)
  BY <1>1, BuyerTypes
<1> PICK old, new : old = bill[b] /\ new = [bill[b] EXCEPT !.status = "CANCELLED"]
  OBVIOUS
<1>3. /\ new \in Bill /\ new.status = "CANCELLED" /\ new.units = old.units
      /\ new.total = old.total /\ new.paid = old.paid
  BY <1>2, WithStatus DEF BillStatuses
<1>4. /\ bill' = [bill EXCEPT ![b] = new] /\ Ends(c)
      /\ UNCHANGED <<costs, payments, credited, contested, reverted>>
      /\ IF d.row.status = "DRAFT" THEN UNCHANGED <<brought, billBooks, billUnmapped>>
         ELSE /\ brought' = [brought EXCEPT ![b] = @ - d.row.units]
              /\ BookBill(b, "reverse", -d.row.total)
  BY DEF CancelPurchaseInvoice
<1>5. /\ bill'[b] = new /\ \A x \in Bills \ {b} : bill'[x] = bill[x]
      /\ bill' \in [Bills -> Bill]
  BY <1>2, <1>3, <1>4 DEF PurchaseInvoicesInv, PurchaseInvoicesTypeOK
<1>6. "DRAFT" \notin Posted /\ "absent" \notin Posted /\ "CANCELLED" \notin Posted
  BY DEF Posted
<1>7. /\ DOMAIN billBooks' = Bills /\ billUnmapped' \subseteq Bills
      /\ \A x \in Bills : DOMAIN billBooks'[x] \subseteq {"post", "reverse"}
      /\ brought' \in [Bills -> Int]
      /\ \A x \in Bills \ {b} : /\ billBooks'[x] = billBooks[x] /\ brought'[x] = brought[x]
                                /\ x \in billUnmapped' <=> x \in billUnmapped
  <2>1. CASE d.row.status = "DRAFT"
    BY <1>4, <2>1 DEF PurchaseInvoicesInv, PurchaseInvoicesTypeOK
  <2>2. CASE d.row.status # "DRAFT"
    <3>1. brought' = [brought EXCEPT ![b] = @ - d.row.units] /\ d.row.units \in Nat
      BY <1>2, <1>4, <2>2 DEF Bill
    <3>2. brought' \in [Bills -> Int] /\ \A x \in Bills \ {b} : brought'[x] = brought[x]
      BY <1>2, <3>1 DEF PurchaseInvoicesInv, PurchaseInvoicesTypeOK
    <3> QED
      BY <1>2, <1>4, <2>2, <3>2, BookBillChanges
  <2> QED
    BY <2>1, <2>2
<1>8. ASSUME b \notin contested PROVE UndisturbedBill(b)'
  <2>1. d.row = old /\ UndisturbedBill(b)
    BY <1>1, <1>2, <1>8 DEF ReadByBuyer, BillOK
  <2>2. new.total = new.units + costs'[b] /\ new.paid = payments'[b]
    BY <1>3, <1>4, <2>1 DEF UndisturbedBill
  <2>3. brought'[b] = 0 /\ (b \notin billUnmapped' => Balance(billBooks'[b]) = 0)
    <3>1. CASE old.status = "DRAFT"
      BY <1>4, <1>6, <2>1, <3>1 DEF UndisturbedBill
    <3>2. CASE old.status # "DRAFT"
      <4>1. old.status \in Posted /\ old.units \in Nat /\ old.total \in Nat
        BY <1>1, <1>2, <2>1, <3>2 DEF ReadByBuyer, Bill
      <4>2. brought'[b] = 0
        <5>1. brought' = [brought EXCEPT ![b] = @ - old.units]
          BY <1>4, <2>1, <3>2
        <5>2. brought[b] = old.units
          BY <2>1, <4>1 DEF UndisturbedBill
        <5>3. brought'[b] = brought[b] - old.units
          BY <1>2, <5>1 DEF PurchaseInvoicesInv, PurchaseInvoicesTypeOK
        <5> QED
          BY <4>1, <5>2, <5>3
      <4>3. ASSUME b \notin billUnmapped' PROVE Balance(billBooks'[b]) = 0
        <5>1. b \notin billUnmapped /\ billBooks'[b] = Booked(billBooks[b], "reverse", -old.total)
          BY <1>2, <1>4, <2>1, <3>2, <4>3, BookBillChanges
        <5>2. billBooks[b] = Booked(NoEntries, "post", old.total)
          BY <2>1, <4>1, <5>1 DEF UndisturbedBill
        <5> QED
          BY <4>1, <5>1, <5>2, PostedAndReversed
      <4> QED
        BY <4>2, <4>3
    <3> QED
      BY <3>1, <3>2
  <2> QED
    BY <1>3, <1>5, <1>6, <2>2, <2>3 DEF UndisturbedBill
<1>9. BillOK(b)'
  BY <1>2, <1>3, <1>4, <1>5, <1>6, <1>8 DEF BillOK
<1>10. PurchaseInvoicesTypeOK'
  BY <1>1, <1>4, <1>5, <1>7, BuyerTypes DEF PurchaseInvoicesInv, PurchaseInvoicesTypeOK, Ends
<1>11. \A x \in Bills \ {b} : SameBill(x)
  BY <1>4, <1>5, <1>7 DEF SameBill
<1>12. bill'[b].status # "absent" /\ payments'[b] >= payments[b]
  BY <1>2, <1>3, <1>4, <1>5
<1> QED
  BY <1>1, <1>4, <1>7, <1>9, <1>10, <1>11, <1>12, BuyerEnds

\* recalculate reads the bill as it is now...
LEMMA RecalculateInv ==
  ASSUME PurchaseInvoicesInv, NEW c \in Buyers, Recalculate(c)
  PROVE  PurchaseInvoicesInv'
<1> PICK d, b, saw, m, p :
      /\ d = doing[c] /\ b = doing[c].at /\ saw = bill[b].status
      /\ m = CostsAfter(d) /\ p = PaidAfter(d)
  OBVIOUS
<1> PICK new, e :
      /\ new = Recalculated(bill[b], m, p)
      /\ e = [d EXCEPT !.summed = TRUE, !.saw = saw, !.next = new]
  OBVIOUS
<1>1. d.op \in {"add", "drop", "pay"} /\ Kept(b)
  BY DEF Recalculate
<1>2. /\ b \in Bills /\ bill[b] \in Bill /\ costs[b] \in Nat /\ payments[b] \in Nat
      /\ d.n \in Nat /\ BillOK(b) /\ ReadByBuyer(c) /\ d \in Doing
  BY <1>1, BuyerTypes
<1>3. m \in Nat /\ p \in Nat
  BY <1>2 DEF CostsAfter, PaidAfter
<1>4. /\ new \in Bill /\ new.paid = p
      /\ saw \notin Posted => new.status = saw
      /\ saw \in Posted => new.status \in Posted
  <2> PICK row : row = bill[b]
    OBVIOUS
  <2>1. row \in Bill /\ m \in Nat /\ p \in Nat /\ new = Recalculated(row, m, p) /\ row.status = saw
    BY <1>2, <1>3
  <2> QED
    BY ONLY <2>1, RecalculatedRow
<1>5. saw \in BillStatuses
  BY <1>2 DEF Bill
<1>6. /\ e \in Doing /\ e.op = d.op /\ e.at = d.at /\ e.row = d.row /\ e.n = d.n
      /\ e.summed = TRUE /\ e.saw = saw /\ e.next = new
  BY <1>2, <1>4, <1>5 DEF Doing
<1>7. /\ doing' = [doing EXCEPT ![c] = e]
      /\ UNCHANGED <<bill, costs, payments, brought, credited, billBooks, contested, reverted, billUnmapped>>
  BY DEF Recalculate
<1>8. /\ doing'[c] = e /\ \A q \in Buyers \ {c} : doing'[q] = doing[q]
      /\ doing' \in [Buyers -> Doing]
  BY <1>6, <1>7 DEF PurchaseInvoicesInv, PurchaseInvoicesTypeOK
<1>9. \A x \in Bills : BillOK(x)'
  BY <1>7, SameBillIsOK DEF PurchaseInvoicesInv, SameBill
<1>10. ReadByBuyer(c)'
  <2>1. CostsAfter(e)' = m /\ PaidAfter(e)' = p
    BY <1>6, <1>7 DEF CostsAfter, PaidAfter
  <2>2. saw \in Posted \cup {"DRAFT", "CANCELLED"}
    BY <1>1, <1>2, <1>5 DEF BillStatuses, Kept
  <2>3. b \notin contested => d.row = bill[b]
    BY <1>1, <1>2 DEF ReadByBuyer
  <2>4. new.paid <= p
    BY <1>3, <1>4
  <2> QED
    BY <1>1, <1>2, <1>4, <1>6, <1>7, <1>8, <2>1, <2>2, <2>3, <2>4 DEF ReadByBuyer
<1>11. \A q \in Buyers \ {c} : ReadByBuyer(q)'
  BY <1>7, <1>8, SameBillIsRead DEF PurchaseInvoicesInv, SameBill
<1>12. BuyersApart'
  BY <1>6, <1>7, <1>8 DEF PurchaseInvoicesInv, BuyersApart
<1> QED
  BY <1>7, <1>8, <1>9, <1>10, <1>11, <1>12 DEF PurchaseInvoicesInv, PurchaseInvoicesTypeOK

\* ...and writes what it has computed, with its cost or payment.
LEMMA CommitRecalculatedInv ==
  ASSUME PurchaseInvoicesInv, NEW c \in Buyers, CommitRecalculated(c)
  PROVE  PurchaseInvoicesInv'
<1> PICK d, b, old, m, p, next :
      /\ d = doing[c] /\ b = doing[c].at /\ old = bill[b] /\ next = d.next
      /\ m = CostsAfter(d) /\ p = PaidAfter(d)
  OBVIOUS
<1> PICK new :
      new = [old EXCEPT !.total = next.total, !.paid = next.paid, !.status = next.status]
  OBVIOUS
<1>1. d.summed /\ d.op # "none" /\ Kept(b)
  <2>1. d.summed /\ Kept(b)
    BY DEF CommitRecalculated
  <2>2. d.op = "none" => d = Nothing
    BY DEF PurchaseInvoicesInv, ReadByBuyer
  <2>3. ~Nothing.summed
    BY DEF Nothing
  <2> QED
    BY <2>1, <2>2, <2>3
<1>2. /\ b \in Bills /\ old \in Bill /\ costs[b] \in Nat /\ payments[b] \in Nat
      /\ next \in Bill /\ d.n \in Nat /\ BillOK(b) /\ ReadByBuyer(c)
  BY <1>1, BuyerTypes
<1>3. m \in Nat /\ p \in Nat /\ p >= payments[b]
  BY <1>2 DEF CostsAfter, PaidAfter
<1>4. /\ new \in Bill /\ new.units = old.units /\ new.total = next.total
      /\ new.paid = next.paid /\ new.status = next.status
  BY <1>2 DEF Bill
<1>5. /\ bill' = [bill EXCEPT ![b] = new] /\ Ends(c)
      /\ costs' = [costs EXCEPT ![b] = m] /\ payments' = [payments EXCEPT ![b] = p]
      /\ reverted' = IF old.status # d.saw THEN reverted \cup {b} ELSE reverted
      /\ UNCHANGED <<brought, credited, billBooks, contested, billUnmapped>>
  BY <1>4 DEF CommitRecalculated
<1>6. /\ bill'[b] = new /\ costs'[b] = m /\ payments'[b] = p
      /\ \A x \in Bills \ {b} : /\ bill'[x] = bill[x] /\ costs'[x] = costs[x]
                                /\ payments'[x] = payments[x]
                                /\ x \in reverted' <=> x \in reverted
      /\ bill' \in [Bills -> Bill] /\ costs' \in [Bills -> Nat] /\ payments' \in [Bills -> Nat]
  BY <1>2, <1>3, <1>4, <1>5 DEF PurchaseInvoicesInv, PurchaseInvoicesTypeOK
<1>7. /\ d.op \in {"add", "drop", "pay"}
      /\ d.saw \in Posted \cup {"DRAFT", "CANCELLED"}
      /\ next.status = d.saw \/ {next.status, d.saw} \subseteq Posted
      /\ next.paid <= p
      /\ b \notin contested => /\ d.row = old /\ d.saw = old.status
                               /\ next = Recalculated(old, m, p)
  BY <1>1, <1>2 DEF ReadByBuyer
<1>8. "DRAFT" \notin Posted /\ "absent" \notin Posted /\ "CANCELLED" \notin Posted
  BY DEF Posted
<1>9. ASSUME b \notin contested PROVE UndisturbedBill(b)'
  <2>1. d.saw = old.status /\ d.row = old /\ next = Recalculated(old, m, p) /\ UndisturbedBill(b)
    BY <1>2, <1>7, <1>9 DEF BillOK
  <2>2. /\ next.total = old.units + m /\ next.paid = p
        /\ old.status \notin Posted => next.status = old.status
        /\ old.status \in Posted => next.status \in Posted /\ (next.status = "PAID" <=> p >= next.total)
    <3>1. old \in Bill
      BY <1>2
    <3> QED
      BY ONLY <1>3, <2>1, <3>1, RecalculatedRow
  <2>3. CASE d.op = "pay"
    <3>1. m = costs[b] /\ old.status \in Posted
      BY <1>2, <2>1, <2>3 DEF CostsAfter, ReadByBuyer
    <3>2. next.total = old.total
      BY <2>1, <2>2, <3>1 DEF UndisturbedBill
    <3>3. new.status \in Posted /\ (new.status = "PAID" <=> p >= new.total)
      BY <1>4, <2>2, <3>1
    <3>4. /\ brought[b] = old.units
          /\ b \notin billUnmapped =>
               Balance(billBooks[b]) = old.total /\ billBooks[b] = Booked(NoEntries, "post", old.total)
      BY <2>1, <3>1 DEF UndisturbedBill
    <3>5. new.total = new.units + m /\ new.total = old.total /\ new.paid = p /\ new.units = old.units
      BY <1>4, <2>2, <3>2
    <3>6. new.status \notin {"absent", "DRAFT"}
      BY <1>8, <3>3
    <3>7. /\ bill'[b] = new /\ costs'[b] = m /\ payments'[b] = p
          /\ brought'[b] = brought[b] /\ billBooks'[b] = billBooks[b]
          /\ b \in billUnmapped' <=> b \in billUnmapped
      BY <1>5, <1>6
    <3> QED
      BY ONLY <3>3, <3>4, <3>5, <3>6, <3>7 DEF UndisturbedBill
  <2>4. CASE d.op # "pay"
    <3>1. old.status = "DRAFT"
      BY <1>2, <1>7, <2>1, <2>4 DEF ReadByBuyer
    <3>2. /\ new.total = new.units + m /\ new.paid = p
          /\ new.status = "DRAFT" /\ "DRAFT" \notin Posted
      BY <1>4, <1>8, <2>2, <3>1
    <3>3. /\ brought'[b] = 0
          /\ b \notin billUnmapped' => Balance(billBooks'[b]) = 0 /\ billBooks'[b] = NoEntries
      BY <1>5, <2>1, <3>1, <3>2 DEF UndisturbedBill
    <3> QED
      BY <1>6, <3>2, <3>3 DEF UndisturbedBill
  <2> QED
    BY <2>3, <2>4
<1>10. BillOK(b)'
  <2>1. ASSUME b \notin reverted'
        PROVE  /\ credited'[b] <= 1
               /\ new.status \in Posted => credited'[b] = 1
               /\ new.status \in {"absent", "DRAFT"} => credited'[b] = 0
    BY <1>2, <1>4, <1>5, <1>7, <1>8, <2>1 DEF BillOK
  <2> QED
    BY <1>4, <1>5, <1>6, <1>7, <1>8, <1>9, <2>1 DEF BillOK
<1>11. PurchaseInvoicesTypeOK' /\ DOMAIN billBooks' = Bills
  <2>1. reverted' \subseteq contested'
    BY <1>5, <1>7 DEF PurchaseInvoicesInv, PurchaseInvoicesTypeOK
  <2> QED
    BY <1>1, <1>5, <1>6, <2>1, BuyerTypes DEF PurchaseInvoicesInv, PurchaseInvoicesTypeOK, Ends
<1>12. \A x \in Bills \ {b} : SameBill(x)
  BY <1>5, <1>6 DEF SameBill
<1>13. bill'[b].status # "absent" /\ payments'[b] >= payments[b]
  BY <1>3, <1>4, <1>6, <1>7, <1>8
<1> QED
  BY <1>1, <1>5, <1>10, <1>11, <1>12, <1>13, BuyerEnds

\* A request that fails leaves its bill as it is.
LEMMA FailPurchaseInv ==
  ASSUME PurchaseInvoicesInv, NEW c \in Buyers, FailPurchase(c)
  PROVE  PurchaseInvoicesInv'
<1> PICK b : b = doing[c].at
  OBVIOUS
<1>1. doing[c].op # "none"
  BY DEF FailPurchase, PurchaseInvoicesInv, ReadByBuyer
<1>2. /\ Ends(c)
      /\ UNCHANGED <<bill, costs, payments, brought, credited, billBooks, contested, reverted, billUnmapped>>
  BY DEF FailPurchase
<1>3. b \in Bills /\ BillOK(b) /\ payments[b] \in Nat /\ bill[b].status # "absent"
  BY <1>1, BuyerTypes DEF ReadByBuyer
<1>4. \A x \in Bills : SameBill(x)
  BY <1>2 DEF SameBill
<1>5. BillOK(b)'
  BY <1>3, <1>4, SameBillIsOK
<1>6. PurchaseInvoicesTypeOK' /\ DOMAIN billBooks' = Bills
  BY <1>1, <1>2, BuyerTypes DEF PurchaseInvoicesInv, PurchaseInvoicesTypeOK, Ends
<1>7. bill'[b].status # "absent" /\ payments'[b] >= payments[b]
  BY <1>2, <1>3
<1> QED
  BY <1>1, <1>2, <1>4, <1>5, <1>6, <1>7, BuyerEnds

\* Every step keeps the invariant.
LEMMA PurchaseNextInv ==
  ASSUME PurchaseInvoicesInv, [PurchaseNext]_purchaseVars
  PROVE  PurchaseInvoicesInv'
<1>1. CASE UNCHANGED purchaseVars
  <2>1. \A b \in Bills : SameBill(b)
    BY <1>1 DEF purchaseVars, SameBill
  <2>2. \A b \in Bills : BillOK(b)'
    BY <2>1, SameBillIsOK DEF PurchaseInvoicesInv
  <2>3. \A c \in Buyers : ReadByBuyer(c)'
    BY <1>1, <2>1, SameBillIsRead DEF PurchaseInvoicesInv, ReadByBuyer, purchaseVars
  <2> QED
    BY <1>1, <2>2, <2>3 DEF purchaseVars, PurchaseInvoicesInv, PurchaseInvoicesTypeOK, BuyersApart
<1>2. CASE \E b \in Bills : CreatePurchaseInvoice(b)
  BY <1>2, CreatePurchaseInv
<1>3. ASSUME NEW c \in Buyers, StartPurchase(c) PROVE PurchaseInvoicesInv'
  <2>1. PICK b \in Bills : ReadDraft(c, b) \/ ReadBillForCancel(c, b) \/ ReadBillForPayment(c, b)
    BY <1>3 DEF StartPurchase
  <2>2. bill[b].status \in BillStatuses
    BY DEF PurchaseInvoicesInv, PurchaseInvoicesTypeOK, Bill
  <2>3. CASE ReadDraft(c, b)
    <3>1. PICK op \in {"update", "remove", "add", "drop", "post"}, n \in Nat : Read(c, b, op, n)
      BY <2>3, BillUnitsAssumption DEF ReadDraft
    <3> QED
      BY <2>3, <3>1, BuyerReads DEF ReadDraft
  <2>4. CASE ReadBillForCancel(c, b)
    BY <2>2, <2>4, BuyerReads DEF ReadBillForCancel, Kept, BillStatuses
  <2>5. CASE ReadBillForPayment(c, b)
    <3>1. PICK n \in Nat : Read(c, b, "pay", n) /\ bill[b].status \in Posted
      BY <2>5, PaymentsAssumption DEF ReadBillForPayment
    <3> QED
      BY <3>1, BuyerReads DEF Posted
  <2> QED
    BY <2>1, <2>3, <2>4, <2>5
<1>4. ASSUME NEW c \in Buyers, ContinuePurchase(c) PROVE PurchaseInvoicesInv'
  BY <1>4, UpdatePurchaseInv, RemovePurchaseInv, PostPurchaseInv, CancelPurchaseInv,
     RecalculateInv, CommitRecalculatedInv, FailPurchaseInv DEF ContinuePurchase
<1> QED
  BY <1>1, <1>2, <1>3, <1>4 DEF PurchaseNext

\* The inductive invariant holds of every behaviour.
THEOREM PurchaseInvoicesInvariant == PurchaseSpec => []PurchaseInvoicesInv
<1>1. PurchaseInvoicesInv /\ [PurchaseNext]_purchaseVars => PurchaseInvoicesInv'
  BY PurchaseNextInv
<1> QED
  BY PurchaseInitInv, <1>1, PTL DEF PurchaseSpec

\* The goods of a bill come in once, however postings, edits, costs and payments
\* overlap, and its books move with them.
THEOREM GoodsHaveComeInOnce == PurchaseSpec => []PurchasesMoveGoodsOnce
<1>1. PurchaseInvoicesInv => PurchasesMoveGoodsOnce
  BY DEF PurchaseInvoicesInv, BillOK, UndisturbedBill, PurchasesMoveGoodsOnce, GoodsComeInOnce,
         BooksMoveWithGoods
<1> QED
  BY <1>1, PurchaseInvoicesInvariant, PTL

\* What a bill shows as paid was recorded.
THEOREM PaymentsWereRecorded == PurchaseSpec => []PaidWasRecorded
<1>1. PurchaseInvoicesInv => PaidWasRecorded
  BY DEF PurchaseInvoicesInv, BillOK, UndisturbedBill, PaidWasRecorded
<1> QED
  BY <1>1, PurchaseInvoicesInvariant, PTL

-----------------------------------------------------------------------------
(* Sales invoices *)

\* What the customer owes on a row.
Due(row) == IF row.status \in Open THEN row.units - row.paid ELSE 0

InBooks == Open \cup {"PAID"}
Unbooked == {"absent", "DRAFT"}

\* Nothing has been done for a draft; while nobody edits, removes or cancels an
\* invoice as another request runs, its goods are those of its notes, and while
\* no two requests overlap on it, its books show them and it shows its payments.
InvoiceOK(i) ==
  LET row == invoice[i]
  IN  /\ row.status \in Unbooked =>
           /\ notes[i] = << >> /\ shipped[i] = 0 /\ books[i] = NoEntries
           /\ row.paid = 0 /\ received[i] = 0
      /\ i \notin crossed =>
           /\ shipped[i] = NoteUnits(i, Current(i))
           /\ row.status # "CANCELLED" => Current(i) = DOMAIN notes[i]
           /\ row.paid <= row.units
      /\ i \notin overlapped =>
           /\ row.paid = received[i]
           /\ row.status = "PAID" => row.paid >= row.units
           /\ i \notin unmapped =>
                /\ Balance(books[i]) = shipped[i]
                /\ row.status \in InBooks =>
                     shipped[i] = row.units /\ books[i] = Booked(NoEntries, "post", row.units)

\* What a request has read: while no other request is on the invoice it is what
\* the invoice still is, and what only an edit, a removal or a cancellation
\* changes it still is while there was none.
ReadByClerk(c) ==
  LET a == asked[c]
      i == a.at
      row == invoice[i]
  IN  /\ a.op = "none" => a = NotAsked
      /\ a.op # "none" =>
           /\ i \in Invoices /\ row.status # "absent"
           /\ a.op \in {"update", "remove", "post"} => a.row.status = "DRAFT"
           /\ a.op = "pay" => a.row.paid + a.n <= a.row.units /\ a.row.status \in InBooks
           /\ a.op = "deliver" => a.n \in DOMAIN notes[i]
           /\ a.op = "cancel" => a.row.status \in InBooks \cup {"DRAFT"}
           /\ i \notin crossed =>
                /\ a.row.units = row.units
                /\ a.op = "deliver" => a.n \in Current(i)
                /\ a.op \in {"post", "pay"} => row.status # "CANCELLED"
                /\ a.op \in Disturbing =>
                     a.row = row /\ a.back = NoteUnits(i, DOMAIN notes[i])
           /\ i \notin overlapped => a.row = row
      /\ a.granted => /\ a.op = "post"
                      /\ rushed \/ overlapped # {} \/ Owed(Invoices \ {i}) + a.row.units <= Limit

\* Two requests on an invoice have overlapped, and two granted postings rushed.
ClerksApart ==
  \A c, d \in Clerks : c # d =>
    /\ asked[c].at = asked[d].at /\ asked[c].op # "none" =>
         /\ asked[c].at \in overlapped
         /\ asked[c].op \in Disturbing => asked[c].at \in crossed
    /\ asked[c].granted /\ asked[d].granted => rushed

SalesInvoicesInv ==
  /\ SalesInvoicesTypeOK
  /\ DOMAIN books = Invoices
  /\ \A i \in Invoices : InvoiceOK(i)
  /\ \A c \in Clerks : ReadByClerk(c)
  /\ ClerksApart
  /\ OutstandingWithinLimit

\* The notes of an invoice, and those that are not cancelled.
UnitsOf(ns) == [j \in DOMAIN ns |-> ns[j].units]
CurrentOf(ns) == {j \in DOMAIN ns : ns[j].status # "cancelled"}

\* Notes are finitely many.
LEMMA NotesTypes ==
  ASSUME NEW ns \in Seq(Note)
  PROVE  /\ IsFiniteSet(DOMAIN ns) /\ DOMAIN ns = 1..Len(ns) /\ Len(ns) \in Nat
         /\ \A j \in DOMAIN ns : ns[j] \in Note /\ UnitsOf(ns)[j] \in Nat /\ UnitsOf(ns)[j] = ns[j].units
         /\ IsFiniteSet(CurrentOf(ns))
<1>1. DOMAIN ns = 1..Len(ns) /\ Len(ns) \in Nat /\ Len(ns) \in Int /\ 1 \in Int
  OBVIOUS
<1>2. IsFiniteSet(1..Len(ns))
  BY ONLY <1>1, FS_Interval
<1>3. \A j \in DOMAIN ns : ns[j] \in Note
  OBVIOUS
<1>4. \A j \in DOMAIN ns : UnitsOf(ns)[j] \in Nat /\ UnitsOf(ns)[j] = ns[j].units
  BY <1>3 DEF UnitsOf, Note
<1>5. IsFiniteSet(CurrentOf(ns))
  BY <1>1, <1>2, FS_Subset DEF CurrentOf
<1> QED
  BY <1>1, <1>2, <1>3, <1>4, <1>5

\* new: the notes ns with another one of n units, or with note n delivered.
Issued(new, ns, n) == new = Append(ns, [units |-> n, status |-> "issued"])
Delivered(new, ns, n) == new = [ns EXCEPT ![n].status = "delivered"]

\* A note that is issued adds its units.
LEMMA NoteIssued ==
  ASSUME NEW ns \in Seq(Note), NEW n \in Nat, NEW new, Issued(new, ns, n)
  PROVE  /\ new \in Seq(Note) /\ DOMAIN ns \subseteq DOMAIN new
         /\ CurrentOf(ns) \subseteq CurrentOf(new)
         /\ CurrentOf(ns) = DOMAIN ns => CurrentOf(new) = DOMAIN new
         /\ SumFunctionOnSet(UnitsOf(new), CurrentOf(new))
              = SumFunctionOnSet(UnitsOf(ns), CurrentOf(ns)) + n
<1> PICK note, newest : note = [units |-> n, status |-> "issued"] /\ newest = Len(ns) + 1
  OBVIOUS
<1>1. note \in Note /\ note.units = n /\ note.status # "cancelled"
  BY DEF Note
<1>2. /\ new \in Seq(Note) /\ Len(new) = newest /\ new[newest] = note
      /\ \A j \in 1..Len(ns) : new[j] = ns[j]
  BY <1>1 DEF Issued
<1>3. /\ DOMAIN ns = 1..Len(ns) /\ Len(ns) \in Nat /\ DOMAIN new = DOMAIN ns \cup {newest}
      /\ newest \notin DOMAIN ns
  BY <1>2
<1>4. CurrentOf(new) = CurrentOf(ns) \cup {newest} /\ newest \notin CurrentOf(ns)
  BY <1>1, <1>2, <1>3 DEF CurrentOf
<1>5. /\ UnitsOf(new)[newest] = n
      /\ \A j \in CurrentOf(ns) : UnitsOf(new)[j] = UnitsOf(ns)[j] /\ UnitsOf(ns)[j] \in Int
  <2>1. \A j \in DOMAIN new : UnitsOf(new)[j] = new[j].units
    BY DEF UnitsOf
  <2>2. \A j \in DOMAIN ns : UnitsOf(ns)[j] = ns[j].units /\ UnitsOf(ns)[j] \in Int
    BY NotesTypes
  <2> QED
    BY <1>1, <1>2, <1>3, <2>1, <2>2 DEF CurrentOf
<1>6. IsFiniteSet(CurrentOf(ns))
  BY NotesTypes
<1>7. SumFunctionOnSet(UnitsOf(new), CurrentOf(ns) \cup {newest})
        = SumFunctionOnSet(UnitsOf(new), CurrentOf(ns)) + UnitsOf(new)[newest]
  <2> PICK f, S : f = UnitsOf(new) /\ S = CurrentOf(ns)
    OBVIOUS
  <2>1. IsFiniteSet(S) /\ newest \notin S /\ \A j \in S \cup {newest} : f[j] \in Int
    BY <1>4, <1>5, <1>6
  <2>2. SumFunctionOnSet(f, S \cup {newest}) = SumFunctionOnSet(f, S) + f[newest]
    BY ONLY <2>1, SumGainsElement
  <2> QED
    BY <2>2
<1>8. SumFunctionOnSet(UnitsOf(new), CurrentOf(ns)) = SumFunctionOnSet(UnitsOf(ns), CurrentOf(ns))
  <2> PICK f, g, S : f = UnitsOf(new) /\ g = UnitsOf(ns) /\ S = CurrentOf(ns)
    OBVIOUS
  <2>1. IsFiniteSet(S) /\ \A j \in S : f[j] \in Int /\ f[j] = g[j]
    BY <1>5, <1>6
  <2>2. SumFunctionOnSet(f, S) = SumFunctionOnSet(g, S)
    BY ONLY <2>1, SumOfEquals
  <2> QED
    BY <2>2
<1> QED
  BY <1>2, <1>3, <1>4, <1>5, <1>7, <1>8

\* Cancelled notes are no longer current.
LEMMA NotesCancelled ==
  ASSUME NEW ns \in Seq(Note), NEW new, new = [j \in DOMAIN ns |-> [ns[j] EXCEPT !.status = "cancelled"]]
  PROVE  new \in Seq(Note) /\ DOMAIN new = DOMAIN ns /\ CurrentOf(new) = {}
<1>1. DOMAIN ns = 1..Len(ns) /\ Len(ns) \in Nat /\ \A j \in DOMAIN ns : ns[j] \in Note
  BY NotesTypes
<1>2. \A j \in DOMAIN ns : /\ [ns[j] EXCEPT !.status = "cancelled"] \in Note
                           /\ [ns[j] EXCEPT !.status = "cancelled"].status = "cancelled"
  BY <1>1 DEF Note
<1>3. new \in [1..Len(ns) -> Note]
  BY <1>1, <1>2
<1>4. new \in Seq(Note)
  <2> PICK n \in Nat : n = Len(ns)
    BY <1>1
  <2>1. new \in [1..n -> Note]
    BY <1>3
  <2> QED
    BY <2>1, SeqDef
<1> QED
  BY <1>2, <1>4 DEF CurrentOf

\* A delivered note stays what it was of.
LEMMA NoteDelivered ==
  ASSUME NEW ns \in Seq(Note), NEW n \in DOMAIN ns, NEW new, Delivered(new, ns, n)
  PROVE  /\ new \in Seq(Note) /\ DOMAIN new = DOMAIN ns
         /\ CurrentOf(ns) \subseteq CurrentOf(new)
         /\ n \in CurrentOf(ns) =>
              /\ CurrentOf(new) = CurrentOf(ns)
              /\ SumFunctionOnSet(UnitsOf(new), CurrentOf(new)) = SumFunctionOnSet(UnitsOf(ns), CurrentOf(ns))
<1>1. DOMAIN ns = 1..Len(ns) /\ Len(ns) \in Nat /\ \A j \in DOMAIN ns : ns[j] \in Note
  BY NotesTypes
<1> PICK note : note = [ns[n] EXCEPT !.status = "delivered"]
  OBVIOUS
<1>2. note \in Note /\ note.units = ns[n].units /\ note.status = "delivered"
  BY <1>1 DEF Note
<1>3. /\ new = [j \in DOMAIN ns |-> IF j = n THEN note ELSE ns[j]]
      /\ new[n] = note /\ DOMAIN new = DOMAIN ns /\ \A j \in DOMAIN ns \ {n} : new[j] = ns[j]
  BY DEF Delivered
<1>4. new \in Seq(Note)
  <2>1. new \in [1..Len(ns) -> Note]
    BY <1>1, <1>2, <1>3
  <2> PICK m \in Nat : m = Len(ns)
    BY <1>1
  <2>2. new \in [1..m -> Note]
    BY <2>1
  <2> QED
    BY <2>2, SeqDef
<1>5. CurrentOf(ns) \subseteq CurrentOf(new) /\ (n \in CurrentOf(ns) => CurrentOf(new) = CurrentOf(ns))
  BY <1>2, <1>3 DEF CurrentOf
<1>6. SumFunctionOnSet(UnitsOf(new), CurrentOf(ns)) = SumFunctionOnSet(UnitsOf(ns), CurrentOf(ns))
  <2> PICK f, g, S : f = UnitsOf(new) /\ g = UnitsOf(ns) /\ S = CurrentOf(ns)
    OBVIOUS
  <2>1. IsFiniteSet(S) /\ S \subseteq DOMAIN ns
    BY NotesTypes DEF CurrentOf
  <2>2. \A j \in DOMAIN ns : g[j] \in Int /\ g[j] = ns[j].units
    BY NotesTypes
  <2>3. \A j \in DOMAIN ns : f[j] = new[j].units
    BY <1>3 DEF UnitsOf
  <2>4. \A j \in S : f[j] \in Int /\ f[j] = g[j]
    <3> TAKE j \in S
    <3>1. CASE j = n
      BY <1>2, <1>3, <2>1, <2>2, <2>3, <3>1
    <3>2. CASE j # n
      <4>1. j \in DOMAIN ns /\ new[j] = ns[j]
        BY <1>3, <2>1, <3>2
      <4>2. f[j] = new[j].units /\ g[j] = ns[j].units /\ g[j] \in Int
        BY <2>2, <2>3, <4>1
      <4> QED
        BY ONLY <4>1, <4>2
    <3> QED
      BY <3>1, <3>2
  <2>5. SumFunctionOnSet(f, S) = SumFunctionOnSet(g, S)
    BY ONLY <2>1, <2>4, SumOfEquals
  <2> QED
    BY <2>5
<1> QED
  BY <1>3, <1>4, <1>5, <1>6

\* What the customer owes is a sum over the invoices.
LEMMA OwedIsSum ==
  ASSUME NEW rows \in [Invoices -> Invoice], NEW I \in SUBSET Invoices,
         NEW due, due = [i \in Invoices |-> Due(rows[i])]
  PROVE  /\ SumFunctionOnSet([i \in Invoices |-> rows[i].units - rows[i].paid],
                             {i \in I : rows[i].status \in Open}) = SumFunctionOnSet(due, I)
         /\ IsFiniteSet(I) /\ \A i \in I : due[i] \in Int
<1> PICK f, C : /\ f = [i \in Invoices |-> rows[i].units - rows[i].paid]
                /\ C = {i \in I : rows[i].status \in Open}
  OBVIOUS
<1>1. IsFiniteSet(I) /\ C \subseteq I
  BY InvoicesAssumption, FS_Subset
<1>2. \A i \in I : rows[i] \in Invoice /\ f[i] \in Int
  BY DEF Invoice
<1>3. /\ \A i \in C : f[i] \in Int /\ due[i] = f[i]
      /\ \A i \in I \ C : due[i] = 0
  BY <1>2 DEF Due
<1>4. SumFunctionOnSet(f, C) = SumFunctionOnSet(due, I)
  BY ONLY <1>1, <1>3, SumOfChosen
<1>5. \A i \in I : due[i] \in Int
  BY <1>2 DEF Due, Invoice
<1> QED
  BY <1>1, <1>4, <1>5

\* It does not grow when no invoice is owed more.
LEMMA OwedShrinks ==
  ASSUME invoice \in [Invoices -> Invoice], invoice' \in [Invoices -> Invoice],
         \A x \in Invoices : Due(invoice'[x]) <= Due(invoice[x]), NEW I \in SUBSET Invoices
  PROVE  Owed(I) \in Int /\ Owed(I)' \in Int /\ Owed(I)' <= Owed(I)
<1> PICK f, g : f = [i \in Invoices |-> Due(invoice'[i])] /\ g = [i \in Invoices |-> Due(invoice[i])]
  OBVIOUS
<1> PICK rows, rows2 : rows = invoice /\ rows2 = invoice'
  OBVIOUS
<1>1. /\ Owed(I) = SumFunctionOnSet(g, I) /\ IsFiniteSet(I) /\ \A i \in I : g[i] \in Int
  <2>1. rows \in [Invoices -> Invoice] /\ I \in SUBSET Invoices /\ g = [i \in Invoices |-> Due(rows[i])]
    OBVIOUS
  <2>2. /\ SumFunctionOnSet([i \in Invoices |-> rows[i].units - rows[i].paid],
                            {i \in I : rows[i].status \in Open}) = SumFunctionOnSet(g, I)
        /\ IsFiniteSet(I) /\ \A i \in I : g[i] \in Int
    BY ONLY <2>1, OwedIsSum
  <2> QED
    BY <2>2 DEF Owed
<1>2. /\ Owed(I)' = SumFunctionOnSet(f, I) /\ \A i \in I : f[i] \in Int
  <2>1. rows2 \in [Invoices -> Invoice] /\ I \in SUBSET Invoices /\ f = [i \in Invoices |-> Due(rows2[i])]
    OBVIOUS
  <2>2. /\ SumFunctionOnSet([i \in Invoices |-> rows2[i].units - rows2[i].paid],
                            {i \in I : rows2[i].status \in Open}) = SumFunctionOnSet(f, I)
        /\ \A i \in I : f[i] \in Int
    BY ONLY <2>1, OwedIsSum
  <2> QED
    BY <2>2 DEF Owed
<1>3. \A i \in I : f[i] <= g[i]
  OBVIOUS
<1> QED
  BY <1>1, <1>2, <1>3, SumIsMonotonic, SumIsInt

\* Nobody has worked on invoice i.
SameInvoice(i) ==
  /\ invoice'[i] = invoice[i] /\ notes'[i] = notes[i] /\ shipped'[i] = shipped[i]
  /\ books'[i] = books[i] /\ received'[i] = received[i]
  /\ i \in overlapped' <=> i \in overlapped
  /\ i \in crossed' <=> i \in crossed
  /\ i \in unmapped' <=> i \in unmapped

\* What holds of an invoice holds while nobody works on it.
LEMMA SameInvoiceIsOK ==
  ASSUME NEW i \in Invoices, InvoiceOK(i), SameInvoice(i)
  PROVE  InvoiceOK(i)'
BY DEF InvoiceOK, SameInvoice, NoteUnits, Current

\* A request that ends on its invoice leaves the others where they were.
LEMMA ClerkEnds ==
  ASSUME SalesInvoicesInv, NEW c \in Clerks, asked[c].op # "none", NEW i, i = asked[c].at, Done(c),
         SalesInvoicesTypeOK', DOMAIN books' = Invoices, UNCHANGED <<overlapped, crossed, rushed>>,
         \A x \in Invoices \ {i} : SameInvoice(x),
         InvoiceOK(i)', invoice'[i].status # "absent",
         DOMAIN notes[i] \subseteq DOMAIN notes'[i],
         \/ asked[c].op \in Disturbing
         \/ /\ invoice'[i].units = invoice[i].units
            /\ invoice[i].status # "CANCELLED" => invoice'[i].status # "CANCELLED"
            /\ Current(i) \subseteq Current(i)',
         asked[c].granted => OutstandingWithinLimit',
         ~asked[c].granted => \/ rushed \/ overlapped # {}
                              \/ Due(invoice'[i]) <= Due(invoice[i])
  PROVE  SalesInvoicesInv'
<1>1. asked'[c] = NotAsked /\ \A d \in Clerks \ {c} : asked'[d] = asked[d]
  BY DEF Done, SalesInvoicesInv, SalesInvoicesTypeOK
<1>2. \A x \in Invoices : InvoiceOK(x)'
  BY SameInvoiceIsOK DEF SalesInvoicesInv
<1>3. i \in Invoices
  BY DEF SalesInvoicesInv, ReadByClerk
<1>4. ASSUME ~asked[c].granted, ~rushed, overlapped = {}
      PROVE  \A I \in SUBSET Invoices : Owed(I) \in Int /\ Owed(I)' \in Int /\ Owed(I)' <= Owed(I)
  <2>1. invoice \in [Invoices -> Invoice] /\ invoice' \in [Invoices -> Invoice]
    BY DEF SalesInvoicesInv, SalesInvoicesTypeOK
  <2>2. \A x \in Invoices : Due(invoice[x]) \in Int
    BY <2>1 DEF Due, Invoice
  <2>3. \A x \in Invoices : Due(invoice'[x]) <= Due(invoice[x])
    BY <1>4, <2>2 DEF SameInvoice
  <2> QED
    BY <2>1, <2>3, OwedShrinks
<1>5. OutstandingWithinLimit'
  <2>1. CASE asked[c].granted \/ rushed \/ overlapped # {}
    BY <2>1 DEF OutstandingWithinLimit
  <2>2. CASE ~asked[c].granted /\ ~rushed /\ overlapped = {}
    <3>1. Owed(Invoices) \in Int /\ Owed(Invoices)' \in Int /\ Owed(Invoices)' <= Owed(Invoices)
      BY <1>4, <2>2
    <3>2. Owed(Invoices) <= Limit
      BY <2>2 DEF SalesInvoicesInv, OutstandingWithinLimit
    <3> QED
      BY <3>1, <3>2, LimitAssumption DEF OutstandingWithinLimit
  <2> QED
    BY <2>1, <2>2
<1>6. ASSUME NEW d \in Clerks PROVE ReadByClerk(d)'
  <2> PICK a, j : a = asked[d] /\ j = a.at
    OBVIOUS
  <2>1. CASE d = c
    BY <1>1, <2>1 DEF ReadByClerk, NotAsked
  <2>2. CASE d # c
    <3>1. asked'[d] = a /\ ReadByClerk(d)
      BY <1>1, <2>2 DEF SalesInvoicesInv
    <3>2. a.granted => /\ a.op = "post"
                       /\ (rushed \/ overlapped # {} \/ Owed(Invoices \ {j}) + a.row.units <= Limit)'
      <4> SUFFICES ASSUME a.granted, ~rushed, overlapped = {}
                   PROVE  a.op = "post" /\ Owed(Invoices \ {j})' + a.row.units <= Limit
        BY <3>1 DEF ReadByClerk
      <4>1. ~asked[c].granted
        BY <2>2 DEF SalesInvoicesInv, ClerksApart
      <4>2. a.op = "post" /\ Owed(Invoices \ {j}) + a.row.units <= Limit /\ a.row.units \in Nat
        BY <3>1 DEF ReadByClerk, SalesInvoicesInv, SalesInvoicesTypeOK, Asked, Invoice
      <4>3. /\ Owed(Invoices \ {j}) \in Int /\ Owed(Invoices \ {j})' \in Int
            /\ Owed(Invoices \ {j})' <= Owed(Invoices \ {j})
        BY <1>4, <4>1
      <4> QED
        BY <4>2, <4>3, LimitAssumption
    <3>3. CASE a.op = "none"
      BY <3>1, <3>2, <3>3 DEF ReadByClerk
    <3>4. CASE a.op # "none" /\ j # i
      <4>1. SameInvoice(j)
        BY <3>1, <3>4 DEF ReadByClerk
      <4>2. /\ NoteUnits(j, DOMAIN notes[j])' = NoteUnits(j, DOMAIN notes[j])
            /\ Current(j)' = Current(j) /\ notes'[j] = notes[j] /\ invoice'[j] = invoice[j]
            /\ j \in overlapped' <=> j \in overlapped
            /\ j \in crossed' <=> j \in crossed
        BY <4>1 DEF SameInvoice, NoteUnits, Current
      <4> QED
        BY <3>1, <3>2, <3>4, <4>2 DEF ReadByClerk
    <3>5. CASE a.op # "none" /\ j = i
      <4>1. /\ i \in overlapped
            /\ {a.op, asked[c].op} \cap Disturbing # {} => i \in crossed
        BY <2>2, <3>5 DEF SalesInvoicesInv, ClerksApart
      <4>2. i \notin crossed => /\ a.op \notin Disturbing
                                /\ invoice'[i].units = invoice[i].units
                                /\ invoice[i].status # "CANCELLED" => invoice'[i].status # "CANCELLED"
                                /\ Current(i) \subseteq Current(i)'
        BY <4>1
      <4> QED
        BY <3>1, <3>2, <3>5, <4>1, <4>2 DEF ReadByClerk
    <3> QED
      BY <3>3, <3>4, <3>5
  <2> QED
    BY <2>1, <2>2
<1>7. ClerksApart'
  <2>1. \A d \in Clerks : asked[d].op # "none" => asked[d].at \in Invoices
    BY DEF SalesInvoicesInv, ReadByClerk
  <2>2. NotAsked.op = "none" /\ NotAsked.at \notin Invoices /\ ~NotAsked.granted
    BY NoInvoiceAssumption DEF NotAsked
  <2> QED
    BY <1>1, <2>1, <2>2 DEF SalesInvoicesInv, ClerksApart
<1> QED
  BY <1>2, <1>5, <1>6, <1>7 DEF SalesInvoicesInv

\* The units of notes are a natural number.
LEMMA NoteUnitsType ==
  ASSUME SalesInvoicesTypeOK, NEW i \in Invoices, NEW J, J \subseteq DOMAIN notes[i]
  PROVE  NoteUnits(i, J) \in Nat
<1> PICK ns, f : ns = notes[i] /\ f = UnitsOf(ns)
  OBVIOUS
<1>1. ns \in Seq(Note)
  BY DEF SalesInvoicesTypeOK
<1>2. IsFiniteSet(DOMAIN ns) /\ \A j \in DOMAIN ns : f[j] \in Nat
  BY <1>1, NotesTypes
<1>3. IsFiniteSet(J) /\ \A j \in J : f[j] \in Nat
  BY <1>2, FS_Subset
<1>4. SumFunctionOnSet(f, J) \in Nat
  BY ONLY <1>3, SumIsNat
<1> QED
  BY <1>4 DEF NoteUnits, UnitsOf

\* A request that reads an invoice overlaps with the others that have.
LEMMA ClerkAsks ==
  ASSUME SalesInvoicesInv, NEW c \in Clerks, NEW i \in Invoices, NEW op, NEW n \in Nat,
         Ask(c, i, op, n), invoice[i].status # "absent",
         \/ op \in {"update", "remove", "post"} /\ invoice[i].status = "DRAFT"
         \/ op = "cancel" /\ invoice[i].status \in InBooks \cup {"DRAFT"}
         \/ op = "pay" /\ invoice[i].paid + n <= invoice[i].units /\ invoice[i].status \in InBooks
         \/ op = "deliver" /\ n \in Current(i)
  PROVE  SalesInvoicesInv'
<1> PICK back, r :
      /\ back = NoteUnits(i, DOMAIN notes[i])
      /\ r = [op |-> op, at |-> i, row |-> invoice[i], n |-> n, granted |-> FALSE, back |-> back]
  OBVIOUS
<1>1. back \in Nat /\ invoice[i] \in Invoice
  BY NoteUnitsType DEF SalesInvoicesInv, SalesInvoicesTypeOK
<1>2. /\ r.op = op /\ r.at = i /\ r.row = invoice[i] /\ r.n = n /\ r.granted = FALSE /\ r.back = back
      /\ r \in Asked
  <2>1. op \in {"none", "update", "remove", "post", "cancel", "pay", "deliver"}
    OBVIOUS
  <2>2. i \in Invoices \cup {NoInvoice} /\ FALSE \in BOOLEAN /\ n \in Nat
    OBVIOUS
  <2> QED
    BY <1>1, <2>1, <2>2 DEF Asked
<1>3. /\ asked[c] = NotAsked /\ asked'[c] = r /\ \A d \in Clerks \ {c} : asked'[d] = asked[d]
      /\ asked' \in [Clerks -> Asked]
  BY <1>2 DEF Ask, SalesInvoicesInv, SalesInvoicesTypeOK
<1> PICK others : others = {asked[d].op : d \in {d \in Clerks : asked[d].at = i}}
  OBVIOUS
<1>4. /\ UNCHANGED <<invoice, notes, shipped, books, received, unmapped, rushed>>
      /\ overlapped' = IF others # {} THEN overlapped \cup {i} ELSE overlapped
      /\ crossed' = IF others # {} /\ ({op} \cup others) \cap Disturbing # {}
                    THEN crossed \cup {i} ELSE crossed
  BY DEF Ask
<1>5. SalesInvoicesTypeOK'
  BY <1>3, <1>4 DEF SalesInvoicesInv, SalesInvoicesTypeOK
<1>6. overlapped \subseteq overlapped' /\ crossed \subseteq crossed'
  BY <1>4
<1>7. OutstandingWithinLimit'
  BY <1>4, <1>6 DEF SalesInvoicesInv, OutstandingWithinLimit, Owed
<1>8. ASSUME NEW x \in Invoices PROVE InvoiceOK(x)'
  <2>1. InvoiceOK(x) /\ (x \notin overlapped' => x \notin overlapped) /\ (x \notin crossed' => x \notin crossed)
    BY <1>6 DEF SalesInvoicesInv
  <2> QED
    BY <1>4, <2>1 DEF InvoiceOK, NoteUnits, Current
<1>9. ASSUME NEW d \in Clerks PROVE ReadByClerk(d)'
  <2>1. CASE d = c
    <3>1. asked'[d] = r /\ r.op # "none" /\ ~r.granted
      BY <1>2, <1>3, <2>1
    <3>2. back = NoteUnits(i, DOMAIN notes[i])' /\ Current(i)' = Current(i) /\ invoice'[i] = invoice[i]
      BY <1>4 DEF NoteUnits, Current
    <3>3. op = "deliver" => n \in DOMAIN notes'[i]
      BY <1>4 DEF Current
    <3>4. op \in {"post", "pay"} => invoice[i].status # "CANCELLED"
      BY DEF InBooks, Open
    <3>5. op = "cancel" => invoice[i].status \in InBooks \cup {"DRAFT"}
      OBVIOUS
    <3>6. op = "pay" => invoice[i].paid + n <= invoice[i].units /\ invoice[i].status \in InBooks
      OBVIOUS
    <3>7. op = "deliver" => n \in Current(i)
      OBVIOUS
    <3>8. op \in {"update", "remove", "post"} => invoice[i].status = "DRAFT"
      OBVIOUS
    <3> QED
      BY <1>2, <1>4, <3>1, <3>2, <3>3, <3>4, <3>5, <3>6, <3>7, <3>8 DEF ReadByClerk
  <2>2. CASE d # c
    <3>1. ReadByClerk(d) /\ asked'[d] = asked[d]
      BY <1>3, <2>2 DEF SalesInvoicesInv
    <3>2. \A j : (j \notin overlapped' => j \notin overlapped) /\ (j \notin crossed' => j \notin crossed)
      BY <1>6
    <3>3. overlapped # {} => overlapped' # {}
      BY <1>6
    <3>4. \A j : /\ NoteUnits(j, DOMAIN notes[j])' = NoteUnits(j, DOMAIN notes[j])
                 /\ Current(j)' = Current(j) /\ Owed(Invoices \ {j})' = Owed(Invoices \ {j})
      BY <1>4 DEF NoteUnits, Current, Owed
    <3> QED
      BY <1>4, <3>1, <3>2, <3>3, <3>4 DEF ReadByClerk
  <2> QED
    BY <2>1, <2>2
<1>10. ClerksApart'
  <2> SUFFICES ASSUME NEW d \in Clerks, NEW e \in Clerks, d # e
               PROVE  /\ asked'[d].at = asked'[e].at /\ asked'[d].op # "none" =>
                           /\ asked'[d].at \in overlapped'
                           /\ asked'[d].op \in Disturbing => asked'[d].at \in crossed'
                      /\ asked'[d].granted /\ asked'[e].granted => rushed'
    BY DEF ClerksApart
  <2>1. asked'[d].granted /\ asked'[e].granted => rushed'
    BY <1>2, <1>3, <1>4 DEF SalesInvoicesInv, ClerksApart
  <2>2. CASE d # c /\ e # c
    BY <1>3, <1>6, <2>1, <2>2 DEF SalesInvoicesInv, ClerksApart
  <2>3. CASE (d = c \/ e = c) /\ asked'[d].at = asked'[e].at
    <3>1. PICK f \in {d, e} : f # c
      BY <2>3
    <3>2. asked'[d].at = i /\ asked'[e].at = i /\ f \in Clerks /\ asked[f].at = i
      BY <1>2, <1>3, <2>3, <3>1
    <3>3. asked[f].op \in others
      BY <3>2
    <3>4. asked'[d].op \in {op} \cup others
      BY <1>2, <1>3, <2>3, <3>1, <3>3
    <3>5. i \in overlapped'
      BY <1>4, <3>3
    <3>6. asked'[d].op \in Disturbing => i \in crossed'
      BY <1>4, <3>3, <3>4
    <3> QED
      BY <2>1, <3>2, <3>5, <3>6
  <2>4. CASE (d = c \/ e = c) /\ asked'[d].at # asked'[e].at
    BY <2>1, <2>4
  <2> QED
    BY <2>2, <2>3, <2>4
<1> QED
  BY <1>4, <1>5, <1>7, <1>8, <1>9, <1>10 DEF SalesInvoicesInv

\* Nothing is wrong before there are invoices.
LEMMA SalesInitInv == SalesInit => SalesInvoicesInv
<1> SUFFICES ASSUME SalesInit PROVE SalesInvoicesInv
  OBVIOUS
<1>1. NoneYet \in Invoice /\ NotAsked \in Asked /\ << >> \in Seq(Note)
  BY DEF NoneYet, Invoice, NotAsked, Asked, Statuses, Open
<1>2. SalesInvoicesTypeOK
  <2>1. /\ invoice \in [Invoices -> Invoice] /\ asked \in [Clerks -> Asked]
        /\ notes \in [Invoices -> Seq(Note)]
    BY <1>1 DEF SalesInit
  <2>2. \A i \in Invoices : DOMAIN books[i] \subseteq {"post", "reverse"}
    BY NothingBooked DEF SalesInit
  <2>3. shipped \in [Invoices -> Int] /\ received \in [Invoices -> Nat]
    BY DEF SalesInit
  <2>4. rushed \in BOOLEAN
    BY DEF SalesInit
  <2> QED
    BY <2>1, <2>2, <2>3, <2>4 DEF SalesInit, SalesInvoicesTypeOK
<1>3. ASSUME NEW i \in Invoices PROVE InvoiceOK(i)
  <2>1. DOMAIN notes[i] = {} /\ Current(i) = {}
    BY <1>3 DEF SalesInit, Current
  <2>2. NoteUnits(i, {}) = 0
    BY SumOfNothing DEF NoteUnits
  <2>3. NoneYet.status = "absent" /\ NoneYet.paid = 0 /\ NoneYet.units = 0
    BY DEF NoneYet
  <2> QED
    BY <1>3, <2>1, <2>2, <2>3, NothingBooked DEF SalesInit, InvoiceOK, InBooks, Open
<1>4. \A c \in Clerks : ReadByClerk(c)
  BY DEF SalesInit, ReadByClerk, NotAsked
<1>5. ClerksApart
  BY DEF SalesInit, ClerksApart, NotAsked
<1>6. OutstandingWithinLimit
  <2> PICK due : due = [i \in Invoices |-> Due(invoice[i])]
    OBVIOUS
  <2>1. invoice \in [Invoices -> Invoice]
    BY <1>2 DEF SalesInvoicesTypeOK
  <2>2. {i \in Invoices : invoice[i].status \in Open} = {}
    BY DEF SalesInit, NoneYet, Open
  <2>3. Owed(Invoices) = 0
    BY <2>2, SumOfNothing DEF Owed
  <2> QED
    BY <2>3, LimitAssumption DEF OutstandingWithinLimit
<1> QED
  BY <1>2, <1>3, <1>4, <1>5, <1>6 DEF SalesInvoicesInv, SalesInit

\* What the request that works on an invoice has read, and their types.
LEMMA ClerkTypes ==
  ASSUME SalesInvoicesInv, NEW c \in Clerks, asked[c].op # "none", NEW a, a = asked[c],
         NEW i, i = a.at
  PROVE  /\ a \in Asked /\ i \in Invoices /\ a.n \in Nat /\ a.back \in Nat /\ a.row \in Invoice
         /\ a.row.units \in Nat /\ a.row.paid \in Nat
         /\ invoice[i] \in Invoice /\ notes[i] \in Seq(Note) /\ shipped[i] \in Int
         /\ received[i] \in Nat /\ DOMAIN books[i] \subseteq {"post", "reverse"}
         /\ InvoiceOK(i) /\ ReadByClerk(c)
         /\ [asked EXCEPT ![c] = NotAsked] \in [Clerks -> Asked]
<1>1. a \in Asked /\ i \in Invoices
  BY DEF SalesInvoicesInv, SalesInvoicesTypeOK, ReadByClerk
<1>2. NotAsked \in Asked
  BY DEF NoneYet, Invoice, NotAsked, Asked, Statuses, Open
<1>3. a.n \in Nat /\ a.back \in Nat /\ a.row \in Invoice
  BY <1>1 DEF Asked
<1>4. a.row.units \in Nat /\ a.row.paid \in Nat
  BY <1>3 DEF Invoice
<1> QED
  BY <1>1, <1>2, <1>3, <1>4 DEF SalesInvoicesInv, SalesInvoicesTypeOK

\* createSalesInvoice
LEMMA CreateSalesInv ==
  ASSUME SalesInvoicesInv, NEW i \in Invoices, CreateSalesInvoice(i)
  PROVE  SalesInvoicesInv'
<1> PICK old : old = invoice[i]
  OBVIOUS
<1> PICK n \in Lines : invoice' = [invoice EXCEPT ![i].status = "DRAFT", ![i].units = n]
  BY DEF CreateSalesInvoice
<1> PICK new : new = [old EXCEPT !.status = "DRAFT", !.units = n]
  OBVIOUS
<1>1. n \in Nat /\ invoice' = [invoice EXCEPT ![i] = new]
  <2>1. invoice \in [Invoices -> Invoice] /\ n \in Nat
    BY LinesAssumption DEF SalesInvoicesInv, SalesInvoicesTypeOK
  <2> QED
    BY <2>1
<1>2. old \in Invoice /\ old.status = "absent" /\ InvoiceOK(i)
  BY DEF CreateSalesInvoice, SalesInvoicesInv, SalesInvoicesTypeOK
<1>3. new \in Invoice /\ new.status = "DRAFT" /\ new.units = n /\ new.paid = old.paid
  BY <1>1, <1>2 DEF Invoice, Statuses
<1>4. /\ invoice'[i] = new /\ \A x \in Invoices \ {i} : invoice'[x] = invoice[x]
      /\ invoice' \in [Invoices -> Invoice]
  BY <1>1, <1>3 DEF SalesInvoicesInv, SalesInvoicesTypeOK
<1>5. UNCHANGED <<notes, shipped, books, received, asked, overlapped, crossed, unmapped, rushed>>
  BY DEF CreateSalesInvoice
<1>6. \A x \in Invoices \ {i} : SameInvoice(x)
  BY <1>4, <1>5 DEF SameInvoice
<1>7. InvoiceOK(i)'
  <2>1. /\ notes[i] = << >> /\ shipped[i] = 0 /\ books[i] = NoEntries
        /\ old.paid = 0 /\ received[i] = 0
    BY <1>2 DEF InvoiceOK, Unbooked
  <2>2. Current(i)' = {} /\ DOMAIN notes'[i] = {} /\ NoteUnits(i, Current(i))' = 0
    <3>1. notes'[i] = << >>
      BY <1>5, <2>1
    <3>2. DOMAIN notes'[i] = {} /\ Current(i)' = {}
      BY <3>1 DEF Current
    <3> QED
      BY <3>2, SumOfNothing DEF NoteUnits
  <2>3. new.status = "DRAFT" /\ new.paid = 0 /\ new.units \in Nat
    BY ONLY <1>1, <1>3, <2>1
  <2> QED
    BY <1>4, <1>5, <2>1, <2>2, <2>3, NothingBooked DEF InvoiceOK, InBooks, Open
<1>8. \A x \in Invoices : InvoiceOK(x)'
  BY <1>6, <1>7, SameInvoiceIsOK DEF SalesInvoicesInv
<1>9. \A I \in SUBSET Invoices : Owed(I)' = Owed(I)
  <2> TAKE I \in SUBSET Invoices
  <2>1. \A x \in Invoices : Due(invoice'[x]) = Due(invoice[x])
    BY <1>2, <1>3, <1>4 DEF Due, Open
  <2>2. {x \in I : invoice'[x].status \in Open} = {x \in I : invoice[x].status \in Open}
    BY <1>2, <1>3, <1>4 DEF Open
  <2> PICK f, g, S :
        /\ f = [x \in Invoices |-> invoice'[x].units - invoice'[x].paid]
        /\ g = [x \in Invoices |-> invoice[x].units - invoice[x].paid]
        /\ S = {x \in I : invoice[x].status \in Open}
    OBVIOUS
  <2>3. IsFiniteSet(S)
    BY InvoicesAssumption, FS_Subset
  <2>4. \A x \in S : f[x] \in Int /\ f[x] = g[x]
    BY <1>2, <1>4 DEF Invoice, Open
  <2>5. SumFunctionOnSet(f, S) = SumFunctionOnSet(g, S)
    BY ONLY <2>3, <2>4, SumOfEquals
  <2> QED
    BY <2>2, <2>5 DEF Owed
<1>10. OutstandingWithinLimit'
  BY <1>5, <1>9 DEF SalesInvoicesInv, OutstandingWithinLimit
<1>11. \A c \in Clerks : ReadByClerk(c)'
  <2> TAKE c \in Clerks
  <2>1. ReadByClerk(c) /\ (asked[c].op # "none" => asked[c].at \in Invoices \ {i})
    BY <1>2 DEF SalesInvoicesInv, ReadByClerk
  <2>2. asked[c].op # "none" => SameInvoice(asked[c].at)
    BY <1>6, <2>1
  <2>3. Owed(Invoices \ {asked[c].at})' = Owed(Invoices \ {asked[c].at})
    BY <1>5, <1>9
  <2> QED
    BY <1>5, <2>1, <2>2, <2>3 DEF ReadByClerk, SameInvoice, NoteUnits, Current
<1> QED
  BY <1>4, <1>5, <1>8, <1>10, <1>11 DEF SalesInvoicesInv, SalesInvoicesTypeOK, ClerksApart

\* assertCreditLimit
LEMMA AssertCreditInv ==
  ASSUME SalesInvoicesInv, NEW c \in Clerks, AssertCreditLimit(c)
  PROVE  SalesInvoicesInv'
<1> PICK a, new : a = asked[c] /\ new = [a EXCEPT !.granted = TRUE]
  OBVIOUS
<1>1. /\ a.op = "post" /\ ~a.granted /\ CreditLeft(a.at, a.row.units)
      /\ rushed' = (rushed \/ \E d \in Clerks : asked[d].op = "post" /\ asked[d].granted)
      /\ UNCHANGED <<invoice, notes, shipped, books, received, overlapped, crossed, unmapped>>
  BY DEF AssertCreditLimit
<1>2. a \in Asked /\ ReadByClerk(c)
  BY <1>1, ClerkTypes
<1>3. /\ new \in Asked /\ new.op = "post" /\ new.at = a.at /\ new.row = a.row /\ new.n = a.n
      /\ new.back = a.back /\ new.granted = TRUE
  BY <1>1, <1>2 DEF Asked
<1>4. /\ asked'[c] = new /\ \A d \in Clerks \ {c} : asked'[d] = asked[d]
      /\ asked' \in [Clerks -> Asked]
  BY <1>3 DEF AssertCreditLimit, SalesInvoicesInv, SalesInvoicesTypeOK
<1>5. rushed' \in BOOLEAN /\ (rushed => rushed')
      /\ \A d \in Clerks : asked[d].op = "post" /\ asked[d].granted => rushed'
  BY <1>1 DEF SalesInvoicesInv, SalesInvoicesTypeOK
<1>6. SalesInvoicesTypeOK'
  BY <1>1, <1>4, <1>5 DEF SalesInvoicesInv, SalesInvoicesTypeOK
<1>7. \A j : /\ NoteUnits(j, DOMAIN notes[j])' = NoteUnits(j, DOMAIN notes[j])
             /\ Current(j)' = Current(j) /\ Owed(Invoices \ {j})' = Owed(Invoices \ {j})
             /\ NoteUnits(j, Current(j))' = NoteUnits(j, Current(j))
  BY <1>1 DEF NoteUnits, Current, Owed
<1>8. \A x \in Invoices : InvoiceOK(x)'
  BY <1>1, <1>7 DEF SalesInvoicesInv, InvoiceOK
<1>9. ASSUME NEW d \in Clerks PROVE ReadByClerk(d)'
  <2>1. CASE d = c
    <3>1. Owed(Invoices \ {a.at}) + a.row.units <= Limit
      BY <1>1 DEF CreditLeft
    <3>2. /\ a.at \in Invoices /\ invoice[a.at].status # "absent" /\ a.row.status = "DRAFT"
          /\ a.at \notin crossed => /\ a.row.units = invoice[a.at].units
                                   /\ invoice[a.at].status # "CANCELLED"
          /\ a.at \notin overlapped => a.row = invoice[a.at]
      BY <1>1, <1>2 DEF ReadByClerk
    <3>3. "post" \notin Disturbing
      BY DEF Disturbing
    <3>4. asked'[d] = new /\ Owed(Invoices \ {a.at})' + a.row.units <= Limit
      BY <1>4, <1>7, <2>1, <3>1
    <3> QED
      BY <1>1, <1>3, <3>2, <3>3, <3>4 DEF ReadByClerk
  <2>2. CASE d # c
    <3>1. ReadByClerk(d) /\ asked'[d] = asked[d]
      BY <1>4, <2>2 DEF SalesInvoicesInv
    <3> QED
      BY <1>1, <1>5, <1>7, <3>1 DEF ReadByClerk
  <2> QED
    BY <2>1, <2>2
<1>10. ClerksApart'
  <2>1. \A d \in Clerks : asked[d].granted => asked[d].op = "post"
    BY DEF SalesInvoicesInv, ReadByClerk
  <2> SUFFICES ASSUME NEW d \in Clerks, NEW e \in Clerks, d # e
               PROVE  /\ asked'[d].at = asked'[e].at /\ asked'[d].op # "none" =>
                           /\ asked'[d].at \in overlapped'
                           /\ asked'[d].op \in Disturbing => asked'[d].at \in crossed'
                      /\ asked'[d].granted /\ asked'[e].granted => rushed'
    BY DEF ClerksApart
  <2>2. /\ asked'[d].at = asked[d].at /\ asked'[d].op = asked[d].op
        /\ asked'[e].at = asked[e].at
    BY <1>1, <1>3, <1>4
  <2>3. asked'[d].at = asked'[e].at /\ asked'[d].op # "none" =>
          /\ asked'[d].at \in overlapped'
          /\ asked'[d].op \in Disturbing => asked'[d].at \in crossed'
    BY <1>1, <2>2 DEF SalesInvoicesInv, ClerksApart
  <2>4. ASSUME asked'[d].granted, asked'[e].granted PROVE rushed'
    <3>1. (d # c /\ asked[d].granted) \/ (e # c /\ asked[e].granted)
      BY <1>4, <2>4
    <3> QED
      BY <1>5, <2>1, <3>1
  <2> QED
    BY <2>3, <2>4
<1>11. OutstandingWithinLimit'
  BY <1>1, <1>5 DEF SalesInvoicesInv, OutstandingWithinLimit, Owed
<1> QED
  BY <1>1, <1>6, <1>8, <1>9, <1>10, <1>11 DEF SalesInvoicesInv

\* updateSalesInvoice
LEMMA UpdateSalesInv ==
  ASSUME SalesInvoicesInv, NEW c \in Clerks, UpdateSalesInvoice(c)
  PROVE  SalesInvoicesInv'
<1> PICK a, i, old, n, new :
      /\ a = asked[c] /\ i = a.at /\ old = invoice[i] /\ n = a.n
      /\ new = [old EXCEPT !.units = n, !.edit = @ + 1]
  OBVIOUS
<1>1. a.op = "update" /\ Exists(i) /\ Done(c)
  BY DEF UpdateSalesInvoice
<1>2. /\ a \in Asked /\ i \in Invoices /\ n \in Nat /\ old \in Invoice
      /\ InvoiceOK(i) /\ ReadByClerk(c) /\ [asked EXCEPT ![c] = NotAsked] \in [Clerks -> Asked]
  BY <1>1, ClerkTypes
<1>3. /\ new \in Invoice /\ new.status = old.status /\ new.units = n /\ new.paid = old.paid
  <2> PICK edit : edit = old.edit + 1
    OBVIOUS
  <2>1. edit \in Nat /\ new = [old EXCEPT !.units = n, !.edit = edit]
    BY <1>2 DEF Invoice
  <2> QED
    BY <1>2, <2>1 DEF Invoice
<1>4. /\ UNCHANGED <<notes, shipped, books, received, overlapped, crossed, unmapped, rushed>>
      /\ invoice' = [invoice EXCEPT ![i] = new]
  BY <1>2 DEF UpdateSalesInvoice, SalesInvoicesInv, SalesInvoicesTypeOK
<1>5. /\ invoice'[i] = new /\ \A x \in Invoices \ {i} : invoice'[x] = invoice[x]
      /\ invoice' \in [Invoices -> Invoice]
  BY <1>2, <1>3, <1>4 DEF SalesInvoicesInv, SalesInvoicesTypeOK
<1>6. i \notin crossed => old.status = "DRAFT"
  BY <1>1, <1>2 DEF ReadByClerk, Disturbing
<1>7. i \notin overlapped => i \notin crossed
  BY DEF SalesInvoicesInv, SalesInvoicesTypeOK
<1>8. InvoiceOK(i)'
  <2>1. old.status = "DRAFT" => old.paid = 0
    BY <1>2 DEF InvoiceOK, Unbooked
  <2>2. NoteUnits(i, Current(i))' = NoteUnits(i, Current(i)) /\ Current(i)' = Current(i)
    BY <1>4 DEF NoteUnits, Current
  <2>3. "DRAFT" \notin InBooks
    BY DEF InBooks, Open
  <2> QED
    BY <1>2, <1>3, <1>4, <1>5, <1>6, <1>7, <2>1, <2>2, <2>3 DEF InvoiceOK
<1>9. SalesInvoicesTypeOK' /\ DOMAIN books' = Invoices
  BY <1>1, <1>2, <1>4, <1>5 DEF SalesInvoicesInv, SalesInvoicesTypeOK, Done
<1>10. \A x \in Invoices \ {i} : SameInvoice(x)
  BY <1>4, <1>5 DEF SameInvoice
<1>11. overlapped # {} \/ Due(invoice'[i]) <= Due(invoice[i])
  BY <1>3, <1>5, <1>6, <1>7 DEF Due, Open
<1>12. ~a.granted /\ a.op \in Disturbing /\ invoice'[i].status # "absent" /\ notes'[i] = notes[i]
  BY <1>1, <1>2, <1>3, <1>4, <1>5 DEF ReadByClerk, Disturbing, Exists
<1> QED
  BY <1>1, <1>4, <1>8, <1>9, <1>10, <1>11, <1>12, ClerkEnds

\* removeSalesInvoice
LEMMA RemoveSalesInv ==
  ASSUME SalesInvoicesInv, NEW c \in Clerks, RemoveSalesInvoice(c)
  PROVE  SalesInvoicesInv'
<1> PICK a, i, old, new :
      a = asked[c] /\ i = a.at /\ old = invoice[i] /\ new = [old EXCEPT !.status = "removed"]
  OBVIOUS
<1>1. a.op = "remove" /\ Done(c)
  BY DEF RemoveSalesInvoice
<1>2. /\ a \in Asked /\ i \in Invoices /\ old \in Invoice
      /\ InvoiceOK(i) /\ ReadByClerk(c) /\ [asked EXCEPT ![c] = NotAsked] \in [Clerks -> Asked]
  BY <1>1, ClerkTypes
<1>3. new \in Invoice /\ new.status = "removed" /\ new.units = old.units /\ new.paid = old.paid
  BY <1>2 DEF Invoice, Statuses
<1>4. /\ UNCHANGED <<notes, shipped, books, received, overlapped, crossed, unmapped, rushed>>
      /\ invoice' = [invoice EXCEPT ![i] = new]
  BY <1>2 DEF RemoveSalesInvoice, SalesInvoicesInv, SalesInvoicesTypeOK
<1>5. /\ invoice'[i] = new /\ \A x \in Invoices \ {i} : invoice'[x] = invoice[x]
      /\ invoice' \in [Invoices -> Invoice]
  BY <1>2, <1>3, <1>4 DEF SalesInvoicesInv, SalesInvoicesTypeOK
<1>6. i \notin crossed => old.status = "DRAFT"
  BY <1>1, <1>2 DEF ReadByClerk, Disturbing
<1>7. i \notin overlapped => i \notin crossed
  BY DEF SalesInvoicesInv, SalesInvoicesTypeOK
<1>8. InvoiceOK(i)'
  <2>1. NoteUnits(i, Current(i))' = NoteUnits(i, Current(i)) /\ Current(i)' = Current(i)
    BY <1>4 DEF NoteUnits, Current
  <2>2. "removed" \notin InBooks /\ "removed" \notin Unbooked
    BY DEF InBooks, Open, Unbooked
  <2> QED
    BY <1>2, <1>3, <1>4, <1>5, <1>6, <1>7, <2>1, <2>2 DEF InvoiceOK
<1>9. SalesInvoicesTypeOK' /\ DOMAIN books' = Invoices
  BY <1>1, <1>2, <1>4, <1>5 DEF SalesInvoicesInv, SalesInvoicesTypeOK, Done
<1>10. \A x \in Invoices \ {i} : SameInvoice(x)
  BY <1>4, <1>5 DEF SameInvoice
<1>11. overlapped # {} \/ Due(invoice'[i]) <= Due(invoice[i])
  BY <1>3, <1>5, <1>6, <1>7 DEF Due, Open
<1>12. ~a.granted /\ a.op \in Disturbing /\ invoice'[i].status # "absent" /\ notes'[i] = notes[i]
  BY <1>1, <1>2, <1>3, <1>4, <1>5 DEF ReadByClerk, Disturbing
<1> QED
  BY <1>1, <1>4, <1>8, <1>9, <1>10, <1>11, <1>12, ClerkEnds

\* addPayment
LEMMA AddSalesPaymentInv ==
  ASSUME SalesInvoicesInv, NEW c \in Clerks, AddSalesPayment(c)
  PROVE  SalesInvoicesInv'
<1> PICK a, i, old, paid, status, new :
      /\ a = asked[c] /\ i = a.at /\ old = invoice[i] /\ paid = a.row.paid + a.n
      /\ status = IF paid >= a.row.units THEN "PAID" ELSE "PARTIALLY_PAID"
      /\ new = [old EXCEPT !.paid = paid, !.status = status]
  OBVIOUS
<1>1. a.op = "pay" /\ Done(c)
  BY DEF AddSalesPayment
<1>2. /\ a \in Asked /\ i \in Invoices /\ old \in Invoice /\ a.n \in Nat
      /\ a.row.units \in Nat /\ a.row.paid \in Nat /\ received[i] \in Nat
      /\ InvoiceOK(i) /\ ReadByClerk(c) /\ [asked EXCEPT ![c] = NotAsked] \in [Clerks -> Asked]
  BY <1>1, ClerkTypes
<1>3. /\ paid \in Nat /\ status \in InBooks /\ status \in Statuses
      /\ status = "PAID" => paid >= a.row.units
  BY <1>2 DEF InBooks, Open, Statuses
<1>4. new \in Invoice /\ new.status = status /\ new.units = old.units /\ new.paid = paid
  BY <1>2, <1>3 DEF Invoice
<1>5. /\ UNCHANGED <<notes, shipped, books, overlapped, crossed, unmapped, rushed>>
      /\ invoice' = [invoice EXCEPT ![i] = new]
      /\ received' = [received EXCEPT ![i] = @ + a.n]
  <2>1. invoice' = [invoice EXCEPT ![i].paid = paid, ![i].status = status]
    BY DEF AddSalesPayment
  <2>2. invoice' = [invoice EXCEPT ![i] = new]
    BY <1>2, <2>1 DEF SalesInvoicesInv, SalesInvoicesTypeOK
  <2> QED
    BY <2>2 DEF AddSalesPayment
<1>6. /\ invoice'[i] = new /\ \A x \in Invoices \ {i} : invoice'[x] = invoice[x]
      /\ invoice' \in [Invoices -> Invoice]
  BY <1>2, <1>4, <1>5 DEF SalesInvoicesInv, SalesInvoicesTypeOK
<1>7. /\ received'[i] = received[i] + a.n /\ \A x \in Invoices \ {i} : received'[x] = received[x]
      /\ received' \in [Invoices -> Nat]
  <2> PICK total : total = received[i] + a.n
    OBVIOUS
  <2>1. total \in Nat /\ received' = [received EXCEPT ![i] = total]
    BY <1>2, <1>5
  <2> QED
    BY <1>2, <2>1 DEF SalesInvoicesInv, SalesInvoicesTypeOK
<1>8. /\ a.row.status \in InBooks /\ paid <= a.row.units /\ old.status # "absent"
      /\ i \notin crossed => a.row.units = old.units /\ old.status # "CANCELLED"
      /\ i \notin overlapped => a.row = old
  BY <1>1, <1>2 DEF ReadByClerk
<1>9. i \notin overlapped => i \notin crossed
  BY DEF SalesInvoicesInv, SalesInvoicesTypeOK
<1>10. InvoiceOK(i)'
  <2>1. NoteUnits(i, Current(i))' = NoteUnits(i, Current(i)) /\ Current(i)' = Current(i)
    BY <1>5 DEF NoteUnits, Current
  <2>2. status \notin Unbooked /\ status # "CANCELLED"
    BY <1>3 DEF InBooks, Open, Unbooked
  <2>3. i \notin crossed => /\ shipped'[i] = NoteUnits(i, Current(i))'
                            /\ Current(i)' = DOMAIN notes'[i]
                            /\ new.paid <= new.units
    BY <1>2, <1>4, <1>5, <1>8, <2>1 DEF InvoiceOK
  <2>4. ASSUME i \notin overlapped
        PROVE  /\ new.paid = received'[i] /\ (new.status = "PAID" => new.paid >= new.units)
               /\ i \notin unmapped' =>
                    /\ Balance(books'[i]) = shipped'[i]
                    /\ shipped'[i] = new.units /\ books'[i] = Booked(NoEntries, "post", new.units)
    <3>1. old.paid = received[i] /\ a.row = old
      BY <1>2, <1>8, <2>4 DEF InvoiceOK
    <3>2. i \notin unmapped =>
            /\ Balance(books[i]) = shipped[i] /\ shipped[i] = old.units
            /\ books[i] = Booked(NoEntries, "post", old.units)
      BY <1>2, <1>8, <2>4, <3>1 DEF InvoiceOK
    <3>3. new.paid = received'[i]
      BY <1>4, <1>7, <3>1
    <3>4. new.status = "PAID" => new.paid >= new.units
      BY <1>3, <1>4, <3>1
    <3> QED
      BY <1>4, <1>5, <3>2, <3>3, <3>4
  <2> QED
    BY <1>4, <1>5, <1>6, <2>2, <2>3, <2>4 DEF InvoiceOK
<1>11. SalesInvoicesTypeOK' /\ DOMAIN books' = Invoices
  BY <1>1, <1>2, <1>5, <1>6, <1>7 DEF SalesInvoicesInv, SalesInvoicesTypeOK, Done
<1>12. \A x \in Invoices \ {i} : SameInvoice(x)
  BY <1>5, <1>6, <1>7 DEF SameInvoice
<1>13. overlapped # {} \/ Due(invoice'[i]) <= Due(invoice[i])
  <2> SUFFICES ASSUME i \notin overlapped PROVE Due(new) <= Due(old)
    BY <1>6
  <2>1. /\ a.row = old /\ old.paid <= old.units /\ (old.status = "PAID" => old.paid >= old.units)
        /\ old.status \in InBooks
    BY <1>2, <1>8, <1>9 DEF InvoiceOK
  <2>2. old.units \in Nat /\ old.paid \in Nat /\ paid = old.paid + a.n
    BY <1>2, <2>1
  <2>3. CASE paid >= old.units
    <3>1. status = "PAID" /\ "PAID" \notin Open
      BY <2>1, <2>3 DEF Open
    <3>2. Due(new) = 0
      BY <1>4, <3>1 DEF Due
    <3>3. Due(old) >= 0
      BY <2>1, <2>2 DEF Due
    <3> QED
      BY <3>2, <3>3
  <2>4. CASE ~(paid >= old.units)
    <3>1. status = "PARTIALLY_PAID" /\ old.status \in Open
      BY <1>2, <2>1, <2>2, <2>4 DEF InBooks
    <3>2. status \in Open
      BY <3>1 DEF Open
    <3>3. Due(new) = old.units - paid /\ Due(old) = old.units - old.paid
      BY <1>4, <3>1, <3>2 DEF Due
    <3> QED
      BY <1>2, <2>2, <3>3
  <2> QED
    BY <2>3, <2>4
<1>14. /\ ~a.granted /\ invoice'[i].status \notin {"absent", "CANCELLED"} /\ notes'[i] = notes[i]
       /\ invoice'[i].units = invoice[i].units /\ Current(i)' = Current(i)
  BY <1>1, <1>2, <1>3, <1>4, <1>5, <1>6 DEF ReadByClerk, InBooks, Open, Current
<1> QED
  BY <1>1, <1>5, <1>10, <1>11, <1>12, <1>13, <1>14, ClerkEnds

\* An entry is booked, or skipped.
LEMMA BookedOrSkipped ==
  ASSUME SalesInvoicesInv, NEW i \in Invoices, NEW ref \in {"post", "reverse"}, NEW value,
         Book(i, ref, value)
  PROVE  /\ DOMAIN books' = Invoices /\ \A x \in Invoices : DOMAIN books'[x] \subseteq {"post", "reverse"}
         /\ unmapped' \subseteq Invoices
         /\ \A x \in Invoices \ {i} : books'[x] = books[x] /\ (x \in unmapped' <=> x \in unmapped)
         /\ i \notin unmapped' => i \notin unmapped /\ books'[i] = Booked(books[i], ref, value)
<1>1. DOMAIN books = Invoices /\ unmapped \subseteq Invoices
      /\ \A x \in Invoices : DOMAIN books[x] \subseteq {"post", "reverse"}
  BY DEF SalesInvoicesInv, SalesInvoicesTypeOK
<1>2. DOMAIN Booked(books[i], ref, value) \subseteq {"post", "reverse"}
  BY <1>1 DEF Booked
<1>3. CASE books' = [books EXCEPT ![i] = Booked(@, ref, value)] /\ UNCHANGED unmapped
  <2> PICK new : new = Booked(books[i], ref, value)
    OBVIOUS
  <2>1. books' = [books EXCEPT ![i] = new]
    BY <1>3
  <2>2. books'[i] = new /\ DOMAIN books' = Invoices /\ \A x \in Invoices \ {i} : books'[x] = books[x]
    BY <1>1, <2>1
  <2> QED
    BY <1>1, <1>2, <1>3, <2>2
<1>4. CASE UNCHANGED books /\ unmapped' = unmapped \cup {i}
  BY <1>1, <1>4
<1> QED
  BY <1>3, <1>4 DEF Book

\* postSalesInvoice
LEMMA PostSalesInv ==
  ASSUME SalesInvoicesInv, NEW c \in Clerks, PostSalesInvoice(c)
  PROVE  SalesInvoicesInv'
<1> PICK a, i, old, n, ns, new, newNotes :
      /\ a = asked[c] /\ i = a.at /\ old = invoice[i] /\ n = a.row.units /\ ns = notes[i]
      /\ new = [old EXCEPT !.status = "POSTED"]
      /\ newNotes = Append(ns, [units |-> n, status |-> "issued"])
  OBVIOUS
<1>1. a.op = "post" /\ a.granted /\ Done(c) /\ Book(i, "post", n)
      /\ UNCHANGED <<received, overlapped, crossed, rushed>>
  BY DEF PostSalesInvoice
<1>2. /\ a \in Asked /\ i \in Invoices /\ old \in Invoice /\ n \in Nat /\ ns \in Seq(Note)
      /\ shipped[i] \in Int
      /\ InvoiceOK(i) /\ ReadByClerk(c) /\ [asked EXCEPT ![c] = NotAsked] \in [Clerks -> Asked]
  BY <1>1, ClerkTypes
<1>3. /\ new \in Invoice /\ new.status = "POSTED" /\ new.units = old.units /\ new.paid = old.paid
  BY <1>2 DEF Invoice, Statuses, Open
<1>4. /\ newNotes \in Seq(Note) /\ DOMAIN ns \subseteq DOMAIN newNotes
      /\ CurrentOf(ns) \subseteq CurrentOf(newNotes)
      /\ CurrentOf(ns) = DOMAIN ns => CurrentOf(newNotes) = DOMAIN newNotes
      /\ SumFunctionOnSet(UnitsOf(newNotes), CurrentOf(newNotes))
           = SumFunctionOnSet(UnitsOf(ns), CurrentOf(ns)) + n
  <2>1. ns \in Seq(Note) /\ n \in Nat /\ Issued(newNotes, ns, n)
    BY <1>2 DEF Issued
  <2> QED
    BY ONLY <2>1, NoteIssued
<1>5. /\ invoice' = [invoice EXCEPT ![i] = new] /\ notes' = [notes EXCEPT ![i] = newNotes]
      /\ shipped' = [shipped EXCEPT ![i] = @ + n]
  BY <1>2 DEF PostSalesInvoice, SalesInvoicesInv, SalesInvoicesTypeOK
<1>6. /\ invoice'[i] = new /\ notes'[i] = newNotes /\ shipped'[i] = shipped[i] + n
      /\ \A x \in Invoices \ {i} : /\ invoice'[x] = invoice[x] /\ notes'[x] = notes[x]
                                   /\ shipped'[x] = shipped[x]
      /\ invoice' \in [Invoices -> Invoice] /\ notes' \in [Invoices -> Seq(Note)]
      /\ shipped' \in [Invoices -> Int]
  <2> PICK out : out = shipped[i] + n
    OBVIOUS
  <2>1. out \in Int /\ shipped' = [shipped EXCEPT ![i] = out]
    BY <1>2, <1>5
  <2>2. /\ invoice \in [Invoices -> Invoice] /\ notes \in [Invoices -> Seq(Note)]
        /\ shipped \in [Invoices -> Int]
    BY DEF SalesInvoicesInv, SalesInvoicesTypeOK
  <2>3. /\ shipped'[i] = out /\ shipped' \in [Invoices -> Int]
        /\ \A x \in Invoices \ {i} : shipped'[x] = shipped[x]
    BY <1>2, <2>1, <2>2
  <2>4. /\ notes'[i] = newNotes /\ notes' \in [Invoices -> Seq(Note)]
        /\ \A x \in Invoices \ {i} : notes'[x] = notes[x]
    BY <1>2, <1>4, <1>5, <2>2
  <2>5. /\ invoice'[i] = new /\ invoice' \in [Invoices -> Invoice]
        /\ \A x \in Invoices \ {i} : invoice'[x] = invoice[x]
    BY <1>2, <1>3, <1>5, <2>2
  <2> QED
    BY <2>3, <2>4, <2>5
<1>7. /\ Current(i) = CurrentOf(ns) /\ Current(i)' = CurrentOf(newNotes)
      /\ NoteUnits(i, Current(i)) = SumFunctionOnSet(UnitsOf(ns), CurrentOf(ns))
      /\ NoteUnits(i, Current(i))' = SumFunctionOnSet(UnitsOf(newNotes), CurrentOf(newNotes))
  BY <1>6 DEF Current, CurrentOf, NoteUnits, UnitsOf
<1>8. /\ a.row.status = "DRAFT" /\ old.status # "absent"
      /\ i \notin crossed => a.row.units = old.units /\ old.status # "CANCELLED"
      /\ i \notin overlapped => a.row = old
  BY <1>1, <1>2 DEF ReadByClerk
<1>9. /\ DOMAIN books' = Invoices /\ \A x \in Invoices : DOMAIN books'[x] \subseteq {"post", "reverse"}
      /\ unmapped' \subseteq Invoices
      /\ \A x \in Invoices \ {i} : books'[x] = books[x] /\ (x \in unmapped' <=> x \in unmapped)
      /\ i \notin unmapped' => i \notin unmapped /\ books'[i] = Booked(books[i], "post", n)
  <2>1. "post" \in {"post", "reverse"}
    OBVIOUS
  <2> QED
    BY <1>1, <1>2, <2>1, BookedOrSkipped
<1>10. i \notin overlapped => i \notin crossed
  BY DEF SalesInvoicesInv, SalesInvoicesTypeOK
<1>11. InvoiceOK(i)'
  <2>1. "POSTED" \in InBooks /\ "POSTED" \notin Unbooked
    BY DEF InBooks, Open, Unbooked
  <2>2. ASSUME i \notin crossed
        PROVE  /\ shipped'[i] = NoteUnits(i, Current(i))' /\ Current(i)' = DOMAIN notes'[i]
               /\ new.paid <= new.units
    <3>1. shipped[i] = NoteUnits(i, Current(i)) /\ Current(i) = DOMAIN ns /\ old.paid <= old.units
      BY <1>2, <1>8, <2>2 DEF InvoiceOK
    <3>2. shipped'[i] = NoteUnits(i, Current(i))'
      <4> PICK u, v, w : u = NoteUnits(i, Current(i)) /\ v = NoteUnits(i, Current(i))' /\ w = shipped[i]
        OBVIOUS
      <4>1. v = u + n /\ w = u
        BY <1>4, <1>7, <3>1
      <4>2. shipped'[i] = w + n
        BY <1>6
      <4> QED
        BY ONLY <4>1, <4>2, v = NoteUnits(i, Current(i))'
    <3>3. CurrentOf(ns) = DOMAIN ns /\ notes'[i] = newNotes
      BY <1>6, <1>7, <3>1
    <3>4. Current(i)' = DOMAIN notes'[i]
      BY ONLY <1>4, <1>7, <3>3
    <3> QED
      BY <1>3, <3>1, <3>2, <3>4
  <2>3. ASSUME i \notin overlapped
        PROVE  /\ new.paid = received'[i]
               /\ i \notin unmapped' =>
                    /\ Balance(books'[i]) = shipped'[i]
                    /\ shipped'[i] = new.units /\ books'[i] = Booked(NoEntries, "post", new.units)
    <3>1. /\ a.row = old /\ old.status = "DRAFT" /\ n = old.units
      BY <1>8, <2>3
    <3>2. shipped[i] = 0 /\ books[i] = NoEntries /\ old.paid = 0 /\ received[i] = 0
      BY <1>2, <3>1 DEF InvoiceOK, Unbooked
    <3>3. Balance(Booked(NoEntries, "post", n)) = n
      BY <1>2, PostedAndReversed
    <3> QED
      BY <1>1, <1>2, <1>3, <1>6, <1>9, <3>1, <3>2, <3>3
  <2> QED
    <3>1. UNCHANGED <<overlapped, crossed>> /\ invoice'[i] = new /\ new.status = "POSTED"
      BY <1>1, <1>3, <1>6
    <3>2. "POSTED" # "CANCELLED" /\ "POSTED" # "PAID"
      OBVIOUS
    <3> QED
      BY ONLY <2>1, <2>2, <2>3, <3>1, <3>2 DEF InvoiceOK
<1>12. SalesInvoicesTypeOK'
  BY <1>1, <1>2, <1>6, <1>9 DEF SalesInvoicesInv, SalesInvoicesTypeOK, Done
<1>13. \A x \in Invoices \ {i} : SameInvoice(x)
  BY <1>1, <1>6, <1>9 DEF SameInvoice
<1>14. OutstandingWithinLimit'
  <2> SUFFICES ASSUME ~rushed, overlapped = {} PROVE Owed(Invoices)' <= Limit
    BY <1>1 DEF OutstandingWithinLimit
  <2>1. a.row = old /\ old.status = "DRAFT" /\ n = old.units /\ old.paid = 0
    BY <1>2, <1>8 DEF InvoiceOK, Unbooked
  <2>2. Owed(Invoices \ {i}) + n <= Limit
    BY <1>1, <1>2 DEF ReadByClerk
  <2> PICK f, g, R :
        /\ f = [x \in Invoices |-> Due(invoice'[x])] /\ g = [x \in Invoices |-> Due(invoice[x])]
        /\ R = Invoices \ {i}
    OBVIOUS
  <2> PICK rows, rows2 : rows = invoice /\ rows2 = invoice'
    OBVIOUS
  <2>3. Owed(R) = SumFunctionOnSet(g, R) /\ IsFiniteSet(R) /\ \A x \in R : g[x] \in Int
    <3>1. rows \in [Invoices -> Invoice] /\ R \in SUBSET Invoices /\ g = [x \in Invoices |-> Due(rows[x])]
      BY DEF SalesInvoicesInv, SalesInvoicesTypeOK
    <3>2. /\ SumFunctionOnSet([x \in Invoices |-> rows[x].units - rows[x].paid],
                              {x \in R : rows[x].status \in Open}) = SumFunctionOnSet(g, R)
          /\ IsFiniteSet(R) /\ \A x \in R : g[x] \in Int
      BY ONLY <3>1, OwedIsSum
    <3> QED
      BY <3>2 DEF Owed
  <2>4. Owed(Invoices)' = SumFunctionOnSet(f, Invoices) /\ \A x \in Invoices : f[x] \in Int
    <3>1. /\ rows2 \in [Invoices -> Invoice] /\ Invoices \in SUBSET Invoices
          /\ f = [x \in Invoices |-> Due(rows2[x])]
      BY <1>6
    <3>2. /\ SumFunctionOnSet([x \in Invoices |-> rows2[x].units - rows2[x].paid],
                              {x \in Invoices : rows2[x].status \in Open}) = SumFunctionOnSet(f, Invoices)
          /\ \A x \in Invoices : f[x] \in Int
      BY ONLY <3>1, OwedIsSum
    <3> QED
      BY <3>2 DEF Owed
  <2>5. SumFunctionOnSet(f, Invoices) = f[i] + SumFunctionOnSet(f, R)
    <3> PICK S : S = Invoices
      OBVIOUS
    <3>1. IsFiniteSet(S) /\ (\A x \in S : f[x] \in Int) /\ i \in S
      BY <1>2, <2>4, InvoicesAssumption
    <3>2. SumFunctionOnSet(f, S) = f[i] + SumFunctionOnSet(f, S \ {i})
      BY ONLY <3>1, SumTakesAny
    <3> QED
      BY <3>2
  <2>6. SumFunctionOnSet(f, R) = SumFunctionOnSet(g, R)
    <3>1. \A x \in R : f[x] \in Int /\ f[x] = g[x]
      BY <1>6, <2>4
    <3> QED
      BY <2>3, <3>1, SumOfEquals
  <2>7. f[i] = n
    <3>1. f[i] = Due(new)
      BY <1>2, <1>6
    <3> QED
      BY <1>2, <1>3, <2>1, <3>1 DEF Due, Open
  <2>8. SumFunctionOnSet(g, R) \in Int
    BY <2>3, SumIsInt
  <2> QED
    BY <1>2, <2>2, <2>3, <2>4, <2>5, <2>6, <2>7, <2>8
<1>15. /\ invoice'[i].units = invoice[i].units /\ invoice'[i].status \notin {"absent", "CANCELLED"}
       /\ DOMAIN notes[i] \subseteq DOMAIN notes'[i] /\ Current(i) \subseteq Current(i)'
  <2>1. notes[i] = ns /\ notes'[i] = newNotes
    BY <1>6
  <2>2. DOMAIN notes[i] \subseteq DOMAIN notes'[i] /\ Current(i) \subseteq Current(i)'
    BY ONLY <1>4, <1>7, <2>1
  <2> QED
    BY <1>3, <1>6, <2>2
<1> QED
  BY <1>1, <1>9, <1>11, <1>12, <1>13, <1>14, <1>15, ClerkEnds

\* cancelSalesInvoice
LEMMA CancelSalesInv ==
  ASSUME SalesInvoicesInv, NEW c \in Clerks, CancelSalesInvoice(c)
  PROVE  SalesInvoicesInv'
<1> PICK a, i, old, ns, new, cancelled :
      /\ a = asked[c] /\ i = a.at /\ old = invoice[i] /\ ns = notes[i]
      /\ new = [old EXCEPT !.status = "CANCELLED"]
      /\ cancelled = [j \in DOMAIN ns |-> [ns[j] EXCEPT !.status = "cancelled"]]
  OBVIOUS
<1>1. a.op = "cancel" /\ Exists(i) /\ Done(c)
      /\ UNCHANGED <<received, overlapped, crossed, rushed>>
  BY DEF CancelSalesInvoice
<1>2. /\ a \in Asked /\ i \in Invoices /\ old \in Invoice /\ ns \in Seq(Note) /\ a.back \in Nat
      /\ a.row.units \in Nat /\ shipped[i] \in Int
      /\ InvoiceOK(i) /\ ReadByClerk(c) /\ [asked EXCEPT ![c] = NotAsked] \in [Clerks -> Asked]
  BY <1>1, ClerkTypes
<1>3. /\ new \in Invoice /\ new.status = "CANCELLED" /\ new.units = old.units /\ new.paid = old.paid
  BY <1>2 DEF Invoice, Statuses
<1>4. cancelled \in Seq(Note) /\ DOMAIN cancelled = DOMAIN ns /\ CurrentOf(cancelled) = {}
  BY <1>2, NotesCancelled
<1>5. /\ invoice' = [invoice EXCEPT ![i] = new]
      /\ IF a.row.status = "DRAFT" THEN UNCHANGED <<notes, shipped, books, unmapped>>
         ELSE /\ shipped' = [shipped EXCEPT ![i] = @ - a.back]
              /\ notes' = [notes EXCEPT ![i] = cancelled]
              /\ Book(i, "reverse", -a.row.units)
  BY <1>2 DEF CancelSalesInvoice, WithCancelledNotes, SalesInvoicesInv, SalesInvoicesTypeOK
<1>6. /\ invoice'[i] = new /\ \A x \in Invoices \ {i} : invoice'[x] = invoice[x]
      /\ invoice' \in [Invoices -> Invoice]
  BY <1>2, <1>3, <1>5 DEF SalesInvoicesInv, SalesInvoicesTypeOK
<1>7. /\ a.row.status \in InBooks \cup {"DRAFT"}
      /\ i \notin crossed => a.row = old /\ a.back = NoteUnits(i, DOMAIN notes[i])
  BY <1>1, <1>2 DEF ReadByClerk, Disturbing
<1>8. i \notin overlapped => i \notin crossed
  BY DEF SalesInvoicesInv, SalesInvoicesTypeOK
<1>9. "CANCELLED" \notin InBooks /\ "CANCELLED" \notin Unbooked /\ "CANCELLED" \notin Open
      /\ "DRAFT" \notin InBooks /\ "DRAFT" \in Unbooked /\ "CANCELLED" # "PAID"
  BY DEF InBooks, Open, Unbooked
<1>10. /\ SalesInvoicesTypeOK' /\ DOMAIN books' = Invoices
       /\ \A x \in Invoices \ {i} : SameInvoice(x)
       /\ InvoiceOK(i)' /\ DOMAIN notes'[i] = DOMAIN notes[i]
  <2>1. CASE a.row.status = "DRAFT"
    <3>1. UNCHANGED <<notes, shipped, books, unmapped>>
      BY <1>5, <2>1
    <3>2. NoteUnits(i, Current(i))' = NoteUnits(i, Current(i)) /\ Current(i)' = Current(i)
      BY <3>1 DEF NoteUnits, Current
    <3>3. InvoiceOK(i)'
      BY <1>1, <1>2, <1>3, <1>6, <1>8, <1>9, <3>1, <3>2 DEF InvoiceOK
    <3>4. SalesInvoicesTypeOK' /\ DOMAIN books' = Invoices
      BY <1>1, <1>2, <1>6, <3>1 DEF SalesInvoicesInv, SalesInvoicesTypeOK, Done
    <3> QED
      BY <1>1, <1>6, <3>1, <3>3, <3>4 DEF SameInvoice
  <2>2. CASE a.row.status # "DRAFT"
    <3> PICK out, value : out = shipped[i] - a.back /\ value = -a.row.units
      OBVIOUS
    <3>1. /\ out \in Int /\ value \in Int /\ shipped' = [shipped EXCEPT ![i] = out]
          /\ notes' = [notes EXCEPT ![i] = cancelled] /\ Book(i, "reverse", value)
      BY <1>2, <1>5, <2>2
    <3>2. /\ shipped'[i] = out /\ notes'[i] = cancelled
          /\ \A x \in Invoices \ {i} : shipped'[x] = shipped[x] /\ notes'[x] = notes[x]
          /\ shipped' \in [Invoices -> Int] /\ notes' \in [Invoices -> Seq(Note)]
      BY <1>2, <1>4, <3>1 DEF SalesInvoicesInv, SalesInvoicesTypeOK
    <3>3. /\ DOMAIN books' = Invoices /\ \A x \in Invoices : DOMAIN books'[x] \subseteq {"post", "reverse"}
          /\ unmapped' \subseteq Invoices
          /\ \A x \in Invoices \ {i} : books'[x] = books[x] /\ (x \in unmapped' <=> x \in unmapped)
          /\ i \notin unmapped' => i \notin unmapped /\ books'[i] = Booked(books[i], "reverse", value)
      <4>1. "reverse" \in {"post", "reverse"}
        OBVIOUS
      <4> QED
        BY <1>2, <3>1, <4>1, BookedOrSkipped
    <3>4. Current(i)' = {} /\ NoteUnits(i, Current(i))' = 0
      <4>1. Current(i)' = {}
        BY <1>4, <3>2 DEF Current, CurrentOf
      <4> QED
        BY <4>1, SumOfNothing DEF NoteUnits
    <3>5. ASSUME i \notin crossed
          PROVE  out = 0 /\ new.paid <= new.units
      <4>1. a.row = old /\ old.status # "CANCELLED" /\ a.back = NoteUnits(i, DOMAIN notes[i])
        BY <1>7, <1>9, <2>2, <3>5
      <4>2. shipped[i] = a.back /\ old.paid <= old.units
        BY <1>2, <3>5, <4>1 DEF InvoiceOK
      <4> QED
        BY <1>2, <1>3, <4>2
    <3>6. ASSUME i \notin overlapped
          PROVE  new.paid = received'[i] /\ (i \notin unmapped' => Balance(books'[i]) = out)
      <4>1. a.row = old /\ old.status \in InBooks /\ out = 0
        BY <1>7, <1>8, <2>2, <3>5, <3>6
      <4>2. old.paid = received[i]
        BY <1>2, <3>6 DEF InvoiceOK
      <4>3. i \notin unmapped' => books[i] = Booked(NoEntries, "post", old.units)
        BY <1>2, <3>3, <3>6, <4>1 DEF InvoiceOK
      <4>4. Balance(Booked(Booked(NoEntries, "post", old.units), "reverse", -old.units)) = 0
        BY <1>2, <4>1, PostedAndReversed
      <4> QED
        BY <1>1, <1>3, <3>3, <4>1, <4>2, <4>3, <4>4
    <3>7. InvoiceOK(i)'
      <4>1. /\ UNCHANGED <<overlapped, crossed>> /\ invoice'[i] = new /\ new.status = "CANCELLED"
            /\ shipped'[i] = out
        BY <1>1, <1>3, <1>6, <3>2
      <4> QED
        BY <1>9, <3>4, <3>5, <3>6, <4>1 DEF InvoiceOK
    <3>8. SalesInvoicesTypeOK'
      BY <1>1, <1>2, <1>6, <3>2, <3>3 DEF SalesInvoicesInv, SalesInvoicesTypeOK, Done
    <3>9. \A x \in Invoices \ {i} : SameInvoice(x)
      BY <1>1, <1>6, <3>2, <3>3 DEF SameInvoice
    <3>10. DOMAIN notes'[i] = DOMAIN notes[i]
      BY <1>4, <3>2
    <3> QED
      BY <3>3, <3>7, <3>8, <3>9, <3>10
  <2> QED
    BY <2>1, <2>2
<1>11. overlapped # {} \/ Due(invoice'[i]) <= Due(invoice[i])
  <2> SUFFICES ASSUME i \notin overlapped PROVE Due(new) <= Due(old)
    BY <1>6
  <2>1. old.paid <= old.units /\ old.units \in Nat /\ old.paid \in Nat
    BY <1>2, <1>8 DEF InvoiceOK, Invoice
  <2>2. Due(new) = 0 /\ Due(old) >= 0
    BY <1>3, <1>9, <2>1 DEF Due
  <2> QED
    BY <2>2
<1>12. ~a.granted /\ a.op \in Disturbing /\ invoice'[i].status # "absent"
  BY <1>1, <1>2, <1>3, <1>6 DEF ReadByClerk, Disturbing
<1> QED
  BY <1>1, <1>10, <1>11, <1>12, ClerkEnds

\* markDelivered
LEMMA MarkDeliveredInv ==
  ASSUME SalesInvoicesInv, NEW c \in Clerks, MarkDelivered(c)
  PROVE  SalesInvoicesInv'
<1> PICK a, i, n, ns, new :
      /\ a = asked[c] /\ i = a.at /\ n = a.n /\ ns = notes[i]
      /\ new = [ns EXCEPT ![n].status = "delivered"]
  OBVIOUS
<1>1. a.op = "deliver" /\ Done(c)
      /\ UNCHANGED <<invoice, shipped, books, received, overlapped, crossed, unmapped, rushed>>
  BY DEF MarkDelivered
<1>2. /\ i \in Invoices /\ ns \in Seq(Note) /\ InvoiceOK(i) /\ ReadByClerk(c)
      /\ [asked EXCEPT ![c] = NotAsked] \in [Clerks -> Asked]
  BY <1>1, ClerkTypes
<1>3. /\ invoice[i].status # "absent" /\ n \in DOMAIN ns
      /\ i \notin crossed => n \in Current(i)
      /\ ~a.granted
  BY <1>1, <1>2 DEF ReadByClerk
<1>4. /\ new \in Seq(Note) /\ DOMAIN new = DOMAIN ns
      /\ CurrentOf(ns) \subseteq CurrentOf(new)
      /\ n \in CurrentOf(ns) =>
           /\ CurrentOf(new) = CurrentOf(ns)
           /\ SumFunctionOnSet(UnitsOf(new), CurrentOf(new)) = SumFunctionOnSet(UnitsOf(ns), CurrentOf(ns))
  <2>1. ns \in Seq(Note) /\ n \in DOMAIN ns /\ Delivered(new, ns, n)
    BY <1>2, <1>3 DEF Delivered
  <2> QED
    BY ONLY <2>1, NoteDelivered
<1>5. /\ notes'[i] = new /\ \A x \in Invoices \ {i} : notes'[x] = notes[x]
      /\ notes' \in [Invoices -> Seq(Note)]
  <2>1. notes' = [notes EXCEPT ![i] = new]
    BY <1>2 DEF MarkDelivered, SalesInvoicesInv, SalesInvoicesTypeOK
  <2> QED
    BY <1>2, <1>4, <2>1 DEF SalesInvoicesInv, SalesInvoicesTypeOK
<1>6. /\ Current(i) = CurrentOf(ns) /\ Current(i)' = CurrentOf(new)
      /\ NoteUnits(i, Current(i)) = SumFunctionOnSet(UnitsOf(ns), CurrentOf(ns))
      /\ NoteUnits(i, Current(i))' = SumFunctionOnSet(UnitsOf(new), CurrentOf(new))
  BY <1>5 DEF Current, CurrentOf, NoteUnits, UnitsOf
<1>7. i \notin crossed => /\ Current(i)' = Current(i)
                          /\ NoteUnits(i, Current(i))' = NoteUnits(i, Current(i))
  BY <1>3, <1>4, <1>6
<1>8. DOMAIN notes'[i] = DOMAIN notes[i] /\ (notes[i] = << >> => FALSE)
  <2>1. notes[i] = ns
    BY <1>1
  <2>2. ns # << >>
    BY ONLY <1>3
  <2> QED
    BY <1>4, <1>5, <2>1, <2>2
<1>9. InvoiceOK(i)'
  BY <1>1, <1>2, <1>7, <1>8 DEF InvoiceOK
<1>10. SalesInvoicesTypeOK' /\ DOMAIN books' = Invoices
  BY <1>1, <1>2, <1>5 DEF SalesInvoicesInv, SalesInvoicesTypeOK, Done
<1>11. \A x \in Invoices \ {i} : SameInvoice(x)
  BY <1>1, <1>5 DEF SameInvoice
<1>12. Due(invoice[i]) \in Int
  BY <1>2 DEF SalesInvoicesInv, SalesInvoicesTypeOK, Invoice, Due
<1>13. Due(invoice'[i]) <= Due(invoice[i])
  BY <1>1, <1>12
<1>14. /\ DOMAIN notes[i] \subseteq DOMAIN notes'[i] /\ Current(i) \subseteq Current(i)'
       /\ invoice'[i].status # "absent" /\ invoice'[i].units = invoice[i].units
       /\ invoice[i].status # "CANCELLED" => invoice'[i].status # "CANCELLED"
  <2>1. Current(i) \subseteq Current(i)'
    BY ONLY <1>4, <1>6
  <2>2. DOMAIN notes[i] \subseteq DOMAIN notes'[i]
    BY ONLY <1>8
  <2> QED
    BY <1>1, <1>3, <2>1, <2>2
<1> QED
  BY <1>1, <1>3, <1>9, <1>10, <1>11, <1>13, <1>14, ClerkEnds

\* A request fails.
LEMMA FailSalesInv ==
  ASSUME SalesInvoicesInv, NEW c \in Clerks, FailSales(c)
  PROVE  SalesInvoicesInv'
<1> PICK i : i = asked[c].at
  OBVIOUS
<1>1. /\ asked[c].op # "none" /\ Done(c)
      /\ UNCHANGED <<invoice, notes, shipped, books, received, overlapped, crossed, unmapped, rushed>>
  BY DEF FailSales, SalesInvoicesInv, ReadByClerk
<1>2. /\ i \in Invoices /\ InvoiceOK(i) /\ ReadByClerk(c) /\ invoice[i] \in Invoice
      /\ [asked EXCEPT ![c] = NotAsked] \in [Clerks -> Asked]
  BY <1>1, ClerkTypes
<1>3. \A x \in Invoices : SameInvoice(x)
  BY <1>1 DEF SameInvoice
<1>4. InvoiceOK(i)'
  BY <1>2, <1>3, SameInvoiceIsOK
<1>5. SalesInvoicesTypeOK' /\ DOMAIN books' = Invoices
  BY <1>1, <1>2 DEF SalesInvoicesInv, SalesInvoicesTypeOK, Done
<1>6. OutstandingWithinLimit'
  BY <1>1 DEF SalesInvoicesInv, OutstandingWithinLimit, Owed
<1>7. Due(invoice'[i]) <= Due(invoice[i])
  <2>1. Due(invoice[i]) \in Int
    BY <1>2 DEF Invoice, Due
  <2> QED
    BY <1>1, <2>1
<1>8. invoice'[i].status # "absent"
  BY <1>1, <1>2 DEF ReadByClerk
<1>9. /\ DOMAIN notes[i] \subseteq DOMAIN notes'[i] /\ Current(i) \subseteq Current(i)'
      /\ invoice'[i].units = invoice[i].units
      /\ invoice[i].status # "CANCELLED" => invoice'[i].status # "CANCELLED"
  BY <1>1 DEF Current
<1> QED
  BY <1>1, <1>3, <1>4, <1>5, <1>6, <1>7, <1>8, <1>9, ClerkEnds

\* Reading and checking an invoice.
LEMMA StartSalesInv ==
  ASSUME SalesInvoicesInv, NEW c \in Clerks, StartSales(c)
  PROVE  SalesInvoicesInv'
<1> PICK i \in Invoices :
      \/ ReadForUpdate(c, i) \/ ReadForRemove(c, i) \/ ReadForPost(c, i)
      \/ ReadForCancel(c, i) \/ ReadForPayment(c, i) \/ ReadForDelivery(c, i)
  BY DEF StartSales
<1>1. /\ invoice[i] \in Invoice /\ invoice[i].status \in Statuses /\ notes[i] \in Seq(Note)
      /\ invoice[i].units \in Nat /\ invoice[i].paid \in Nat
      /\ invoice[i].status = "absent" => notes[i] = << >>
  BY DEF SalesInvoicesInv, SalesInvoicesTypeOK, Invoice, InvoiceOK, Unbooked
<1>2. CASE ReadForUpdate(c, i)
  <2>1. PICK n \in Nat : Ask(c, i, "update", n)
    BY <1>2, LinesAssumption DEF ReadForUpdate
  <2> QED
    BY <1>2, <2>1, ClerkAsks DEF ReadForUpdate
<1>3. CASE ReadForRemove(c, i)
  BY <1>3, ClerkAsks DEF ReadForRemove
<1>4. CASE ReadForPost(c, i)
  BY <1>4, ClerkAsks DEF ReadForPost
<1>5. CASE ReadForCancel(c, i)
  <2>1. invoice[i].status \in InBooks \cup {"DRAFT"} /\ invoice[i].status # "absent"
    BY <1>1, <1>5 DEF ReadForCancel, Exists, InBooks, Statuses
  <2> QED
    BY <1>5, <2>1, ClerkAsks DEF ReadForCancel
<1>6. CASE ReadForPayment(c, i)
  <2>1. invoice[i].status \in InBooks /\ invoice[i].status # "absent"
    BY <1>1, <1>6 DEF ReadForPayment, Exists, InBooks, Statuses
  <2>2. PICK n \in Amounts : n <= invoice[i].units - invoice[i].paid /\ Ask(c, i, "pay", n)
    BY <1>6 DEF ReadForPayment
  <2>3. n \in Nat /\ invoice[i].paid + n <= invoice[i].units
    BY <1>1, <2>2, AmountsAssumption
  <2> QED
    BY <2>1, <2>2, <2>3, ClerkAsks
<1>7. CASE ReadForDelivery(c, i)
  <2>1. PICK j \in DOMAIN notes[i] : notes[i][j].status # "cancelled" /\ Ask(c, i, "deliver", j)
    BY <1>7 DEF ReadForDelivery
  <2>2. j \in Nat /\ j \in Current(i)
    BY <1>1, <2>1 DEF Current
  <2>3. invoice[i].status # "absent"
    BY <1>1, <2>1
  <2> QED
    BY <2>1, <2>2, <2>3, ClerkAsks
<1> QED
  BY <1>2, <1>3, <1>4, <1>5, <1>6, <1>7

\* Every step keeps the invariant.
LEMMA SalesNextInv == SalesInvoicesInv /\ [SalesNext]_salesVars => SalesInvoicesInv'
<1> SUFFICES ASSUME SalesInvoicesInv, [SalesNext]_salesVars PROVE SalesInvoicesInv'
  OBVIOUS
<1>1. ASSUME NEW i \in Invoices, CreateSalesInvoice(i) PROVE SalesInvoicesInv'
  BY <1>1, CreateSalesInv
<1>2. ASSUME NEW c \in Clerks, StartSales(c) PROVE SalesInvoicesInv'
  BY <1>2, StartSalesInv
<1>3. ASSUME NEW c \in Clerks, ContinueSales(c) PROVE SalesInvoicesInv'
  BY <1>3, AssertCreditInv, PostSalesInv, CancelSalesInv, UpdateSalesInv, RemoveSalesInv,
     AddSalesPaymentInv, MarkDeliveredInv, FailSalesInv DEF ContinueSales
<1>4. ASSUME UNCHANGED salesVars PROVE SalesInvoicesInv'
  <2>1. UNCHANGED <<invoice, notes, shipped, books, received, asked, overlapped, crossed, unmapped, rushed>>
    BY <1>4 DEF salesVars
  <2>2. SalesInvoicesTypeOK' /\ DOMAIN books' = Invoices /\ ClerksApart'
    BY <2>1 DEF SalesInvoicesInv, SalesInvoicesTypeOK, ClerksApart
  <2>3. OutstandingWithinLimit' /\ \A I : Owed(I)' = Owed(I)
    BY <2>1 DEF SalesInvoicesInv, OutstandingWithinLimit, Owed
  <2>4. \A i \in Invoices : InvoiceOK(i)'
    BY <2>1, SameInvoiceIsOK DEF SalesInvoicesInv, SameInvoice
  <2>5. ASSUME NEW c \in Clerks PROVE ReadByClerk(c)'
    BY <2>1, <2>3 DEF SalesInvoicesInv, ReadByClerk, NoteUnits, Current
  <2> QED
    BY <2>2, <2>3, <2>4, <2>5 DEF SalesInvoicesInv
<1> QED
  BY <1>1, <1>2, <1>3, <1>4 DEF SalesNext

\* However the requests on them interleave, invoices, delivery notes, stock,
\* journal entries and payments stay related as described.
THEOREM SalesInvoicesInvariant == SalesSpec => []SalesInvoicesInv
<1>1. SalesInit => SalesInvoicesInv
  BY SalesInitInv
<1>2. SalesInvoicesInv /\ [SalesNext]_salesVars => SalesInvoicesInv'
  BY SalesNextInv
<1> QED
  BY <1>1, <1>2, PTL DEF SalesSpec

\* The goods an invoice has taken out of the stock are those on its delivery
\* notes and in its books.
THEOREM GoodsFollowInvoices == SalesSpec => []GoodsMatchNotesAndBooks
<1>1. SalesInvoicesInv => GoodsMatchNotesAndBooks
  BY DEF SalesInvoicesInv, InvoiceOK, GoodsMatchNotesAndBooks
<1> QED
  BY <1>1, SalesInvoicesInvariant, PTL

\* No payment that races another or a posting makes an invoice show more than
\* it is worth, and what the customer owes stays within the credit limit.
THEOREM InvoicesAreNotOverpaid == SalesSpec => [](PaidWithinTotal /\ OutstandingWithinLimit)
<1>1. SalesInvoicesInv => PaidWithinTotal /\ OutstandingWithinLimit
  BY DEF SalesInvoicesInv, InvoiceOK, PaidWithinTotal
<1> QED
  BY <1>1, SalesInvoicesInvariant, PTL

-----------------------------------------------------------------------------
(* Representatives *)

\* What a version of the van's row shows.
Value(n) == IF n = NoRow THEN 0 ELSE n

Locks == {"van", "shelf", "numbers"}
VanRow == Nat \cup {NoRow}
Steps(op) ==
  CASE op = "load" -> {"check", "take", "look", "store"}
    [] op = "unload" -> {"look", "store", "back"}
    [] op = "sell" -> {"number", "look", "store"}
    [] op = "return" -> {"look", "store"}
    [] op = "collect" -> {"read", "write"}
    [] op = "none" -> {""}

\* Where a request is, the last two as it commits.
RepPlaces ==
  {"", "check", "take", "number", "look", "store", "back", "read", "write", "van", "shelf"}

RepTask ==
  [op : {"none", "load", "unload", "sell", "return", "collect"},
   at : RepPlaces,
   items : Seq(Nat \ {0}), sale : Sales \cup {NoSale}, total : Nat, read : Int,
   van : Int, vanMoved : Int, shelf : Int, shelfMoved : Int]

RepTypes ==
  /\ van \in VanRow /\ vanMoves \in Int /\ shelf \in Int /\ shelfMoves \in Int
  /\ sale \in [Sales -> [status : SaleStatuses, total : Nat, paid : Nat]]
  /\ collected \in [Sales -> Nat]
  /\ task \in [Agents -> RepTask]
  /\ holder \in [Locks -> Agents \cup {NoAgent}]
  /\ raced \subseteq {"van", "shelf"} \cup Sales

\* Van, shelf and sales show what was moved and collected.
RepBooks ==
  /\ "van" \notin raced => vanMoves = Value(van)
  /\ shelf = shelfMoves
  /\ "shelf" \notin raced => shelf >= 0
  /\ \A s \in Sales :
       /\ sale[s].status = "absent" => sale[s].paid = 0 /\ collected[s] = 0
       /\ s \notin raced => sale[s].paid = collected[s]
       /\ sale[s].status = "PAID" => sale[s].paid >= sale[s].total

\* A transaction's version of the van's row, of which n units are committed, differs
\* from it by what the transaction has moved, once it has written it.
VanPending(t, written, n, isRaced) ==
  IF written
  THEN /\ t.van \in VanRow
       /\ n # NoRow => t.van # NoRow
       /\ ~isRaced => Value(t.van) = Value(n) + t.vanMoved
  ELSE t.vanMoved = 0

\* The same of the shelf's row, which shows no less than nothing.
ShelfPending(t, written, n, isRaced) ==
  IF written
  THEN t.shelf = n + t.shelfMoved /\ (~isRaced => t.shelf >= 0)
  ELSE t.shelfMoved = 0

\* What a request has read, and what it has locked.
TaskOK(a) ==
  LET t == task[a]
  IN  /\ t.op = "none" => t = NoTask
      /\ t.at \in Steps(t.op)
      /\ t.op # "none" => t.items # << >>
      /\ (\E l \in Locks : holder[l] = a) => t.op \notin {"none", "collect"}
      /\ holder["numbers"] = a => t.op = "sell"
      /\ VanPending(t, holder["van"] = a, van, "van" \in raced)
      /\ ShelfPending(t, holder["shelf"] = a, shelf, "shelf" \in raced)
      /\ t.at = "take" => t.read >= Head(t.items)
      /\ t.at = "store" => /\ t.read \in VanRow
                           /\ t.read # NoRow => VanSeen(a) # NoRow
                           /\ t.op = "unload" => t.read >= Head(t.items)
      /\ t.op = "sell" /\ t.at # "number" =>
           holder["numbers"] = a /\ t.sale \in Sales /\ sale[t.sale].status = "absent"
      /\ t.op = "collect" =>
           /\ t.sale \in Sales /\ sale[t.sale].status # "absent"
           /\ t.at = "write" => t.read \in Nat

RepInv ==
  /\ RepTypes
  /\ RepBooks
  /\ \A a \in Agents : TaskOK(a)

\* A request that does nothing is one.
LEMMA NoTaskIsTask == NoTask \in RepTask
BY DEF NoTask, RepTask, RepPlaces

\* Nothing is wrong before the first request.
LEMMA RepInitInv == RepInit => RepInv
<1> SUFFICES ASSUME RepInit PROVE RepInv
  OBVIOUS
<1>1. NoTask \in RepTask
  BY DEF NoTask, RepTask, RepPlaces
<1>2. RepTypes
  BY <1>1, OnShelfAssumption DEF RepInit, RepTypes, VanRow, Locks, SaleStatuses
<1>3. RepBooks
  BY OnShelfAssumption DEF RepInit, RepBooks, Value
<1>4. ASSUME NEW a \in Agents PROVE TaskOK(a)
  <2>1. task[a] = NoTask /\ \A l \in Locks : holder[l] # a
    BY AgentsAssumption DEF RepInit, Locks
  <2>2. NoTask.at \in Steps(NoTask.op) /\ NoTask.op = "none" /\ NoTask.at = ""
    BY DEF NoTask, Steps
  <2>3. NoTask.vanMoved = 0 /\ NoTask.shelfMoved = 0
    BY DEF NoTask
  <2> QED
    BY <2>1, <2>2, <2>3 DEF TaskOK, VanPending, ShelfPending, Locks
<1> QED
  BY <1>2, <1>3, <1>4 DEF RepInv

\* What holds of a request holds while others work, whose rows it has not locked.
LEMMA TaskStays ==
  ASSUME NEW b, TaskOK(b), task'[b] = task[b],
         \A l \in Locks : holder'[l] = b <=> holder[l] = b,
         raced \subseteq raced',
         holder["van"] = b => van' = van, van # NoRow => van' # NoRow,
         holder["shelf"] = b => shelf' = shelf,
         \A s \in Sales : sale[s].status # "absent" => sale'[s].status # "absent",
         holder["numbers"] = b =>
           \A s \in Sales : sale'[s].status = "absent" <=> sale[s].status = "absent"
  PROVE  TaskOK(b)'
<1> PICK t : t = task[b]
  OBVIOUS
<1>1. VanPending(t, holder'["van"] = b, van', "van" \in raced')
  BY DEF TaskOK, VanPending, Locks
<1>2. ShelfPending(t, holder'["shelf"] = b, shelf', "shelf" \in raced')
  BY DEF TaskOK, ShelfPending, Locks
<1>3. VanSeen(b) # NoRow => VanSeen(b)' # NoRow
  BY DEF VanSeen, Locks
<1> QED
  BY <1>1, <1>2, <1>3 DEF TaskOK, Locks

\* A step of request a leaves the others as they were.
LEMMA OneRequestMoves ==
  ASSUME RepInv, NEW a \in Agents,
         \A b \in Agents \ {a} : task'[b] = task[b],
         \A b \in Agents \ {a}, l \in Locks : holder'[l] = b <=> holder[l] = b,
         raced \subseteq raced',
         van' = van \/ (holder["van"] \in {a, NoAgent} /\ (van # NoRow => van' # NoRow)),
         shelf' = shelf \/ holder["shelf"] \in {a, NoAgent},
         \A s \in Sales : sale[s].status # "absent" => sale'[s].status # "absent",
         holder["numbers"] = a \/ \A s \in Sales : sale'[s].status = "absent" <=> sale[s].status = "absent",
         RepTypes', RepBooks', TaskOK(a)'
  PROVE  RepInv'
<1>1. ASSUME NEW b \in Agents \ {a} PROVE TaskOK(b)'
  <2>1. TaskOK(b) /\ b # a /\ b # NoAgent
    BY <1>1, AgentsAssumption DEF RepInv
  <2> QED
    BY <1>1, <2>1, TaskStays
<1> QED
  BY <1>1 DEF RepInv

\* A step that leaves the transaction of a open.
LEMMA TransactionStays ==
  ASSUME RepInv, NEW a \in Agents, InTransaction, NEW t \in RepTask,
         task' = [task EXCEPT ![a] = t],
         holder' \in [Locks -> Agents \cup {NoAgent}],
         \A b \in Agents \ {a}, l \in Locks : holder'[l] = b <=> holder[l] = b,
         raced \subseteq raced', raced' \subseteq {"van", "shelf"} \cup Sales,
         TaskOK(a)'
  PROVE  RepInv'
<1>1. RepTypes'
  BY DEF RepInv, RepTypes, InTransaction
<1>2. RepBooks'
  BY DEF RepInv, RepBooks, InTransaction
<1>3. \A b \in Agents \ {a} : task'[b] = task[b]
  BY DEF RepInv, RepTypes
<1> QED
  BY <1>1, <1>2, <1>3, OneRequestMoves DEF InTransaction

\* What is known of a request in progress.
LEMMA RequestTypes ==
  ASSUME RepInv, NEW a \in Agents, task[a].op # "none", NEW t, t = task[a]
  PROVE  /\ t \in RepTask /\ TaskOK(a) /\ Head(t.items) \in Nat \ {0}
         /\ t.items \in Seq(Nat \ {0}) /\ Tail(t.items) \in Seq(Nat \ {0})
         /\ Len(t.items) # 1 => Tail(t.items) # << >>
         /\ VanSeen(a) \in VanRow /\ ShelfSeen(a) \in Int
         /\ van # NoRow => VanSeen(a) # NoRow
<1>1. t \in RepTask /\ TaskOK(a)
  BY DEF RepInv, RepTypes
<1>2. t.items \in Seq(Nat \ {0}) /\ t.items # << >>
  BY <1>1 DEF RepTask, RepPlaces, TaskOK
<1>3. Head(t.items) \in Nat \ {0} /\ Tail(t.items) \in Seq(Nat \ {0}) /\ Len(Tail(t.items)) = Len(t.items) - 1
  BY ONLY <1>2, HeadTailProperties
<1>4. Len(t.items) # 1 => Tail(t.items) # << >>
  <2>1. Len(t.items) \in Nat /\ Len(<< >>) = 0
    BY <1>2
  <2>2. Tail(t.items) = << >> => Len(Tail(t.items)) = Len(<< >>)
    OBVIOUS
  <2>3. Len(Tail(t.items)) = Len(t.items) - 1
    BY <1>3
  <2> QED
    BY ONLY <2>1, <2>2, <2>3
<1>5. VanSeen(a) \in VanRow /\ (van # NoRow => VanSeen(a) # NoRow)
  BY <1>1 DEF VanSeen, TaskOK, VanPending, RepInv, RepTypes
<1>6. ShelfSeen(a) \in Int
  BY <1>1 DEF ShelfSeen, RepTask, RepPlaces, RepInv, RepTypes
<1> QED
  BY <1>1, <1>2, <1>3, <1>4, <1>5, <1>6

\* A request that goes on in its transaction.
LEMMA TaskGoesOn ==
  ASSUME NEW a, NEW t, task'[a] = t, InTransaction,
         t.op # "none", t.at \in Steps(t.op), t.items # << >>,
         (\E l \in Locks : holder'[l] = a) => t.op # "collect",
         holder'["numbers"] = a => t.op = "sell",
         VanPending(t, holder'["van"] = a, van, "van" \in raced'),
         ShelfPending(t, holder'["shelf"] = a, shelf, "shelf" \in raced'),
         t.at = "take" => t.read >= Head(t.items),
         t.at = "store" => /\ t.read \in VanRow
                           /\ t.read # NoRow => VanSeen(a)' # NoRow
                           /\ t.op = "unload" => t.read >= Head(t.items),
         t.op = "sell" /\ t.at # "number" =>
           holder'["numbers"] = a /\ t.sale \in Sales /\ sale[t.sale].status = "absent",
         t.op = "collect" =>
           /\ t.sale \in Sales /\ sale[t.sale].status # "absent"
           /\ t.at = "write" => t.read \in Nat
  PROVE  TaskOK(a)'
BY DEF TaskOK, InTransaction

\* A request that begins has read and locked nothing.
LEMMA AsksInv ==
  ASSUME RepInv, NEW a \in Agents, NEW items \in Baskets, NEW op, NEW at,
         Asks(a, op, at, items), op \in {"load", "unload", "sell", "return"},
         at \in Steps(op) \ {"take", "store"}, op = "sell" => at = "number"
  PROVE  RepInv'
<1> PICK t : t = [NoTask EXCEPT !.op = op, !.at = at, !.items = items]
  OBVIOUS
<1>1. /\ t.op = op /\ t.at = at /\ t.items = items /\ t.vanMoved = 0 /\ t.shelfMoved = 0
      /\ t \in RepTask
  <2>1. items \in Seq(Nat \ {0})
    BY BasketsAssumption
  <2>2. at \in RepPlaces
    BY DEF Steps, RepPlaces
  <2>3. t = [op |-> op, at |-> at, items |-> items, sale |-> NoSale, total |-> 0, read |-> 0,
             van |-> 0, vanMoved |-> 0, shelf |-> 0, shelfMoved |-> 0]
    BY DEF NoTask
  <2>4. op \in {"none", "load", "unload", "sell", "return", "collect"}
    OBVIOUS
  <2>5. t \in RepTask
    <3>1. 0 \in Nat /\ 0 \in Int /\ NoSale \in Sales \cup {NoSale}
      OBVIOUS
    <3> QED
      BY ONLY Zenon, <2>1, <2>2, <2>3, <2>4, <3>1 DEF RepTask, RepPlaces
  <2> QED
    BY ONLY <2>3, <2>5
<1>2. t.items # << >>
  BY <1>1, BasketsAssumption
<1>3. task[a].op = "none" /\ TaskOK(a)
  <2>1. task[a] = NoTask /\ NoTask.op = "none"
    BY DEF Asks, NoTask
  <2> QED
    BY <2>1 DEF RepInv
<1>4. /\ task' = [task EXCEPT ![a] = t] /\ UNCHANGED <<holder, raced>> /\ InTransaction
      /\ task'[a] = t
  BY DEF Asks, InTransaction, RepInv, RepTypes
<1>5. \A l \in Locks : holder'[l] # a
  BY <1>3, <1>4 DEF TaskOK
<1>6. TaskOK(a)'
  BY <1>1, <1>2, <1>4, <1>5 DEF TaskOK, VanPending, ShelfPending, Locks
<1>7. /\ holder' \in [Locks -> Agents \cup {NoAgent}]
      /\ raced' \subseteq {"van", "shelf"} \cup Sales /\ raced \subseteq raced'
      /\ \A b \in Agents \ {a}, l \in Locks : holder'[l] = b <=> holder[l] = b
  BY <1>4 DEF RepInv, RepTypes
<1> QED
  BY <1>1, <1>4, <1>6, <1>7, TransactionStays

\* The warehouse is checked...
LEMMA CheckShelfInv ==
  ASSUME RepInv, NEW a \in Agents, CheckShelf(a)
  PROVE  RepInv'
<1> PICK t, new : t = task[a] /\ new = [t EXCEPT !.at = "take", !.read = ShelfSeen(a)]
  OBVIOUS
<1>1. t.op = "load" /\ t.at = "check" /\ ShelfSeen(a) >= Head(t.items)
  BY DEF CheckShelf, At
<1>2. t \in RepTask /\ TaskOK(a) /\ ShelfSeen(a) \in Int
  BY <1>1, RequestTypes
<1>3. /\ new \in RepTask /\ new.op = "load" /\ new.at = "take" /\ new.items = t.items
      /\ new.read = ShelfSeen(a) /\ new.van = t.van /\ new.vanMoved = t.vanMoved
      /\ new.shelf = t.shelf /\ new.shelfMoved = t.shelfMoved
  BY <1>1, <1>2 DEF RepTask, RepPlaces
<1>4. /\ task' = [task EXCEPT ![a] = new] /\ UNCHANGED <<holder, raced>> /\ InTransaction
      /\ task'[a] = new
  BY DEF CheckShelf, RepInv, RepTypes
<1>5. TaskOK(a)'
  <2>1. /\ VanPending(new, holder'["van"] = a, van, "van" \in raced')
        /\ ShelfPending(new, holder'["shelf"] = a, shelf, "shelf" \in raced')
    BY <1>2, <1>3, <1>4 DEF TaskOK, VanPending, ShelfPending
  <2>2. holder'["numbers"] # a /\ new.items # << >>
    BY <1>1, <1>2, <1>3, <1>4 DEF TaskOK
  <2>3. new.at \in Steps(new.op)
    BY <1>3 DEF Steps
  <2>4. new.at # "store" /\ new.op \notin {"none", "sell", "collect"} /\ new.read >= Head(new.items)
    BY <1>1, <1>3
  <2> QED
    BY ONLY <1>4, <2>1, <2>2, <2>3, <2>4, TaskGoesOn
<1>6. /\ holder' \in [Locks -> Agents \cup {NoAgent}]
      /\ raced' \subseteq {"van", "shelf"} \cup Sales /\ raced \subseteq raced'
      /\ \A b \in Agents \ {a}, l \in Locks : holder'[l] = b <=> holder[l] = b
  BY <1>4 DEF RepInv, RepTypes
<1> QED
  BY <1>3, <1>4, <1>5, <1>6, TransactionStays

\* What a free lock, taken by a, means to the others.
LEMMA LockIsTaken ==
  ASSUME RepInv, NEW a \in Agents, NEW l \in Locks, CanLock(a, l),
         holder' = [holder EXCEPT ![l] = a]
  PROVE  /\ holder' \in [Locks -> Agents \cup {NoAgent}]
         /\ holder'[l] = a /\ \A m \in Locks \ {l} : holder'[m] = holder[m]
         /\ \A b \in Agents \ {a}, m \in Locks : holder'[m] = b <=> holder[m] = b
BY AgentsAssumption DEF CanLock, RepInv, RepTypes

\* ...and the item taken out of it, or what was left meanwhile is raced.
LEMMA TakeFromShelfInv ==
  ASSUME RepInv, NEW a \in Agents, TakeFromShelf(a)
  PROVE  RepInv'
<1> PICK t, n, seen, new :
      /\ t = task[a] /\ n = Head(t.items) /\ seen = ShelfSeen(a)
      /\ new = [t EXCEPT !.at = "look", !.shelf = seen - n, !.shelfMoved = @ - n]
  OBVIOUS
<1>1. t.op = "load" /\ t.at = "take" /\ CanLock(a, "shelf")
  BY DEF TakeFromShelf, At
<1>2. t \in RepTask /\ TaskOK(a) /\ seen \in Int /\ n \in Nat \ {0}
  BY <1>1, RequestTypes
<1>3. /\ new \in RepTask /\ new.op = "load" /\ new.at = "look" /\ new.items = t.items
      /\ new.read = t.read /\ new.van = t.van /\ new.vanMoved = t.vanMoved
      /\ new.shelf = seen - n /\ new.shelfMoved = t.shelfMoved - n
  <2> PICK left, moved : left = seen - n /\ moved = t.shelfMoved - n
    OBVIOUS
  <2>1. left \in Int /\ moved \in Int
    <3>1. t.shelfMoved \in Int
      BY <1>2 DEF RepTask, RepPlaces
    <3> QED
      BY <1>2, <3>1
  <2>2. new = [t EXCEPT !.at = "look", !.shelf = left, !.shelfMoved = moved]
    BY <1>2 DEF RepTask, RepPlaces
  <2> QED
    BY <1>1, <1>2, <2>1, <2>2 DEF RepTask, RepPlaces
<1>4. /\ task' = [task EXCEPT ![a] = new] /\ InTransaction
      /\ holder' = [holder EXCEPT !["shelf"] = a]
      /\ raced' = IF seen # t.read THEN raced \cup {"shelf"} ELSE raced
      /\ task'[a] = new
  BY DEF TakeFromShelf, RepInv, RepTypes
<1>5. /\ holder' \in [Locks -> Agents \cup {NoAgent}]
      /\ holder'["shelf"] = a /\ holder'["van"] = holder["van"] /\ holder'["numbers"] = holder["numbers"]
      /\ \A b \in Agents \ {a}, l \in Locks : holder'[l] = b <=> holder[l] = b
  BY <1>1, <1>4, LockIsTaken DEF Locks
<1>6. ShelfPending(new, TRUE, shelf, "shelf" \in raced')
  <2>1. shelf \in Int /\ t.shelfMoved \in Int
    BY <1>2 DEF RepTask, RepPlaces, RepInv, RepTypes
  <2>2. seen = shelf + t.shelfMoved
    BY <1>2, <2>1 DEF ShelfSeen, TaskOK, ShelfPending
  <2>3. "shelf" \notin raced' => seen >= n
    BY <1>1, <1>2, <1>4 DEF TaskOK
  <2>4. new.shelf = shelf + new.shelfMoved /\ ("shelf" \notin raced' => new.shelf >= 0)
    BY <1>2, <1>3, <2>1, <2>2, <2>3
  <2> QED
    BY <2>4 DEF ShelfPending
<1>7. VanPending(new, holder'["van"] = a, van, "van" \in raced')
  BY <1>2, <1>3, <1>4, <1>5 DEF TaskOK, VanPending
<1>8. holder'["numbers"] # a
  BY <1>1, <1>2, <1>5 DEF TaskOK
<1>9. TaskOK(a)'
  <2>1. new.at \in Steps(new.op)
    BY <1>3 DEF Steps
  <2>2. new.items # << >>
    BY <1>1, <1>2, <1>3 DEF TaskOK
  <2>3. new.at \notin {"take", "store"} /\ new.op \notin {"none", "sell", "collect"}
    BY <1>3
  <2>4. ShelfPending(new, holder'["shelf"] = a, shelf, "shelf" \in raced')
    BY <1>5, <1>6
  <2> QED
    BY ONLY <1>4, <1>7, <1>8, <2>1, <2>2, <2>3, <2>4, TaskGoesOn
<1>10. raced' \subseteq {"van", "shelf"} \cup Sales /\ raced \subseteq raced'
  BY <1>4 DEF RepInv, RepTypes
<1> QED
  BY <1>3, <1>4, <1>5, <1>9, <1>10, TransactionStays

\* A sale takes a number nobody else can take...
LEMMA TakeNumberInv ==
  ASSUME RepInv, NEW a \in Agents, TakeNumber(a)
  PROVE  RepInv'
<1>1. PICK s \in Sales :
        /\ sale[s].status = "absent"
        /\ task' = [task EXCEPT ![a].at = "look", ![a].sale = s, ![a].total = Sum(task[a].items)]
  BY DEF TakeNumber
<1> PICK t, total, new :
      /\ t = task[a] /\ total = Sum(t.items)
      /\ new = [t EXCEPT !.at = "look", !.sale = s, !.total = total]
  OBVIOUS
<1>2. t.op = "sell" /\ t.at = "number" /\ CanLock(a, "numbers")
  BY DEF TakeNumber, At
<1>3. t \in RepTask /\ TaskOK(a) /\ t.items \in Seq(Nat \ {0})
  BY <1>2, RequestTypes
<1>4. total \in Nat
  <2>1. DOMAIN t.items = 1..Len(t.items) /\ Len(t.items) \in Int
    BY <1>3
  <2>2. IsFiniteSet(DOMAIN t.items)
    <3>1. 0 + 1 \in Int /\ IsFiniteSet(1..Len(t.items))
      BY ONLY <2>1, FS_Interval
    <3> QED
      BY <2>1, <3>1
  <2>3. \A i \in DOMAIN t.items : t.items[i] \in Nat
    BY <1>3
  <2> QED
    BY <2>2, <2>3, SumIsNat DEF Sum, SumFunction
<1>5. /\ new \in RepTask /\ new.op = "sell" /\ new.at = "look" /\ new.items = t.items
      /\ new.sale = s /\ new.van = t.van /\ new.vanMoved = t.vanMoved
      /\ new.shelf = t.shelf /\ new.shelfMoved = t.shelfMoved
  BY <1>2, <1>3, <1>4 DEF RepTask, RepPlaces
<1>6. /\ task' = [task EXCEPT ![a] = new] /\ InTransaction
      /\ holder' = [holder EXCEPT !["numbers"] = a] /\ UNCHANGED raced
      /\ task'[a] = new
  BY <1>1 DEF TakeNumber, RepInv, RepTypes
<1>7. /\ holder' \in [Locks -> Agents \cup {NoAgent}]
      /\ holder'["numbers"] = a /\ holder'["van"] = holder["van"] /\ holder'["shelf"] = holder["shelf"]
      /\ \A b \in Agents \ {a}, l \in Locks : holder'[l] = b <=> holder[l] = b
  BY <1>2, <1>6, LockIsTaken DEF Locks
<1>8. TaskOK(a)'
  <2>1. /\ VanPending(new, holder'["van"] = a, van, "van" \in raced')
        /\ ShelfPending(new, holder'["shelf"] = a, shelf, "shelf" \in raced')
    BY <1>3, <1>5, <1>6, <1>7 DEF TaskOK, VanPending, ShelfPending
  <2>2. new.at \in Steps(new.op)
    BY <1>5 DEF Steps
  <2>3. new.items # << >>
    BY <1>2, <1>3, <1>5 DEF TaskOK
  <2>4. new.at \notin {"take", "store"} /\ new.op = "sell" /\ new.sale \in Sales
    BY <1>5
  <2>5. sale[new.sale].status = "absent"
    BY <1>1, <1>5
  <2> QED
    BY ONLY <1>6, <1>7, <2>1, <2>2, <2>3, <2>4, <2>5, TaskGoesOn
<1>9. raced' \subseteq {"van", "shelf"} \cup Sales /\ raced \subseteq raced'
  BY <1>6 DEF RepInv, RepTypes
<1> QED
  BY <1>5, <1>6, <1>7, <1>8, <1>9, TransactionStays

\* ...and every request looks at the van's row.
LEMMA LookAtVanInv ==
  ASSUME RepInv, NEW a \in Agents, LookAtVan(a)
  PROVE  RepInv'
<1> PICK t, new : t = task[a] /\ new = [t EXCEPT !.at = "store", !.read = VanSeen(a)]
  OBVIOUS
<1>1. t.at = "look" /\ (t.op = "unload" => VanSeen(a) >= Head(t.items))
  BY DEF LookAtVan
<1>2. t.op \in {"load", "unload", "sell", "return"}
  <2>1. t \in RepTask /\ TaskOK(a)
    BY DEF RepInv, RepTypes
  <2> QED
    BY <1>1, <2>1 DEF TaskOK, Steps, RepTask, RepPlaces
<1>3. t \in RepTask /\ TaskOK(a) /\ VanSeen(a) \in VanRow /\ VanRow \subseteq Int
  BY <1>2, RequestTypes DEF VanRow, NoRow
<1>4. /\ new \in RepTask /\ new.op = t.op /\ new.at = "store" /\ new.items = t.items
      /\ new.read = VanSeen(a) /\ new.van = t.van /\ new.vanMoved = t.vanMoved
      /\ new.shelf = t.shelf /\ new.shelfMoved = t.shelfMoved /\ new.sale = t.sale
  BY <1>1, <1>3 DEF RepTask, RepPlaces
<1>5. /\ task' = [task EXCEPT ![a] = new] /\ UNCHANGED <<holder, raced>> /\ InTransaction
      /\ task'[a] = new
  BY DEF LookAtVan, RepInv, RepTypes
<1>6. VanSeen(a)' = VanSeen(a)
  BY <1>4, <1>5 DEF VanSeen, InTransaction
<1>7. TaskOK(a)'
  <2>1. /\ VanPending(new, holder'["van"] = a, van, "van" \in raced')
        /\ ShelfPending(new, holder'["shelf"] = a, shelf, "shelf" \in raced')
    BY <1>3, <1>4, <1>5 DEF TaskOK, VanPending, ShelfPending
  <2>2. new.items # << >> /\ new.op # "none" /\ new.op # "collect" /\ new.at \in Steps(new.op)
    <3>1. new.items # << >>
      BY <1>2, <1>3, <1>4 DEF TaskOK
    <3>2. new.at \in Steps(new.op)
      BY <1>2, <1>4 DEF Steps
    <3> QED
      BY <1>2, <1>4, <3>1, <3>2
  <2>3. holder'["numbers"] = a => new.op = "sell"
    BY <1>3, <1>4, <1>5 DEF TaskOK
  <2>4. new.op = "sell" =>
          holder'["numbers"] = a /\ new.sale \in Sales /\ sale[new.sale].status = "absent"
    BY <1>1, <1>3, <1>4, <1>5 DEF TaskOK
  <2>5. /\ new.read \in VanRow
        /\ new.read # NoRow => VanSeen(a)' # NoRow
        /\ new.op = "unload" => new.read >= Head(new.items)
    BY <1>1, <1>3, <1>4, <1>6
  <2> QED
    BY ONLY <1>4, <1>5, <2>1, <2>2, <2>3, <2>4, <2>5, TaskGoesOn
<1>8. /\ holder' \in [Locks -> Agents \cup {NoAgent}]
      /\ raced' \subseteq {"van", "shelf"} \cup Sales /\ raced \subseteq raced'
      /\ \A b \in Agents \ {a}, l \in Locks : holder'[l] = b <=> holder[l] = b
  BY <1>5 DEF RepInv, RepTypes
<1> QED
  BY <1>4, <1>5, <1>7, <1>8, TransactionStays

\* What a request that ends lets go.
LEMMA LocksAreReleased ==
  ASSUME RepInv, NEW a \in Agents, holder' = Unlocked(a)
  PROVE  /\ holder' \in [Locks -> Agents \cup {NoAgent}]
         /\ \A l \in Locks : holder'[l] # a
         /\ \A b \in Agents \ {a}, l \in Locks : holder'[l] = b <=> holder[l] = b
BY AgentsAssumption DEF Unlocked, RepInv, RepTypes

\* A request that has ended.
LEMMA TaskEnds ==
  ASSUME NEW a, task'[a] = NoTask, \A l \in Locks : holder'[l] # a
  PROVE  TaskOK(a)'
<1>1. NoTask.at \in Steps(NoTask.op) /\ NoTask.op = "none" /\ NoTask.at = ""
  BY DEF NoTask, Steps
<1>2. NoTask.vanMoved = 0 /\ NoTask.shelfMoved = 0
  BY DEF NoTask
<1> QED
  BY <1>1, <1>2 DEF TaskOK, VanPending, ShelfPending, Locks

\* A transaction commits.
LEMMA CommitsInv ==
  ASSUME RepInv, NEW a \in Agents, NEW t \in RepTask, Commits(a, t),
         t.op \notin {"none", "collect"}, t.op = task[a].op, t.sale = task[a].sale,
         task[a].at # "number",
         t.at = "van" => CanLock(a, "van"), t.at = "shelf" => CanLock(a, "shelf"),
         raced \subseteq raced', raced' \subseteq {"van", "shelf"} \cup Sales,
         VanPending(t, holder["van"] = a \/ t.at = "van", van, "van" \in raced'),
         ShelfPending(t, holder["shelf"] = a \/ t.at = "shelf", shelf, "shelf" \in raced')
  PROVE  RepInv'
<1>1. /\ van \in VanRow /\ vanMoves \in Int /\ shelf \in Int /\ shelfMoves \in Int
      /\ t.van \in Int /\ t.vanMoved \in Int /\ t.shelf \in Int /\ t.shelfMoved \in Int
      /\ t.total \in Nat
  BY DEF RepInv, RepTypes, RepTask, RepPlaces
<1>2. t.op = "sell" =>
        holder["numbers"] = a /\ t.sale \in Sales /\ sale[t.sale].status = "absent"
  <2>1. TaskOK(a)
    BY DEF RepInv
  <2> QED
    BY <2>1 DEF TaskOK
<1>3. /\ task' = [task EXCEPT ![a] = NoTask] /\ holder' = Unlocked(a) /\ collected' = collected
      /\ vanMoves' = vanMoves + t.vanMoved /\ shelfMoves' = shelfMoves + t.shelfMoved
  BY DEF Commits
<1>4. /\ van' \in VanRow /\ (van # NoRow => van' # NoRow)
      /\ "van" \notin raced' => Value(van') = Value(van) + t.vanMoved
  BY <1>1 DEF Commits, VanPending, VanRow, Value, NoRow
<1>5. /\ shelf' = shelf + t.shelfMoved
      /\ "shelf" \notin raced' => shelf' >= 0
  BY <1>1 DEF Commits, ShelfPending, RepInv, RepBooks
<1>6. ASSUME NEW s \in Sales
      PROVE  \/ sale'[s] = sale[s]
             \/ /\ t.op = "sell" /\ s = t.sale
                /\ sale'[s] = [status |-> "PENDING", total |-> t.total, paid |-> 0]
  BY <1>2 DEF Commits, RepInv, RepTypes
<1>7. sale' \in [Sales -> [status : SaleStatuses, total : Nat, paid : Nat]]
  <2>1. [status |-> "PENDING", total |-> t.total, paid |-> 0] \in [status : SaleStatuses, total : Nat, paid : Nat]
    BY <1>1 DEF SaleStatuses
  <2> QED
    BY <2>1 DEF Commits, RepInv, RepTypes
<1>8. /\ holder' \in [Locks -> Agents \cup {NoAgent}]
      /\ \A l \in Locks : holder'[l] # a
      /\ \A b \in Agents \ {a}, l \in Locks : holder'[l] = b <=> holder[l] = b
  BY <1>3, LocksAreReleased
<1>9. RepTypes'
  <2>1. NoTask \in RepTask
    BY NoTaskIsTask
  <2>2. shelf' \in Int /\ vanMoves' \in Int /\ shelfMoves' \in Int
    BY <1>1, <1>3, <1>5
  <2>3. task' \in [Agents -> RepTask]
    BY <1>3, <2>1 DEF RepInv, RepTypes
  <2> QED
    BY <1>3, <1>4, <1>7, <1>8, <2>2, <2>3 DEF RepInv, RepTypes
<1>10. RepBooks'
  <2>1. "van" \notin raced' => vanMoves' = Value(van')
    BY <1>1, <1>3, <1>4 DEF RepInv, RepBooks, Value, VanRow, NoRow
  <2>2. shelf' = shelfMoves'
    BY <1>1, <1>3, <1>5 DEF RepInv, RepBooks
  <2>3. ASSUME NEW s \in Sales
        PROVE  /\ sale'[s].status = "absent" => sale'[s].paid = 0 /\ collected'[s] = 0
               /\ s \notin raced' => sale'[s].paid = collected'[s]
               /\ sale'[s].status = "PAID" => sale'[s].paid >= sale'[s].total
    <3>1. CASE sale'[s] = sale[s]
      BY <1>3, <3>1 DEF RepInv, RepBooks
    <3>2. CASE sale'[s] # sale[s]
      BY <1>2, <1>3, <1>6, <3>2 DEF RepInv, RepBooks
    <3> QED
      BY <3>1, <3>2
  <2> QED
    BY <1>5, <2>1, <2>2, <2>3 DEF RepBooks
<1>11. TaskOK(a)'
  <2>1. task'[a] = NoTask
    BY <1>3 DEF RepInv, RepTypes
  <2> QED
    BY <1>8, <2>1, TaskEnds
<1>12. \A b \in Agents \ {a} : task'[b] = task[b]
  BY <1>3 DEF RepInv, RepTypes
<1>13. /\ van' = van \/ (holder["van"] \in {a, NoAgent} /\ (van # NoRow => van' # NoRow))
       /\ shelf' = shelf \/ holder["shelf"] \in {a, NoAgent}
  BY <1>4 DEF Commits, CanLock
<1>14. /\ \A s \in Sales : sale[s].status # "absent" => sale'[s].status # "absent"
       /\ holder["numbers"] = a \/ \A s \in Sales : sale'[s].status = "absent" <=> sale[s].status = "absent"
  BY <1>2, <1>6
<1> QED
  BY ONLY RepInv, a \in Agents, raced \subseteq raced', <1>8, <1>9, <1>10, <1>11, <1>12, <1>13, <1>14, OneRequestMoves

\* A transaction that has written row l goes on with its next item, or commits.
LEMMA NextItemInv ==
  ASSUME RepInv, NEW a \in Agents, NEW t \in RepTask, NEW l \in {"van", "shelf"}, NEW first,
         NextItem(a, t, l, first), CanLock(a, l),
         t.op \in {"load", "unload", "sell", "return"},
         first \in Steps(t.op) \ {"take", "store", "number"},
         t.op = task[a].op, t.sale = task[a].sale, t.items = task[a].items,
         task[a].at # "number",
         raced \subseteq raced', raced' \subseteq {"van", "shelf"} \cup Sales,
         VanPending(t, holder["van"] = a \/ l = "van", van, "van" \in raced'),
         ShelfPending(t, holder["shelf"] = a \/ l = "shelf", shelf, "shelf" \in raced')
  PROVE  RepInv'
<1>1. CASE Len(t.items) = 1
  <2> PICK atEnd : atEnd = [t EXCEPT !.at = l]
    OBVIOUS
  <2>1. /\ atEnd \in RepTask /\ atEnd.at = l /\ atEnd.op = t.op /\ atEnd.sale = t.sale
        /\ atEnd.van = t.van /\ atEnd.vanMoved = t.vanMoved
        /\ atEnd.shelf = t.shelf /\ atEnd.shelfMoved = t.shelfMoved
    <3>1. l \in RepPlaces
      <4>1. l \in {"van", "shelf"}
        OBVIOUS
      <4> QED
        BY ONLY <4>1 DEF RepPlaces
    <3>2. t \in RepTask
      OBVIOUS
    <3> QED
      BY ONLY <3>1, <3>2, atEnd = [t EXCEPT !.at = l] DEF RepTask, RepPlaces
  <2>2. Commits(a, atEnd)
    BY <1>1 DEF NextItem
  <2>3. /\ VanPending(atEnd, holder["van"] = a \/ atEnd.at = "van", van, "van" \in raced')
        /\ ShelfPending(atEnd, holder["shelf"] = a \/ atEnd.at = "shelf", shelf, "shelf" \in raced')
    BY <2>1 DEF VanPending, ShelfPending
  <2> QED
    BY <2>1, <2>2, <2>3, CommitsInv
<1>2. CASE Len(t.items) # 1
  <2> PICK rest, next : rest = Tail(t.items) /\ next = [t EXCEPT !.at = first, !.items = rest]
    OBVIOUS
  <2>1. rest \in Seq(Nat \ {0}) /\ rest # << >> /\ TaskOK(a)
    BY <1>2, RequestTypes
  <2>2. first \in RepPlaces
    BY DEF Steps, RepPlaces
  <2>3. /\ next \in RepTask /\ next.at = first /\ next.items = rest /\ next.op = t.op
        /\ next.sale = t.sale /\ next.van = t.van /\ next.vanMoved = t.vanMoved
        /\ next.shelf = t.shelf /\ next.shelfMoved = t.shelfMoved
    BY <2>1, <2>2 DEF RepTask, RepPlaces
  <2>4. /\ task' = [task EXCEPT ![a] = next] /\ InTransaction
        /\ holder' = [holder EXCEPT ![l] = a] /\ task'[a] = next
    BY <1>2 DEF NextItem, RepInv, RepTypes
  <2>5. /\ holder' \in [Locks -> Agents \cup {NoAgent}]
        /\ holder'[l] = a /\ \A m \in Locks \ {l} : holder'[m] = holder[m]
        /\ \A b \in Agents \ {a}, m \in Locks : holder'[m] = b <=> holder[m] = b
    BY <2>4, LockIsTaken DEF Locks
  <2>6. /\ VanPending(next, holder'["van"] = a, van, "van" \in raced')
        /\ ShelfPending(next, holder'["shelf"] = a, shelf, "shelf" \in raced')
    BY <2>3, <2>5 DEF VanPending, ShelfPending, Locks
  <2>7. holder'["numbers"] = holder["numbers"]
    BY <2>5 DEF Locks
  <2>8. holder'["numbers"] = a => next.op = "sell"
    BY <2>1, <2>3, <2>7 DEF TaskOK, Locks
  <2>9. next.op = "sell" =>
          holder'["numbers"] = a /\ next.sale \in Sales /\ sale[next.sale].status = "absent"
    BY <2>1, <2>3, <2>7 DEF TaskOK
  <2>10. /\ next.op \notin {"none", "collect"} /\ next.at \in Steps(next.op) /\ next.items # << >>
         /\ next.at \notin {"take", "store"}
    BY <2>1, <2>3
  <2>11. TaskOK(a)'
    BY ONLY <2>4, <2>6, <2>8, <2>9, <2>10, TaskGoesOn
  <2> QED
    BY <2>3, <2>4, <2>5, <2>11, TransactionStays
<1> QED
  BY <1>1, <1>2

\* ...and a request goes on with it: a transfer back to the shelf, the others to
\* their next item or to the end.
LEMMA StoreInVanInv ==
  ASSUME RepInv, NEW a \in Agents, StoreInVan(a)
  PROVE  RepInv'
<1> PICK t, n, change, stored, moved :
      /\ t = task[a] /\ n = Head(t.items)
      /\ change = IF t.op \in {"load", "return"} THEN n ELSE -n
      /\ stored = Stored(t.op, VanSeen(a), t.read, n) /\ moved = t.vanMoved + change
  OBVIOUS
<1> PICK new : new = [t EXCEPT !.van = stored, !.vanMoved = moved]
  OBVIOUS
<1>1. /\ t.at = "store" /\ CanLock(a, "van") /\ (t.read = NoRow => VanSeen(a) = NoRow)
      /\ raced' = IF t.op # "load" /\ (VanSeen(a) # t.read \/ (t.op = "sell" /\ t.read < n))
                  THEN raced \cup {"van"} ELSE raced
  BY DEF StoreInVan
<1>2. t.op \in {"load", "unload", "sell", "return"}
  <2>1. t \in RepTask /\ TaskOK(a)
    BY DEF RepInv, RepTypes
  <2> QED
    BY <1>1, <2>1 DEF TaskOK, Steps, RepTask, RepPlaces
<1>3. t \in RepTask /\ TaskOK(a)
  BY <1>2, RequestTypes
<1>4. raced \subseteq raced' /\ raced' \subseteq {"van", "shelf"} \cup Sales
  BY <1>1 DEF RepInv, RepTypes
<1>5. /\ new \in RepTask /\ new.op = t.op /\ new.at = t.at /\ new.items = t.items
      /\ new.sale = t.sale /\ new.shelf = t.shelf /\ new.shelfMoved = t.shelfMoved
      /\ VanPending(new, TRUE, van, "van" \in raced')
  <2>1. n \in Nat \ {0} /\ VanSeen(a) \in VanRow /\ t.vanMoved \in Int
    BY <1>2, <1>3, RequestTypes DEF RepTask
  <2>2. van # NoRow => VanSeen(a) # NoRow
    BY <1>2, RequestTypes
  <2>3. /\ t.read \in VanRow /\ (t.read # NoRow <=> VanSeen(a) # NoRow)
        /\ t.op = "unload" => t.read >= n
    BY <1>1, <1>3 DEF TaskOK
  <2>4. change \in Int /\ moved \in Int
    BY <2>1
  <2>5. /\ stored \in VanRow /\ (VanSeen(a) # NoRow => stored # NoRow)
        /\ t.op = "load" \/ (VanSeen(a) = t.read /\ ~(t.op = "sell" /\ t.read < n)) =>
             Value(stored) = Value(VanSeen(a)) + change
    <3> PICK op, seen, read : op = t.op /\ seen = VanSeen(a) /\ read = t.read
      OBVIOUS
    <3>1. /\ op \in {"load", "unload", "sell", "return"} /\ seen \in VanRow /\ read \in VanRow
          /\ read # NoRow <=> seen # NoRow
          /\ n \in Nat \ {0}
          /\ op = "unload" => read >= n
          /\ stored = Stored(op, seen, read, n)
          /\ change = IF op \in {"load", "return"} THEN n ELSE -n
      BY <1>2, <2>1, <2>3
    <3>2. /\ stored \in VanRow /\ (seen # NoRow => stored # NoRow)
          /\ op = "load" \/ (seen = read /\ ~(op = "sell" /\ read < n)) =>
               Value(stored) = Value(seen) + change
      <4>1. CASE op = "load"
        BY ONLY <3>1, <4>1 DEF Stored, VanRow, NoRow, Value
      <4>2. CASE op = "return"
        BY ONLY <3>1, <4>2 DEF Stored, VanRow, NoRow, Value
      <4>3. CASE op = "unload"
        BY ONLY <3>1, <4>3 DEF Stored, VanRow, NoRow, Value
      <4>4. CASE op = "sell"
        BY ONLY <3>1, <4>4 DEF Stored, VanRow, NoRow, Value
      <4> QED
        BY <3>1, <4>1, <4>2, <4>3, <4>4
    <3> QED
      BY <3>2
  <2>6. /\ new \in RepTask /\ new.op = t.op /\ new.at = t.at /\ new.items = t.items
        /\ new.sale = t.sale /\ new.shelf = t.shelf /\ new.shelfMoved = t.shelfMoved
        /\ new.van = stored /\ new.vanMoved = moved
    <3>1. stored \in Int
      BY <2>5 DEF VanRow, NoRow
    <3>2. t \in RepTask /\ moved \in Int /\ new = [t EXCEPT !.van = stored, !.vanMoved = moved]
      BY <1>3, <2>4
    <3> QED
      BY ONLY <3>1, <3>2 DEF RepTask
  <2>7. Value(van) \in Int
    BY DEF RepInv, RepTypes, Value, VanRow, NoRow
  <2>8. "van" \notin raced => Value(VanSeen(a)) = Value(van) + t.vanMoved
    BY <1>3, <2>1, <2>7 DEF VanSeen, TaskOK, VanPending
  <2>9. "van" \notin raced' => Value(stored) = Value(van) + moved
    <3>1. "van" \notin raced' =>
            t.op = "load" \/ (VanSeen(a) = t.read /\ ~(t.op = "sell" /\ t.read < n))
      BY <1>1
    <3>2. "van" \notin raced' => "van" \notin raced
      BY <1>4
    <3>3. Value(stored) = Value(VanSeen(a)) + change /\ Value(VanSeen(a)) = Value(van) + t.vanMoved
            => Value(stored) = Value(van) + moved
      BY <2>1, <2>4, <2>7
    <3> QED
      BY <2>5, <2>8, <3>1, <3>2, <3>3
  <2> QED
    BY <2>2, <2>5, <2>6, <2>9 DEF VanPending
<1>6. ShelfPending(new, holder["shelf"] = a, shelf, "shelf" \in raced')
  BY <1>1, <1>3, <1>5 DEF TaskOK, ShelfPending
<1>7. CASE t.op = "unload"
  <2> PICK next : next = [new EXCEPT !.at = "back"]
    OBVIOUS
  <2>1. /\ next \in RepTask /\ next.at = "back" /\ next.items = t.items /\ next.op = t.op
        /\ next.van = new.van /\ next.vanMoved = new.vanMoved
        /\ next.shelf = new.shelf /\ next.shelfMoved = new.shelfMoved
    <3>1. next = [new EXCEPT !.at = "back"]
      OBVIOUS
    <3> QED
      BY ONLY <1>5, <3>1 DEF RepTask, RepPlaces
  <2>2. /\ task' = [task EXCEPT ![a] = next] /\ InTransaction
        /\ holder' = [holder EXCEPT !["van"] = a] /\ task'[a] = next
    BY <1>7 DEF StoreInVan, RepInv, RepTypes
  <2>3. /\ holder' \in [Locks -> Agents \cup {NoAgent}]
        /\ holder'["van"] = a /\ holder'["shelf"] = holder["shelf"]
        /\ holder'["numbers"] = holder["numbers"]
        /\ \A b \in Agents \ {a}, l \in Locks : holder'[l] = b <=> holder[l] = b
    BY <1>1, <2>2, LockIsTaken DEF Locks
  <2>4. /\ VanPending(next, holder'["van"] = a, van, "van" \in raced')
        /\ ShelfPending(next, holder'["shelf"] = a, shelf, "shelf" \in raced')
    BY <1>5, <1>6, <2>1, <2>3 DEF VanPending, ShelfPending
  <2>5. holder'["numbers"] # a /\ next.items # << >>
    BY <1>3, <1>7, <2>1, <2>3 DEF TaskOK
  <2>6. next.at \in Steps(next.op)
    BY <1>7, <2>1 DEF Steps
  <2>7. next.at \notin {"take", "store"} /\ next.op \notin {"none", "sell", "collect"}
    BY <1>7, <2>1
  <2>8. TaskOK(a)'
    BY ONLY <2>2, <2>4, <2>5, <2>6, <2>7, TaskGoesOn
  <2> QED
    BY <1>4, <2>1, <2>2, <2>3, <2>8, TransactionStays
<1>8. CASE t.op # "unload"
  <2> PICK first : first = IF t.op = "load" THEN "check" ELSE "look"
    OBVIOUS
  <2>1. NextItem(a, new, "van", first)
    BY <1>8 DEF StoreInVan
  <2>2. first \in Steps(t.op) \ {"take", "store", "number"}
    BY <1>2, <1>8 DEF Steps
  <2>3. /\ VanPending(new, holder["van"] = a \/ "van" = "van", van, "van" \in raced')
        /\ ShelfPending(new, holder["shelf"] = a \/ "van" = "shelf", shelf, "shelf" \in raced')
    BY <1>5, <1>6 DEF VanPending, ShelfPending
  <2> QED
    BY <1>1, <1>2, <1>4, <1>5, <2>1, <2>2, <2>3, NextItemInv
<1> QED
  BY <1>7, <1>8

\* A transfer back puts its item on the shelf.
LEMMA PutOnShelfInv ==
  ASSUME RepInv, NEW a \in Agents, PutOnShelf(a)
  PROVE  RepInv'
<1> PICK t, n, left, moved, new :
      /\ t = task[a] /\ n = Head(t.items) /\ left = ShelfSeen(a) + n /\ moved = t.shelfMoved + n
      /\ new = [t EXCEPT !.shelf = left, !.shelfMoved = moved]
  OBVIOUS
<1>1. t.op = "unload" /\ t.at = "back" /\ CanLock(a, "shelf") /\ UNCHANGED raced
  BY DEF PutOnShelf, At
<1>2. t \in RepTask /\ TaskOK(a) /\ n \in Nat \ {0} /\ ShelfSeen(a) \in Int
  BY <1>1, RequestTypes
<1>3. left \in Int /\ moved \in Int /\ t.shelfMoved \in Int
  <2>1. t.shelfMoved \in Int
    BY <1>2 DEF RepTask, RepPlaces
  <2> QED
    BY <1>2, <2>1
<1>4. /\ new \in RepTask /\ new.op = t.op /\ new.at = t.at /\ new.items = t.items
      /\ new.sale = t.sale /\ new.van = t.van /\ new.vanMoved = t.vanMoved
      /\ new.shelf = left /\ new.shelfMoved = moved
  BY <1>2, <1>3 DEF RepTask, RepPlaces
<1>5. NextItem(a, new, "shelf", "look")
  <2>1. new = [t EXCEPT !.shelf = ShelfSeen(a) + n, !.shelfMoved = @ + n]
    BY <1>2 DEF RepTask, RepPlaces
  <2> QED
    BY <2>1 DEF PutOnShelf
<1>6. ShelfPending(new, holder["shelf"] = a \/ "shelf" = "shelf", shelf, "shelf" \in raced')
  <2>1. shelf \in Int /\ ("shelf" \notin raced => shelf >= 0)
    BY DEF RepInv, RepTypes, RepBooks
  <2>2. ShelfSeen(a) = shelf + t.shelfMoved /\ ("shelf" \notin raced => ShelfSeen(a) >= 0)
    BY <1>2, <2>1 DEF ShelfSeen, TaskOK, ShelfPending
  <2>3. new.shelf = shelf + new.shelfMoved /\ ("shelf" \notin raced' => new.shelf >= 0)
    BY <1>1, <1>2, <1>3, <1>4, <2>1, <2>2
  <2> QED
    BY <2>3 DEF ShelfPending
<1>7. VanPending(new, holder["van"] = a \/ "shelf" = "van", van, "van" \in raced')
  BY <1>1, <1>2, <1>4 DEF TaskOK, VanPending
<1>8. "look" \in Steps(new.op) \ {"take", "store", "number"}
  BY <1>1, <1>4 DEF Steps
<1>9. raced \subseteq raced' /\ raced' \subseteq {"van", "shelf"} \cup Sales
  BY <1>1 DEF RepInv, RepTypes
<1> QED
  BY <1>1, <1>4, <1>5, <1>6, <1>7, <1>8, <1>9, NextItemInv

\* A collection begins...
LEMMA CreateCollectionInv ==
  ASSUME RepInv, NEW a \in Agents, CreateCollection(a)
  PROVE  RepInv'
<1>1. PICK s \in Sales, items \in Baskets :
        /\ sale[s].status # "absent"
        /\ task' = [task EXCEPT ![a] = [NoTask EXCEPT !.op = "collect", !.at = "read",
                                                      !.items = items, !.sale = s]]
  BY DEF CreateCollection
<1> PICK t : t = [NoTask EXCEPT !.op = "collect", !.at = "read", !.items = items, !.sale = s]
  OBVIOUS
<1>2. items \in Seq(Nat \ {0}) /\ items # << >>
  BY BasketsAssumption
<1>3. t = [op |-> "collect", at |-> "read", items |-> items, sale |-> s, total |-> 0, read |-> 0,
           van |-> 0, vanMoved |-> 0, shelf |-> 0, shelfMoved |-> 0]
  BY DEF NoTask
<1>4. t \in RepTask
  <2>1. s \in Sales \cup {NoSale}
    OBVIOUS
  <2> QED
    BY ONLY <1>2, <1>3, <2>1 DEF RepTask, RepPlaces
<1>5. /\ t.op = "collect" /\ t.at = "read" /\ t.items = items /\ t.sale = s
      /\ t.vanMoved = 0 /\ t.shelfMoved = 0
  BY ONLY <1>3
<1>6. task[a].op = "none" /\ TaskOK(a)
  <2>1. task[a] = NoTask /\ NoTask.op = "none"
    BY DEF CreateCollection, NoTask
  <2> QED
    BY <2>1 DEF RepInv
<1>7. /\ task' = [task EXCEPT ![a] = t] /\ UNCHANGED <<holder, raced>> /\ InTransaction
      /\ task'[a] = t
  BY <1>1 DEF CreateCollection, InTransaction, RepInv, RepTypes
<1>8. \A l \in Locks : holder'[l] # a
  BY <1>6, <1>7 DEF TaskOK
<1>9. /\ VanPending(t, holder'["van"] = a, van, "van" \in raced')
      /\ ShelfPending(t, holder'["shelf"] = a, shelf, "shelf" \in raced')
  BY <1>5, <1>8 DEF VanPending, ShelfPending, Locks
<1>10. t.at \in Steps(t.op) /\ t.items # << >> /\ holder'["numbers"] # a
  BY <1>2, <1>5, <1>8 DEF Steps, Locks
<1>11. TaskOK(a)'
  <2>1. task'[a] = t /\ InTransaction
    BY <1>7
  <2>2. t.op = "collect" /\ t.at = "read"
    BY <1>5
  <2>3. t.sale \in Sales /\ sale[t.sale].status # "absent"
    BY <1>1, <1>5
  <2> QED
    BY ONLY <1>8, <1>9, <1>10, <2>1, <2>2, <2>3, TaskGoesOn DEF Locks
<1>12. /\ holder' \in [Locks -> Agents \cup {NoAgent}]
       /\ raced' \subseteq {"van", "shelf"} \cup Sales /\ raced \subseteq raced'
       /\ \A b \in Agents \ {a}, l \in Locks : holder'[l] = b <=> holder[l] = b
  BY <1>7 DEF RepInv, RepTypes
<1> QED
  BY <1>4, <1>7, <1>11, <1>12, TransactionStays

\* ...reads what its sale shows as paid...
LEMMA ReadSaleInv ==
  ASSUME RepInv, NEW a \in Agents, ReadSale(a)
  PROVE  RepInv'
<1> PICK t, paid, new :
      t = task[a] /\ paid = sale[t.sale].paid /\ new = [t EXCEPT !.at = "write", !.read = paid]
  OBVIOUS
<1>1. t.op = "collect" /\ t.at = "read"
  BY DEF ReadSale, At
<1>2. t \in RepTask /\ TaskOK(a)
  BY <1>1, RequestTypes
<1>3. t.sale \in Sales /\ sale[t.sale].status # "absent" /\ \A l \in Locks : holder[l] # a
  BY <1>1, <1>2 DEF TaskOK
<1>4. paid \in Nat /\ paid \in Int
  BY <1>3 DEF RepInv, RepTypes
<1>5. /\ new \in RepTask /\ new.op = "collect" /\ new.at = "write" /\ new.items = t.items
      /\ new.read = paid /\ new.sale = t.sale
      /\ new.vanMoved = t.vanMoved /\ new.shelfMoved = t.shelfMoved
  BY <1>1, <1>2, <1>4 DEF RepTask, RepPlaces
<1>6. /\ task' = [task EXCEPT ![a] = new] /\ UNCHANGED <<holder, raced>> /\ InTransaction
      /\ task'[a] = new
  BY DEF ReadSale, RepInv, RepTypes
<1>7. /\ VanPending(new, holder'["van"] = a, van, "van" \in raced')
      /\ ShelfPending(new, holder'["shelf"] = a, shelf, "shelf" \in raced')
  BY <1>2, <1>3, <1>5, <1>6 DEF TaskOK, VanPending, ShelfPending, Locks
<1>8. new.at \in Steps(new.op)
  BY <1>5 DEF Steps
<1>9. new.items # << >> /\ holder'["numbers"] # a /\ \A l \in Locks : holder'[l] # a
  BY <1>1, <1>2, <1>3, <1>5, <1>6 DEF TaskOK, Locks
<1>10. TaskOK(a)'
  <2>1. task'[a] = new /\ InTransaction
    BY <1>6
  <2>2. new.op = "collect" /\ new.at = "write" /\ new.read \in Nat
    BY <1>4, <1>5
  <2>3. new.sale \in Sales /\ sale[new.sale].status # "absent"
    BY <1>3, <1>5
  <2> QED
    BY ONLY <1>7, <1>8, <1>9, <2>1, <2>2, <2>3, TaskGoesOn DEF Locks
<1>11. /\ holder' \in [Locks -> Agents \cup {NoAgent}]
       /\ raced' \subseteq {"van", "shelf"} \cup Sales /\ raced \subseteq raced'
       /\ \A b \in Agents \ {a}, l \in Locks : holder'[l] = b <=> holder[l] = b
  BY <1>6 DEF RepInv, RepTypes
<1> QED
  BY <1>5, <1>6, <1>10, <1>11, TransactionStays

\* ...and writes the sum, over what was collected meanwhile.
LEMMA WriteSaleInv ==
  ASSUME RepInv, NEW a \in Agents, WriteSale(a)
  PROVE  RepInv'
<1> PICK t, s, amount, paid, status, row :
      /\ t = task[a] /\ s = t.sale /\ amount = Head(t.items) /\ paid = t.read + amount
      /\ status = IF paid >= sale[s].total THEN "PAID" ELSE "PARTIAL"
      /\ row = [sale[s] EXCEPT !.paid = paid, !.status = status]
  OBVIOUS
<1>1. t.op = "collect" /\ t.at = "write"
  BY DEF WriteSale, At
<1>2. t \in RepTask /\ TaskOK(a) /\ amount \in Nat \ {0}
  BY <1>1, RequestTypes
<1>3. /\ s \in Sales /\ sale[s].status # "absent" /\ t.read \in Nat
      /\ \A l \in Locks : holder[l] # a
  BY <1>1, <1>2 DEF TaskOK
<1>4. paid \in Nat /\ sale[s] \in [status : SaleStatuses, total : Nat, paid : Nat]
      /\ collected[s] \in Nat
  BY <1>2, <1>3 DEF RepInv, RepTypes
<1>5. /\ row \in [status : SaleStatuses, total : Nat, paid : Nat]
      /\ row.paid = paid /\ row.status = status /\ row.total = sale[s].total
  BY <1>4 DEF SaleStatuses
<1>6. /\ sale' = [sale EXCEPT ![s] = row] /\ collected' = [collected EXCEPT ![s] = @ + amount]
      /\ task' = [task EXCEPT ![a] = NoTask]
      /\ raced' = IF sale[s].paid # t.read THEN raced \cup {s} ELSE raced
      /\ UNCHANGED <<van, vanMoves, shelf, shelfMoves, holder>>
  <2>1. sale' = [sale EXCEPT ![s].paid = paid, ![s].status = status]
    BY DEF WriteSale
  <2>2. sale' = [sale EXCEPT ![s] = row]
    BY <1>3, <2>1 DEF RepInv, RepTypes
  <2> QED
    BY <2>2 DEF WriteSale
<1>7. /\ sale'[s] = row /\ collected'[s] = collected[s] + amount
      /\ \A x \in Sales \ {s} : sale'[x] = sale[x] /\ collected'[x] = collected[x]
      /\ sale' \in [Sales -> [status : SaleStatuses, total : Nat, paid : Nat]]
      /\ collected' \in [Sales -> Nat]
  <2>1. collected[s] + amount \in Nat
    BY <1>2, <1>4
  <2>2. /\ sale \in [Sales -> [status : SaleStatuses, total : Nat, paid : Nat]]
        /\ collected \in [Sales -> Nat]
    BY DEF RepInv, RepTypes
  <2> QED
    BY ONLY <1>3, <1>5, <1>6, <2>1, <2>2
<1>8. raced \subseteq raced' /\ raced' \subseteq {"van", "shelf"} \cup Sales
  BY <1>3, <1>6 DEF RepInv, RepTypes
<1>9. RepTypes'
  BY <1>6, <1>7, <1>8, NoTaskIsTask DEF RepInv, RepTypes
<1>10. RepBooks'
  <2>1. ASSUME NEW x \in Sales
        PROVE  /\ sale'[x].status = "absent" => sale'[x].paid = 0 /\ collected'[x] = 0
               /\ x \notin raced' => sale'[x].paid = collected'[x]
               /\ sale'[x].status = "PAID" => sale'[x].paid >= sale'[x].total
    <3>1. CASE x = s
      <4>1. s \notin raced' => t.read = collected[s]
        BY <1>3, <1>6, <1>8 DEF RepInv, RepBooks
      <4>2. status \in {"PAID", "PARTIAL"} /\ (status = "PAID" => paid >= sale[s].total)
        OBVIOUS
      <4>3. sale'[x].status = status /\ sale'[x].paid = paid /\ sale'[x].total = sale[s].total
        BY <1>5, <1>7, <3>1
      <4>4. t.read = collected[s] => paid = collected'[x]
        BY <1>7, <3>1
      <4> QED
        BY <3>1, <4>1, <4>2, <4>3, <4>4
    <3>2. CASE x # s
      BY <1>7, <1>8, <3>2 DEF RepInv, RepBooks
    <3> QED
      BY <3>1, <3>2
  <2> QED
    BY <1>6, <1>8, <2>1 DEF RepInv, RepBooks
<1>11. TaskOK(a)'
  <2>1. task'[a] = NoTask /\ \A l \in Locks : holder'[l] # a
    BY <1>3, <1>6 DEF RepInv, RepTypes
  <2> QED
    BY <2>1, TaskEnds
<1>12. /\ \A b \in Agents \ {a} : task'[b] = task[b]
       /\ \A b \in Agents \ {a}, l \in Locks : holder'[l] = b <=> holder[l] = b
       /\ van' = van /\ shelf' = shelf
  BY <1>6 DEF RepInv, RepTypes
<1>13. \A x \in Sales : sale'[x].status = "absent" <=> sale[x].status = "absent"
  BY <1>3, <1>5, <1>7
<1> QED
  BY ONLY RepInv, a \in Agents, <1>8, <1>9, <1>10, <1>11, <1>12, <1>13, OneRequestMoves

\* A request that fails leaves nothing of what it has written.
LEMMA FailRepInv ==
  ASSUME RepInv, NEW a \in Agents, FailRep(a)
  PROVE  RepInv'
<1>1. task' = [task EXCEPT ![a] = NoTask] /\ holder' = Unlocked(a) /\ UNCHANGED raced /\ InTransaction
  BY DEF FailRep
<1>2. /\ holder' \in [Locks -> Agents \cup {NoAgent}]
      /\ \A l \in Locks : holder'[l] # a
      /\ \A b \in Agents \ {a}, l \in Locks : holder'[l] = b <=> holder[l] = b
  BY <1>1, LocksAreReleased
<1>3. TaskOK(a)'
  <2>1. task'[a] = NoTask
    BY <1>1 DEF RepInv, RepTypes
  <2> QED
    BY <1>2, <2>1, TaskEnds
<1>4. raced \subseteq raced' /\ raced' \subseteq {"van", "shelf"} \cup Sales
  BY <1>1 DEF RepInv, RepTypes
<1> QED
  BY <1>1, <1>2, <1>3, <1>4, NoTaskIsTask, TransactionStays

\* Every step keeps the invariant.
LEMMA RepNextInv ==
  ASSUME RepInv, [RepNext]_repVars
  PROVE  RepInv'
<1>1. CASE UNCHANGED repVars
  BY <1>1 DEF repVars, RepInv, RepTypes, RepBooks, TaskOK, VanSeen
<1>2. ASSUME NEW a \in Agents, StartRep(a) PROVE RepInv'
  <2>1. CASE TransferStockToRep(a)
    BY <2>1, AsksInv DEF TransferStockToRep, Steps
  <2>2. CASE TransferStockFromRep(a)
    BY <2>2, AsksInv DEF TransferStockFromRep, Steps
  <2>3. CASE CreateSale(a)
    BY <2>3, AsksInv DEF CreateSale, Steps
  <2>4. CASE CreateReturn(a)
    BY <2>4, AsksInv DEF CreateReturn, Steps
  <2>5. CASE CreateCollection(a)
    BY <2>5, CreateCollectionInv
  <2> QED
    BY <1>2, <2>1, <2>2, <2>3, <2>4, <2>5 DEF StartRep
<1>3. ASSUME NEW a \in Agents, ContinueRep(a) PROVE RepInv'
  BY <1>3, CheckShelfInv, TakeFromShelfInv, TakeNumberInv, LookAtVanInv, StoreInVanInv,
     PutOnShelfInv, ReadSaleInv, WriteSaleInv, FailRepInv DEF ContinueRep
<1> QED
  BY <1>1, <1>2, <1>3 DEF RepNext

\* The inductive invariant holds of every behaviour.
THEOREM RepInvariant == RepSpec => []RepInv
<1>1. RepInv /\ [RepNext]_repVars => RepInv'
  BY RepNextInv
<1> QED
  BY RepInitInv, <1>1, PTL DEF RepSpec

\* The goods in the van and on the shelf are those their movements account for, and
\* a sale shows what was collected for it.
THEOREM VanAndSalesAreTraced == RepSpec => []GoodsAndCashAreTraced
<1>1. RepInv => GoodsAndCashAreTraced
  BY DEF RepInv, RepBooks, GoodsAndCashAreTraced, Value
<1> QED
  BY <1>1, RepInvariant, PTL

-----------------------------------------------------------------------------
(* Synchronisation *)

\* A version of row r at the source of phase k that the target does not have yet.
Pending(k, r) == table[Source(k)][r] > table[Target(k)][r]

\* Rows whose versions nothing keeps from being copied.
Followed == Rows \ (deleted \cup lapsed \cup misstamped)

\* A version that was there when the tick began, of those it has to copy.
DueNow(k, r) == Pending(k, r) /\ (calm \/ table[Source(k)][r] < tick.begun - Delay)

Times ==
  /\ \A s \in Sites, r \in Rows : table[s][r] <= last[r]
  /\ \A r \in Rows : last[r] <= clock
  /\ \A k \in DOMAIN Following : checkpoint[k] <= clock
  /\ \A s \in Sites : \A d \in tombstones[s] : d.at <= clock /\ d.row \in deleted
  /\ tick.phase # "idle" => tick.begun <= clock /\ clock <= tick.begun + Longest

\* The page holds versions the source has, or had before a user wrote a newer
\* one during the tick; upsertRow has seen what the target has, or less.
PageInv ==
  /\ tick.page # << >> => tick.phase \in {"push", "pull"}
  /\ \A i \in DOMAIN tick.page :
       LET v == tick.page[i]
           at == table[Source(tick.phase)][v.row]
       IN  /\ 0 < v.at /\ v.at <= last[v.row]
           /\ v.row \notin deleted \cup misstamped =>
                v.at <= at /\ (v.at = at \/ (~calm /\ at >= tick.begun - Delay))
  /\ tick.looked =>
       /\ tick.page # << >>
       /\ LET r == Head(tick.page).row
              at == table[Target(tick.phase)][r]
          IN  r \notin deleted \cup misstamped => tick.seen <= at /\ (tick.seen = 0 => at = 0)

\* What is pending is in the window of the next tick.
PendingInv ==
  \A k \in {"push", "pull"}, r \in Followed : Pending(k, r) => table[Source(k)][r] > Since(k)

\* What the tick has to copy is on its page, or on one that it has not read yet.
TickInv ==
  tick.phase \in {"push", "pull"} =>
    \A r \in Followed : DueNow(tick.phase, r) =>
      LET at == table[Source(tick.phase)][r]
      IN  IF tick.page = << >> THEN at > tick.cursor
          ELSE \/ \E i \in DOMAIN tick.page : tick.page[i] = [row |-> r, at |-> at]
               \/ tick.full /\ at > tick.page[Len(tick.page)].at

\* The phases that nobody disturbed have copied everything.
CalmInv ==
  calm => \A r \in Followed :
    /\ tick.phase # "push" => ~Pending("push", r)
    /\ tick.phase \notin {"push", "pull"} => ~Pending("pull", r)

SyncInv ==
  /\ SyncTypeOK
  /\ Times
  /\ PageInv
  /\ PendingInv
  /\ TickInv
  /\ CalmInv
  /\ NewestVersionSurvives

\* The two sites of a phase.
LEMMA SourceAndTarget ==
  /\ \A k : Source(k) \in Sites /\ Target(k) \in Sites /\ Source(k) # Target(k)
  /\ Source("push") = Target("pull") /\ Source("pull") = Target("push")
  /\ Following["push"] = "pull" /\ Following["pull"] = "delpush"
  /\ Following["delpush"] = "delpull" /\ Following["delpull"] = "idle"
  /\ DOMAIN Following = {"push", "pull", "delpush", "delpull"}
BY DEF Source, Target, Sites, Following

\* One row of a table is written.
LEMMA RowWritten ==
  ASSUME NEW t \in [Sites -> [Rows -> Nat]], NEW s \in Sites, NEW r \in Rows, NEW at \in Nat,
         NEW new, new = [t EXCEPT ![s][r] = at]
  PROVE  /\ new \in [Sites -> [Rows -> Nat]] /\ new[s][r] = at
         /\ \A z \in Sites, q \in Rows : (z # s \/ q # r) => new[z][q] = t[z][q]
<1> PICK row : row = [t[s] EXCEPT ![r] = at]
  OBVIOUS
<1>1. t[s] \in [Rows -> Nat]
  OBVIOUS
<1>2. row \in [Rows -> Nat] /\ row[r] = at /\ \A q \in Rows \ {r} : row[q] = t[s][q]
  BY <1>1
<1>3. new = [t EXCEPT ![s] = row]
  OBVIOUS
<1>4. new[s] = row /\ (\A z \in Sites \ {s} : new[z] = t[z]) /\ new \in [Sites -> [Rows -> Nat]]
  BY <1>2, <1>3
<1> QED
  BY <1>2, <1>4

\* The types of the tick's fields.
LEMMA TickTypes ==
  ASSUME SyncTypeOK
  PROVE  /\ tick.phase \in {"idle", "push", "pull", "delpush", "delpull"}
         /\ tick.begun \in Nat /\ tick.cursor \in Int /\ tick.page \in Seq(Version)
         /\ tick.full \in BOOLEAN /\ tick.looked \in BOOLEAN /\ tick.seen \in Nat
         /\ \A k \in {"push", "pull", "delpush", "delpull"} : checkpoint[k] \in Nat
         /\ \A s \in Sites, r \in Rows : table[s][r] \in Nat
         /\ \A r \in Rows : last[r] \in Nat
         /\ clock \in Nat /\ {Overlap, Delay, Longest} \subseteq Nat
BY SourceAndTarget, OverlapAssumption DEF SyncTypeOK, Tick

\* The entries of a page.
LEMMA PageEntries ==
  ASSUME SyncTypeOK
  PROVE  /\ DOMAIN tick.page = 1..Len(tick.page) /\ Len(tick.page) \in Nat
         /\ \A i \in DOMAIN tick.page : /\ tick.page[i] \in Version
                                       /\ tick.page[i].row \in Rows /\ tick.page[i].at \in Nat
         /\ tick.page # << >> => /\ 1 \in DOMAIN tick.page /\ Len(tick.page) \in DOMAIN tick.page
                                 /\ Head(tick.page) = tick.page[1]
<1> PICK page : page = tick.page
  OBVIOUS
<1>1. page \in Seq(Version)
  BY TickTypes
<1>2. /\ DOMAIN page = 1..Len(page) /\ Len(page) \in Nat
      /\ \A i \in DOMAIN page : page[i] \in Version
      /\ page # << >> => 1 \in DOMAIN page /\ Len(page) \in DOMAIN page /\ Head(page) = page[1]
  BY ONLY <1>1
<1> QED
  BY <1>2 DEF Version

\* A tick enters a phase with an empty page.
LEMMA PhaseEntered ==
  ASSUME SyncTypeOK, NEW phase \in {"idle", "push", "pull", "delpush", "delpull"},
         NEW begun \in Nat, Enter(phase, begun)
  PROVE  /\ tick' \in Tick /\ tick'.phase = phase /\ tick'.page = << >> /\ tick'.looked = FALSE
         /\ phase # "idle" => tick'.begun = begun /\ tick'.cursor = Since(phase)
<1>1. /\ NoTick.phase = "idle" /\ NoTick.page = << >> /\ NoTick.looked = FALSE
      /\ NoTick.full = FALSE /\ NoTick.seen = 0 /\ NoTick.begun = 0 /\ NoTick.cursor = 0
  BY DEF NoTick
<1>2. << >> \in Seq(Version) /\ FALSE \in BOOLEAN /\ 0 \in Nat /\ 0 \in Int
  OBVIOUS
<1>3. NoTick \in Tick
  BY <1>2 DEF NoTick, Tick
<1>4. CASE phase = "idle"
  BY <1>1, <1>3, <1>4 DEF Enter
<1>5. CASE phase # "idle"
  <2> PICK cursor : cursor = Since(phase)
    OBVIOUS
  <2>1. cursor \in Int
    BY <1>5, TickTypes DEF Since
  <2>2. tick' = [NoTick EXCEPT !.phase = phase, !.begun = begun, !.cursor = cursor]
    BY <1>5 DEF Enter
  <2>3. tick' = [phase |-> phase, begun |-> begun, cursor |-> cursor, page |-> << >>, full |-> FALSE,
                 looked |-> FALSE, seen |-> 0]
    BY <2>2 DEF NoTick
  <2>4. tick' \in Tick
    BY ONLY <1>2, <2>1, <2>3, phase \in {"idle", "push", "pull", "delpush", "delpull"}, begun \in Nat
       DEF Tick
  <2> QED
    BY <2>3, <2>4
<1> QED
  BY <1>4, <1>5

\* A phase that begins has to copy what is pending.
LEMMA PhaseBegins ==
  ASSUME PendingInv', tick'.page = << >>, NEW k, tick'.phase = k,
         k \in {"push", "pull"} => tick'.cursor = Since(k)'
  PROVE  TickInv'
BY DEF PendingInv, TickInv, DueNow

\* Before anything is written both sites have nothing.
LEMMA SyncInitInv == SyncInit => SyncInv
<1> SUFFICES ASSUME SyncInit PROVE SyncInv
  OBVIOUS
<1>1. << >> \in Seq(Version) /\ FALSE \in BOOLEAN /\ 0 \in Nat /\ 0 \in Int /\ 1 \in Nat
  OBVIOUS
<1>2. NoTick \in Tick /\ NoTick.phase = "idle" /\ NoTick.page = << >> /\ ~NoTick.looked
  BY <1>1 DEF NoTick, Tick
<1>3. SyncTypeOK
  BY <1>1, <1>2, SourceAndTarget DEF SyncInit, SyncTypeOK
<1>4. \A s \in Sites, r \in Rows : table[s][r] = 0 /\ last[r] = 0
  BY DEF SyncInit
<1>5. Times
  BY <1>2, <1>4, SourceAndTarget DEF SyncInit, Times
<1>6. PageInv
  BY <1>2 DEF SyncInit, PageInv
<1>7. PendingInv
  BY <1>4, SourceAndTarget DEF PendingInv, Pending, Followed
<1>8. TickInv /\ CalmInv
  BY <1>2 DEF SyncInit, TickInv, CalmInv
<1>9. NewestVersionSurvives
  BY <1>4 DEF NewestVersionSurvives, Sites
<1> QED
  BY <1>3, <1>5, <1>6, <1>7, <1>8, <1>9 DEF SyncInv

\* The clock goes on, in a tick no longer than it lasts.
LEMMA PassInv ==
  ASSUME SyncInv, Pass
  PROVE  SyncInv'
<1>1. /\ UNCHANGED <<table, tombstones, checkpoint, tick, last, deleted, clobbered, misstamped, lapsed, calm>>
      /\ clock' = clock + 1 /\ (tick.phase = "idle" \/ clock < tick.begun + Longest)
  BY DEF Pass
<1>2. SyncTypeOK'
  BY <1>1 DEF SyncInv, SyncTypeOK
<1>3. Times'
  <2>1. /\ \A r \in Rows : last[r] <= clock /\ last[r] \in Nat
        /\ \A k \in DOMAIN Following : checkpoint[k] <= clock /\ checkpoint[k] \in Nat
        /\ \A s \in Sites : \A d \in tombstones[s] : d.at <= clock /\ d.at \in Nat /\ d.row \in deleted
        /\ clock \in Nat /\ tick.begun \in Nat /\ Longest \in Nat
    BY TickTypes, SourceAndTarget DEF SyncInv, Times, SyncTypeOK, Version
  <2>2. \A r \in Rows : last'[r] <= clock'
    BY <1>1, <2>1
  <2>3. \A k \in DOMAIN Following : checkpoint'[k] <= clock'
    BY <1>1, <2>1
  <2>4. \A s \in Sites : \A d \in tombstones'[s] : d.at <= clock' /\ d.row \in deleted'
    BY <1>1, <2>1
  <2>5. tick'.phase # "idle" => tick'.begun <= clock' /\ clock' <= tick'.begun + Longest
    BY <1>1, <2>1 DEF SyncInv, Times
  <2> QED
    BY <1>1, <2>2, <2>3, <2>4, <2>5 DEF SyncInv, Times
<1>4. PageInv'
  BY <1>1 DEF SyncInv, PageInv
<1>5. PendingInv' /\ TickInv' /\ CalmInv' /\ NewestVersionSurvives'
  BY <1>1 DEF SyncInv, PendingInv, TickInv, CalmInv, NewestVersionSurvives, DueNow, Pending, Followed, Since
<1> QED
  BY <1>2, <1>3, <1>4, <1>5 DEF SyncInv

\* A tick begins with what is pending.
LEMMA BeginTickInv ==
  ASSUME SyncInv, BeginTick
  PROVE  SyncInv'
<1>1. /\ tick.phase = "idle" /\ Enter("push", clock) /\ calm' = TRUE
      /\ UNCHANGED <<table, tombstones, checkpoint, last, deleted, clobbered, misstamped, lapsed, clock>>
  BY DEF BeginTick
<1>2. SyncTypeOK /\ clock \in Nat /\ Longest \in Nat
  BY TickTypes DEF SyncInv
<1>3. /\ tick' \in Tick /\ tick'.phase = "push" /\ tick'.page = << >> /\ tick'.looked = FALSE
      /\ tick'.begun = clock /\ tick'.cursor = Since("push")
  BY <1>1, <1>2, PhaseEntered
<1>4. SyncTypeOK'
  BY <1>1, <1>2, <1>3 DEF SyncTypeOK
<1>5. Times' /\ NewestVersionSurvives'
  BY <1>1, <1>2, <1>3 DEF SyncInv, Times, NewestVersionSurvives
<1>6. PageInv' /\ CalmInv'
  BY <1>3 DEF PageInv, CalmInv
<1>7. PendingInv'
  BY <1>1 DEF SyncInv, PendingInv, Pending, Followed, Since
<1>8. TickInv'
  BY <1>1, <1>3, <1>7, PhaseBegins DEF Since
<1> QED
  BY <1>4, <1>5, <1>6, <1>7, <1>8 DEF SyncInv

\* A user writes a row: its version is later than the window of the next tick
\* begins, and than the tick in progress began.
LEMMA WriteInv ==
  ASSUME SyncInv, NEW s \in Sites, NEW r \in Rows, Write(s, r)
  PROVE  SyncInv'
<1> PICK at \in (clock - Delay)..clock :
      /\ at > 0
      /\ table' = [table EXCEPT ![s][r] = at]
      /\ last' = [last EXCEPT ![r] = IF at > @ THEN at ELSE @]
      /\ misstamped' = IF at < table[s][r] \/ (\E z \in Sites : at = table[z][r])
                       THEN misstamped \cup {r} ELSE misstamped
  BY DEF Write
<1>1. /\ last[r] = 0 \/ table[s][r] # 0
      /\ lapsed' = lapsed \ {r} /\ calm' = FALSE
      /\ UNCHANGED <<tombstones, checkpoint, tick, deleted, clobbered, clock>>
  BY DEF Write
<1>2. /\ \A z \in Sites, q \in Rows : table[z][q] \in Nat /\ table[z][q] <= last[q]
      /\ \A q \in Rows : last[q] \in Nat /\ last[q] <= clock
      /\ \A k \in {"push", "pull"} : checkpoint[k] \in Nat /\ checkpoint[k] <= clock
      /\ clock \in Nat /\ Overlap \in Nat /\ Delay \in Nat /\ Longest \in Nat
      /\ Delay + Longest < Overlap /\ tick.begun \in Nat
      /\ tick.phase # "idle" => tick.begun <= clock
  BY TickTypes, SourceAndTarget, OverlapAssumption DEF SyncInv, Times
<1>3. at \in Nat /\ at <= clock /\ at >= clock - Delay
  BY <1>2
<1>0. /\ misstamped \subseteq misstamped' /\ misstamped' \subseteq misstamped \cup {r}
      /\ r \notin misstamped' => at > table[s][r]
  <2>1. r \notin misstamped' => ~(at < table[s][r]) /\ at # table[s][r]
    OBVIOUS
  <2> QED
    BY <1>2, <1>3, <2>1
<1>4. /\ table' \in [Sites -> [Rows -> Nat]] /\ table'[s][r] = at
      /\ \A z \in Sites, q \in Rows : (z # s \/ q # r) => table'[z][q] = table[z][q]
  <2>1. table \in [Sites -> [Rows -> Nat]]
    BY DEF SyncInv, SyncTypeOK
  <2> QED
    BY <1>3, <2>1, RowWritten
<1>5. /\ last' \in [Rows -> Nat] /\ last'[r] >= at /\ last'[r] >= last[r] /\ last'[r] \in {at, last[r]}
      /\ \A q \in Rows \ {r} : last'[q] = last[q]
  <2> PICK n : n = IF at > last[r] THEN at ELSE last[r]
    OBVIOUS
  <2>1. n \in Nat /\ n >= at /\ n >= last[r] /\ n \in {at, last[r]}
    BY <1>2, <1>3
  <2>2. last \in [Rows -> Nat] /\ last' = [last EXCEPT ![r] = n]
    BY DEF SyncInv, SyncTypeOK
  <2> QED
    BY <2>1, <2>2
<1>6. SyncTypeOK'
  BY <1>0, <1>1, <1>4, <1>5 DEF SyncInv, SyncTypeOK
<1>7. Times'
  <2>1. \A q \in Rows : last'[q] <= clock /\ \A z \in Sites : table'[z][q] <= last'[q]
    <3> TAKE q \in Rows
    <3>1. CASE q = r
      <4>1. last'[r] <= clock
        BY <1>2, <1>3, <1>5
      <4>2. ASSUME NEW z \in Sites PROVE table'[z][r] <= last'[r]
        <5>1. CASE z = s
          BY <1>3, <1>4, <1>5, <5>1
        <5>2. CASE z # s
          <6>1. table'[z][r] = table[z][r] /\ table[z][r] <= last[r] /\ table[z][r] \in Nat
            BY <1>2, <1>4, <5>2
          <6>2. last'[r] \in Nat /\ last[r] \in Nat /\ last'[r] >= last[r]
            BY <1>2, <1>5
          <6> QED
            BY ONLY <6>1, <6>2
        <5> QED
          BY <5>1, <5>2
      <4> QED
        BY <3>1, <4>1, <4>2
    <3>2. CASE q # r
      BY <1>2, <1>4, <1>5, <3>2
    <3> QED
      BY <3>1, <3>2
  <2> QED
    BY <1>1, <2>1 DEF SyncInv, Times
<1>8. PageInv'
  <2>1. ASSUME NEW i \in DOMAIN tick.page, NEW v, v = tick.page[i], v.row \notin deleted \cup misstamped',
               NEW w, w = table[Source(tick.phase)][v.row],
               NEW new, new = table'[Source(tick.phase)][v.row]
        PROVE  v.at <= new /\ (v.at = new \/ new >= tick.begun - Delay)
    <3>1. v.row \in Rows /\ v.at \in Nat /\ Source(tick.phase) \in Sites
      BY <2>1, PageEntries, SourceAndTarget DEF SyncInv
    <3>2. v.at <= w /\ (v.at = w \/ w >= tick.begun - Delay)
      BY <1>0, <2>1 DEF SyncInv, PageInv
    <3>3. CASE Source(tick.phase) = s /\ v.row = r
      <4>1. new = at /\ w = table[s][r] /\ w \in Nat /\ at >= w
        BY <1>0, <1>2, <1>4, <2>1, <3>1, <3>3
      <4>2. tick.begun <= clock
        BY <1>2, <2>1 DEF SyncInv, PageInv
      <4>3. at >= tick.begun - Delay
        BY <1>2, <1>3, <4>2
      <4> QED
        BY <1>3, <3>1, <3>2, <4>1, <4>3
    <3>4. CASE ~(Source(tick.phase) = s /\ v.row = r)
      <4>1. new = w
        BY <1>4, <2>1, <3>1, <3>4
      <4> QED
        BY <3>2, <4>1
    <3> QED
      BY <3>3, <3>4
  <2>2. ASSUME tick.looked, NEW q, q = Head(tick.page).row, q \notin deleted \cup misstamped',
               NEW w, w = table[Target(tick.phase)][q],
               NEW new, new = table'[Target(tick.phase)][q]
        PROVE  tick.seen <= new /\ (tick.seen = 0 => new = 0)
    <3>1. tick.page # << >> /\ tick.seen <= w /\ (tick.seen = 0 => w = 0)
      BY <1>0, <2>2 DEF SyncInv, PageInv
    <3>2. /\ q \in Rows /\ q = tick.page[1].row /\ 1 \in DOMAIN tick.page /\ tick.page[1].at \in Nat
          /\ Target(tick.phase) \in Sites /\ tick.seen \in Nat
      BY <2>2, <3>1, PageEntries, TickTypes, SourceAndTarget DEF SyncInv
    <3>3. CASE Target(tick.phase) = s /\ q = r
      <4>1. new = at /\ w = table[s][r] /\ w \in Nat /\ at > w
        BY <1>0, <1>2, <1>4, <2>2, <3>2, <3>3
      <4>2. last[r] > 0
        <5> PICK first, there : first = tick.page[1].at /\ there = table[Source(tick.phase)][r]
          OBVIOUS
        <5>1. first > 0 /\ first <= there /\ first \in Nat
          BY <1>0, <2>2, <3>2, <3>3 DEF SyncInv, PageInv
        <5>2. there \in Nat /\ there <= last[r] /\ last[r] \in Nat
          BY <1>2, SourceAndTarget
        <5> QED
          BY ONLY <5>1, <5>2
      <4>3. table[s][r] # 0
        BY <1>1, <4>2
      <4> QED
        BY <1>3, <3>1, <3>2, <4>1, <4>3
    <3>4. CASE ~(Target(tick.phase) = s /\ q = r)
      <4>1. new = w
        BY <1>4, <2>2, <3>2, <3>4
      <4> QED
        BY <3>1, <4>1
    <3> QED
      BY <3>3, <3>4
  <2>3. ASSUME NEW i \in DOMAIN tick.page, NEW v, v = tick.page[i]
        PROVE  0 < v.at /\ v.at <= last'[v.row]
    <3>1. v.row \in Rows /\ v.at \in Nat /\ 0 < v.at /\ v.at <= last[v.row]
      BY <2>3, PageEntries DEF SyncInv, PageInv
    <3>2. last'[v.row] \in Nat /\ last[v.row] \in Nat /\ last'[v.row] >= last[v.row]
      BY <1>2, <1>5, <3>1
    <3> QED
      BY ONLY <3>1, <3>2
  <2> QED
    BY <1>1, <2>1, <2>2, <2>3 DEF SyncInv, PageInv
<1>9. ASSUME NEW k \in {"push", "pull"}, NEW q \in Followed', Pending(k, q)',
             NEW v, v = table'[Source(k)][q]
      PROVE  /\ q = r => v >= clock - Delay /\ v > 0
             /\ q # r => Pending(k, q) /\ q \in Followed /\ v = table[Source(k)][q]
  <2>1. q \in Rows /\ Source(k) \in Sites /\ Target(k) \in Sites /\ Source(k) # Target(k)
    BY SourceAndTarget DEF Followed
  <2>2. CASE q = r
    <3>1. /\ table'[Source(k)][r] \in Nat /\ table'[Target(k)][r] \in Nat
          /\ table'[Source(k)][r] > table'[Target(k)][r]
      BY <1>4, <1>9, <2>1, <2>2 DEF Pending
    <3>2. s \in {Source(k), Target(k)}
      BY <2>1 DEF Source, Target, Sites
    <3>3. v >= at
      BY <1>3, <1>4, <1>9, <2>2, <3>1, <3>2
    <3>4. v \in Nat
      BY <1>9, <2>2, <3>1
    <3> QED
      BY <1>2, <1>3, <2>2, <3>3, <3>4
  <2>3. CASE q # r
    BY <1>0, <1>1, <1>4, <1>9, <2>1, <2>3 DEF Pending, Followed
  <2> QED
    BY <2>2, <2>3
<1>10. PendingInv'
  <2> SUFFICES ASSUME NEW k \in {"push", "pull"}, NEW q \in Followed', Pending(k, q)',
                      NEW v, v = table'[Source(k)][q]
               PROVE  v > Since(k)
    BY <1>1 DEF PendingInv, Since
  <2>1. CASE q = r
    <3>1. v >= clock - Delay /\ v > 0
      BY <1>9, <2>1
    <3>2. v \in Nat
      BY <1>4, SourceAndTarget DEF Followed
    <3> QED
      BY <1>2, <3>1, <3>2 DEF Since
  <2>2. CASE q # r
    <3>1. Pending(k, q) /\ q \in Followed /\ v = table[Source(k)][q]
      BY <1>9, <2>2
    <3> QED
      BY <3>1 DEF SyncInv, PendingInv
  <2> QED
    BY <2>1, <2>2
<1>11. TickInv'
  <2> SUFFICES ASSUME NEW k \in {"push", "pull"}, k = tick.phase, NEW q \in Followed',
                      DueNow(k, q)', NEW v, v = table'[Source(k)][q]
               PROVE  IF tick.page = << >> THEN v > tick.cursor
                      ELSE \/ \E i \in DOMAIN tick.page : tick.page[i] = [row |-> q, at |-> v]
                           \/ tick.full /\ v > tick.page[Len(tick.page)].at
    BY <1>1 DEF TickInv
  <2>1. Pending(k, q)' /\ v < tick.begun - Delay
    BY <1>1 DEF DueNow
  <2>2. q # r
    <3>1. v \in Nat /\ tick.begun <= clock
      BY <1>2, <1>4, SourceAndTarget DEF Followed
    <3>2. q = r => v >= clock - Delay
      BY <1>9, <2>1
    <3> QED
      BY <1>2, <2>1, <3>1, <3>2
  <2>3. Pending(k, q) /\ q \in Followed /\ v = table[Source(k)][q]
    BY <1>9, <2>1, <2>2
  <2>4. DueNow(k, q)
    BY <2>1, <2>3 DEF DueNow
  <2> QED
    BY <2>3, <2>4 DEF SyncInv, TickInv
<1>12. CalmInv'
  BY <1>1 DEF CalmInv
<1>13. NewestVersionSurvives'
  <2> SUFFICES ASSUME NEW q \in Rows \ (deleted \cup clobbered \cup misstamped')
               PROVE  \E z \in Sites : table'[z][q] = last'[q]
    BY <1>1 DEF NewestVersionSurvives
  <2>1. PICK z \in Sites : table[z][q] = last[q]
    BY <1>0 DEF SyncInv, NewestVersionSurvives
  <2>2. CASE q # r
    BY <1>4, <1>5, <2>1, <2>2
  <2>3. CASE q = r
    <3>1. CASE last'[r] = at
      BY <1>4, <2>3, <3>1
    <3>2. CASE last'[r] # at
      <4>1. last'[r] = last[r] /\ last[r] # at
        BY <1>5, <3>2
      <4>2. z # s
        <5>1. z = s => at >= last[r]
          BY <1>0, <1>2, <1>3, <2>1, <2>3
        <5> QED
          BY <1>2, <1>3, <1>5, <4>1, <5>1
      <4> QED
        BY <1>4, <2>1, <2>3, <4>1, <4>2
    <3> QED
      BY <3>1, <3>2
  <2> QED
    BY <2>2, <2>3
<1> QED
  BY <1>6, <1>7, <1>8, <1>10, <1>11, <1>12, <1>13 DEF SyncInv

\* A user deletes a row, of which nothing is asked from then on.
LEMMA DeleteInv ==
  ASSUME SyncInv, NEW s \in Sites, NEW r \in Rows, Delete(s, r)
  PROVE  SyncInv'
<1>1. PICK gone, recorded \in BOOLEAN :
        /\ table' = IF gone THEN [table EXCEPT ![s][r] = 0] ELSE table
        /\ tombstones' = IF recorded THEN [tombstones EXCEPT ![s] = @ \cup {[row |-> r, at |-> clock]}]
                         ELSE tombstones
  BY DEF Delete
<1>2. /\ deleted' = deleted \cup {r} /\ calm' = FALSE
      /\ UNCHANGED <<checkpoint, tick, last, clobbered, misstamped, lapsed, clock>>
  BY DEF Delete
<1>3. SyncTypeOK /\ table \in [Sites -> [Rows -> Nat]] /\ clock \in Nat /\ \A q \in Rows : last[q] \in Nat
  BY TickTypes DEF SyncInv, SyncTypeOK
<1>4. /\ table' \in [Sites -> [Rows -> Nat]] /\ table'[s][r] \in {0, table[s][r]}
      /\ \A z \in Sites, q \in Rows : (z # s \/ q # r) => table'[z][q] = table[z][q]
  <2>1. CASE gone
    <3>1. table' = [table EXCEPT ![s][r] = 0] /\ 0 \in Nat
      BY <1>1, <2>1
    <3> QED
      BY <1>3, <3>1, RowWritten
  <2>2. CASE ~gone
    BY <1>1, <1>3, <2>2
  <2> QED
    BY <2>1, <2>2
<1>5. /\ \A z \in Sites : tombstones'[z] \subseteq tombstones[z] \cup {[row |-> r, at |-> clock]}
  BY <1>1
<1>6. SyncTypeOK'
  <2>1. [row |-> r, at |-> clock] \in Version
    BY <1>3 DEF Version
  <2>2. \A z \in Sites : tombstones'[z] \subseteq Version
    BY <1>3, <1>5, <2>1 DEF SyncTypeOK
  <2> QED
    BY <1>2, <1>3, <1>4, <2>2 DEF SyncTypeOK
<1>7. Times'
  <2>1. \A z \in Sites : \A d \in tombstones'[z] : d.at <= clock /\ d.row \in deleted'
    <3> TAKE z \in Sites
    <3> TAKE d \in tombstones'[z]
    <3>1. CASE d \in tombstones[z]
      BY <1>2, <3>1 DEF SyncInv, Times
    <3>2. CASE d = [row |-> r, at |-> clock]
      BY <1>2, <1>3, <3>2
    <3> QED
      BY <1>5, <3>1, <3>2
  <2>2. \A z \in Sites, q \in Rows : table'[z][q] <= last[q]
    <3> TAKE z \in Sites, q \in Rows
    <3>1. table'[z][q] \in {0, table[z][q]} /\ table[z][q] <= last[q] /\ last[q] \in Nat
      BY <1>3, <1>4 DEF SyncInv, Times
    <3> QED
      BY <3>1
  <2> QED
    BY <1>2, <2>1, <2>2 DEF SyncInv, Times
<1>8. \A z \in Sites, q \in Rows \ deleted' : table'[z][q] = table[z][q]
  BY <1>2, <1>4
<1>9. PageInv'
  <2>1. \A i \in DOMAIN tick.page : tick.page[i].row \in Rows /\ Source(tick.phase) \in Sites
    BY <1>3, PageEntries, SourceAndTarget
  <2>2. tick.page # << >> => Head(tick.page).row \in Rows /\ Target(tick.phase) \in Sites
    BY <1>3, PageEntries, SourceAndTarget
  <2>3. ASSUME NEW i \in DOMAIN tick.page, NEW v, v = tick.page[i], v.row \notin (deleted \cup misstamped)',
               NEW new, new = table'[Source(tick.phase)][v.row]
        PROVE  v.at <= new /\ (v.at = new \/ new >= tick.begun - Delay)
    <3>1. v.row \notin deleted \cup misstamped /\ new = table[Source(tick.phase)][v.row]
      BY <1>2, <1>8, <2>1, <2>3
    <3> QED
      BY <2>3, <3>1 DEF SyncInv, PageInv
  <2>4. ASSUME tick.looked, NEW q, q = Head(tick.page).row, q \notin (deleted \cup misstamped)',
               NEW new, new = table'[Target(tick.phase)][q]
        PROVE  tick.seen <= new /\ (tick.seen = 0 => new = 0)
    <3>1. tick.page # << >>
      BY <2>4 DEF SyncInv, PageInv
    <3>2. q \notin deleted \cup misstamped /\ new = table[Target(tick.phase)][q]
      BY <1>2, <1>8, <2>2, <2>4, <3>1
    <3> QED
      BY <2>4, <3>2 DEF SyncInv, PageInv
  <2> QED
    BY <1>2, <2>3, <2>4 DEF SyncInv, PageInv
<1>10. \A k, q : q \in Followed' => /\ q \in Followed /\ (Pending(k, q)' <=> Pending(k, q))
                                   /\ table'[Source(k)][q] = table[Source(k)][q]
  <2>1. \A q : q \in Followed' => q \in Followed /\ q \in Rows \ deleted'
    BY <1>2 DEF Followed
  <2> QED
    BY <1>8, <2>1, SourceAndTarget DEF Pending
<1>11. PendingInv'
  BY <1>2, <1>10 DEF SyncInv, PendingInv, Since
<1>12. TickInv'
  BY <1>2, <1>10 DEF SyncInv, TickInv, DueNow
<1>13. CalmInv'
  BY <1>2 DEF CalmInv
<1>14. NewestVersionSurvives'
  BY <1>2, <1>8 DEF SyncInv, NewestVersionSurvives
<1> QED
  BY <1>6, <1>7, <1>9, <1>11, <1>12, <1>13, <1>14 DEF SyncInv

\* A tick that ends has left what is pending to the next one.
LEMMA AbortTickInv ==
  ASSUME SyncInv, AbortTick
  PROVE  SyncInv'
<1>1. /\ tick' = NoTick /\ calm' = FALSE
      /\ UNCHANGED <<table, tombstones, checkpoint, last, deleted, clobbered, misstamped, lapsed, clock>>
  BY DEF AbortTick
<1>2. /\ NoTick.phase = "idle" /\ NoTick.page = << >> /\ NoTick.looked = FALSE /\ NoTick \in Tick
  <2>1. << >> \in Seq(Version) /\ FALSE \in BOOLEAN /\ 0 \in Nat /\ 0 \in Int
    OBVIOUS
  <2> QED
    BY <2>1 DEF NoTick, Tick
<1>3. SyncTypeOK'
  BY <1>1, <1>2 DEF SyncInv, SyncTypeOK
<1>4. Times' /\ NewestVersionSurvives'
  BY <1>1, <1>2 DEF SyncInv, Times, NewestVersionSurvives
<1>5. PageInv' /\ TickInv' /\ CalmInv'
  BY <1>1, <1>2 DEF PageInv, TickInv, CalmInv
<1>6. PendingInv'
  BY <1>1 DEF SyncInv, PendingInv, Pending, Followed, Since
<1> QED
  BY <1>3, <1>4, <1>5, <1>6 DEF SyncInv

\* The row at the target is looked for.
LEMMA LookAtTargetInv ==
  ASSUME SyncInv, LookAtTarget
  PROVE  SyncInv'
<1> PICK n, new : /\ n = table[Target(tick.phase)][Head(tick.page).row]
                  /\ new = [tick EXCEPT !.looked = TRUE, !.seen = n]
  OBVIOUS
<1>1. /\ tick.page # << >> /\ tick' = new
      /\ UNCHANGED <<table, tombstones, checkpoint, last, deleted, clobbered, misstamped, lapsed, calm, clock>>
  BY DEF LookAtTarget
<1>2. SyncTypeOK /\ n \in Nat
  BY <1>1, PageEntries, TickTypes, SourceAndTarget DEF SyncInv
<1>3. /\ new \in Tick /\ new.phase = tick.phase /\ new.begun = tick.begun /\ new.cursor = tick.cursor
      /\ new.page = tick.page /\ new.full = tick.full /\ new.seen = n
  <2>1. tick \in Tick /\ TRUE \in BOOLEAN
    BY <1>2 DEF SyncTypeOK
  <2> QED
    BY <1>2, <2>1 DEF Tick
<1>4. SyncTypeOK'
  BY <1>1, <1>2, <1>3 DEF SyncTypeOK
<1>5. Times' /\ NewestVersionSurvives'
  BY <1>1, <1>3 DEF SyncInv, Times, NewestVersionSurvives
<1>6. PageInv'
  <2>1. ASSUME NEW r, r = Head(tick.page).row, r \notin deleted \cup misstamped, NEW there, there = table[Target(tick.phase)][r]
        PROVE  n <= there /\ (n = 0 => there = 0)
    BY <1>2, <2>1
  <2>2. tick.page # << >> => tick.phase \in {"push", "pull"}
    BY DEF SyncInv, PageInv
  <2>3. ASSUME NEW i \in DOMAIN tick.page, NEW v, v = tick.page[i],
               NEW there, there = table[Source(tick.phase)][v.row]
        PROVE  /\ 0 < v.at /\ v.at <= last[v.row]
               /\ v.row \notin deleted \cup misstamped =>
                    v.at <= there /\ (v.at = there \/ (~calm /\ there >= tick.begun - Delay))
    BY <2>3 DEF SyncInv, PageInv
  <2>4. /\ tick'.page = tick.page /\ tick'.phase = tick.phase /\ tick'.begun = tick.begun /\ tick'.seen = n
        /\ UNCHANGED <<table, last, deleted, misstamped, calm>>
    BY <1>1, <1>3
  <2>5. \A i \in DOMAIN tick'.page :
          LET v == tick'.page[i]
              at == table'[Source(tick'.phase)][v.row]
          IN  /\ 0 < v.at /\ v.at <= last'[v.row]
              /\ v.row \notin (deleted \cup misstamped)' =>
                   v.at <= at /\ (v.at = at \/ (~calm' /\ at >= tick'.begun - Delay))
    BY ONLY <2>3, <2>4
  <2>6. LET r == Head(tick'.page).row
            at == table'[Target(tick'.phase)][r]
        IN  r \notin (deleted \cup misstamped)' => tick'.seen <= at /\ (tick'.seen = 0 => at = 0)
    BY ONLY <2>1, <2>4
  <2> QED
    BY <1>1, <2>2, <2>4, <2>5, <2>6 DEF PageInv
<1>7. PendingInv' /\ CalmInv'
  BY <1>1, <1>3 DEF SyncInv, PendingInv, CalmInv, Pending, Followed, Since
<1>8. TickInv'
  BY <1>1, <1>3 DEF SyncInv, TickInv, DueNow, Pending, Followed
<1> QED
  BY <1>4, <1>5, <1>6, <1>7, <1>8 DEF SyncInv

\* A phase ends and the next one begins.
LEMMA PhaseEnds ==
  ASSUME SyncTypeOK, tick.phase # "idle", EnterNext, NEW k, k = tick.phase, NEW next, next = Following[k]
  PROVE  /\ tick' \in Tick /\ tick'.phase = next /\ tick'.page = << >> /\ tick'.looked = FALSE
         /\ next # "idle" => tick'.begun = tick.begun /\ tick'.cursor = Since(next)
         /\ next # "push" /\ (next = "pull" => k = "push") /\ (next \notin {"push", "pull"} => k # "push")
<1>1. tick.begun \in Nat /\ k \in {"push", "pull", "delpush", "delpull"}
  BY TickTypes
<1>2. /\ next \in {"idle", "push", "pull", "delpush", "delpull"}
      /\ next # "push" /\ (next = "pull" => k = "push") /\ (next \notin {"push", "pull"} => k # "push")
  BY <1>1, SourceAndTarget
<1>3. Enter(next, tick.begun)
  BY DEF EnterNext
<1> QED
  BY <1>1, <1>2, <1>3, PhaseEntered

\* A page is read: what is pending is on it, after it, or left out for good.
LEMMA ReadPageInv ==
  ASSUME SyncInv, ReadPage
  PROVE  SyncInv'
<1> PICK k, s, there, next :
      /\ k = tick.phase /\ s = Source(k)
      /\ there = {r \in Rows : table[s][r] > 0 /\ table[s][r] > tick.cursor}
      /\ next = Upcoming
  OBVIOUS
<1>0. next = {[row |-> r, at |-> table[s][r]] : r \in there}
  BY DEF Upcoming
<1>1. /\ k \in {"push", "pull"} /\ tick.page = << >>
      /\ UNCHANGED <<table, tombstones, checkpoint, last, deleted, clobbered, misstamped, calm, clock>>
  BY DEF ReadPage
<1>2. SyncTypeOK /\ s \in Sites
  BY SourceAndTarget DEF SyncInv
<1>3. \A r \in there : r \in Rows /\ table[s][r] \in Nat /\ [row |-> r, at |-> table[s][r]] \in next
  BY <1>0, <1>2, TickTypes
<1>4. \A v \in next : /\ v \in Version /\ v.row \in Rows /\ v.at \in Nat /\ v.at > 0
                      /\ v.at = table[s][v.row] /\ v = [row |-> v.row, at |-> table[s][v.row]]
  <2> TAKE v \in next
  <2>1. PICK r \in there : v = [row |-> r, at |-> table[s][r]]
    BY <1>0
  <2> QED
    BY <1>3, <2>1 DEF Version
<1>5. \A r \in Followed : DueNow(k, r) => r \in there
  <2> TAKE r \in Followed
  <2> HAVE DueNow(k, r)
  <2>1. r \in Rows /\ table[s][r] \in Nat /\ table[Target(k)][r] \in Nat
    BY <1>2, TickTypes, SourceAndTarget DEF Followed
  <2>2. table[s][r] > table[Target(k)][r]
    BY DEF DueNow, Pending
  <2>3. table[s][r] > tick.cursor
    BY <1>1 DEF SyncInv, TickInv
  <2> QED
    BY <2>1, <2>2, <2>3
<1>6. CASE next = {} /\ EnterNext /\ UNCHANGED lapsed
  <2>1. \A r \in Followed : ~DueNow(k, r)
    BY <1>3, <1>5, <1>6
  <2> PICK nextPhase : nextPhase = Following[k]
    OBVIOUS
  <2>2. /\ tick' \in Tick /\ tick'.phase = nextPhase /\ tick'.page = << >> /\ tick'.looked = FALSE
        /\ nextPhase # "idle" => tick'.begun = tick.begun /\ tick'.cursor = Since(nextPhase)
        /\ nextPhase # "push" /\ (nextPhase \notin {"push", "pull"} => k # "push")
    <3>1. SyncTypeOK /\ k = tick.phase /\ nextPhase = Following[k] /\ tick.phase # "idle" /\ EnterNext
      BY <1>1, <1>2, <1>6
    <3> QED
      BY ONLY <3>1, PhaseEnds
  <2>3. SyncTypeOK'
    BY <1>1, <1>2, <1>6, <2>2 DEF SyncTypeOK
  <2>4. Times' /\ NewestVersionSurvives'
    BY <1>1, <2>2 DEF SyncInv, Times, NewestVersionSurvives
  <2>5. PageInv'
    BY <2>2 DEF PageInv
  <2>6. PendingInv'
    BY <1>1, <1>6 DEF SyncInv, PendingInv, Pending, Followed, Since
  <2>7. TickInv'
    BY <1>1, <2>2, <2>6, PhaseBegins DEF Since
  <2>8. CalmInv'
    <3> SUFFICES ASSUME calm, NEW r \in Followed
                 PROVE  /\ ~Pending("push", r)
                        /\ k # "push" => ~Pending("pull", r)
      BY <1>1, <1>6, <2>2 DEF CalmInv, Followed, Pending
    <3>1. ~Pending(k, r)
      BY <2>1 DEF DueNow
    <3>2. k # "push" => ~Pending("push", r)
      BY DEF SyncInv, CalmInv
    <3> QED
      BY <1>1, <3>1, <3>2
  <2> QED
    BY <2>3, <2>4, <2>5, <2>6, <2>7, <2>8 DEF SyncInv
<1>7. ASSUME NEW n \in 1..PageSize, NEW page \in FirstOf(next, n),
             n < PageSize => Range(page) = next,
             tick' = [tick EXCEPT !.full = (n = PageSize), !.page = page],
             lapsed' = lapsed \cup {v.row : v \in {v \in next \ Range(page) : v.at = page[n].at}}
      PROVE  SyncInv'
  <2>1. /\ n \in Nat /\ n >= 1 /\ n <= PageSize /\ PageSize \in Nat
        /\ page \in [1..n -> next] /\ n \in 1..n
        /\ \A v \in next \ Range(page) : Before(page[n], v)
    BY PageSizeAssumption DEF FirstOf
  <2>2. page \in Seq(Version) /\ Len(page) = n /\ DOMAIN page = 1..n /\ page # << >>
    <3>1. \A i \in 1..n : page[i] \in Version
      BY <1>4, <2>1
    <3>2. page \in [1..n -> Version]
      BY <2>1, <3>1
    <3>3. page \in Seq(Version)
      BY ONLY <2>1, <3>2
    <3>4. DOMAIN page = 1..n /\ Len(page) = n
      BY ONLY <2>1, <3>2, <3>3
    <3> QED
      BY <2>1, <3>3, <3>4
  <2>3. \A v \in next : v \in Range(page) \/ n = PageSize
    BY <1>7, <2>1
  <2>4. /\ tick' \in Tick /\ tick'.phase = k /\ tick'.begun = tick.begun /\ tick'.page = page
        /\ tick'.full = (n = PageSize) /\ tick'.looked = tick.looked
    <3> PICK full \in BOOLEAN : full = (n = PageSize)
      OBVIOUS
    <3>1. tick' = [tick EXCEPT !.full = full, !.page = page] /\ tick \in Tick
      BY <1>2, <1>7 DEF SyncTypeOK
    <3> QED
      BY <2>2, <3>1 DEF Tick
  <2>5. /\ lapsed' \subseteq Rows /\ lapsed \subseteq lapsed'
    BY <1>2, <1>4, <1>7 DEF SyncTypeOK
  <2>6. Followed' \subseteq Followed
    BY <1>1, <2>5 DEF Followed
  <2>7. SyncTypeOK'
    BY <1>1, <1>2, <2>4, <2>5 DEF SyncTypeOK
  <2>8. Times' /\ NewestVersionSurvives'
    BY <1>1, <2>4 DEF SyncInv, Times, NewestVersionSurvives
  <2>9. PageInv'
    <3>1. ~tick.looked
      BY <1>1 DEF SyncInv, PageInv
    <3>2. ASSUME NEW i \in DOMAIN page, NEW v, v = page[i]
          PROVE  0 < v.at /\ v.at <= last[v.row] /\ v.at <= table[s][v.row] /\ v.at = table[s][v.row]
      <4>1. v \in next
        BY <2>1, <2>2, <3>2
      <4>2. table[s][v.row] <= last[v.row] /\ v.at \in Nat /\ v.at > 0 /\ v.at = table[s][v.row]
        BY <1>2, <1>4, <4>1 DEF SyncInv, Times
      <4> QED
        BY ONLY <4>2
    <3> QED
      BY <1>1, <2>4, <3>1, <3>2 DEF PageInv
  <2>10. PendingInv' /\ CalmInv'
    <3>1. \A c, r : Pending(c, r)' <=> Pending(c, r)
      BY <1>1 DEF Pending
    <3> QED
      BY <1>1, <2>4, <2>6, <3>1 DEF SyncInv, PendingInv, CalmInv, Since
  <2>11. TickInv'
    <3> SUFFICES ASSUME NEW r \in Followed', DueNow(k, r)
                 PROVE  \/ \E i \in DOMAIN page : page[i] = [row |-> r, at |-> table[s][r]]
                        \/ n = PageSize /\ table[s][r] > page[Len(page)].at
      <4>1. \A r : DueNow(k, r)' => DueNow(k, r)
        BY <1>1, <2>4 DEF DueNow, Pending
      <4>2. ASSUME NEW r \in Followed', DueNow(k, r)'
            PROVE  \/ \E i \in DOMAIN page : page[i] = [row |-> r, at |-> table'[s][r]]
                   \/ n = PageSize /\ table'[s][r] > page[Len(page)].at
        BY <1>1, <4>1, <4>2
      <4> QED
        BY ONLY <2>2, <2>4, <4>2, s = Source(k) DEF TickInv
    <3> PICK v : v = [row |-> r, at |-> table[s][r]]
      OBVIOUS
    <3>1. r \in there
      BY <1>5, <2>6
    <3>2. v \in next /\ v.row = r /\ v.at = table[s][r] /\ v.at \in Nat
      BY <1>3, <3>1
    <3>3. CASE v \in Range(page)
      BY <2>2, <3>3 DEF Range
    <3>4. CASE v \notin Range(page)
      <4>1. n = PageSize /\ Before(page[n], v)
        BY <2>1, <2>3, <3>2, <3>4
      <4>2. page[n].at # v.at
        BY <1>7, <3>2, <3>4 DEF Followed
      <4>3. page[n].at < v.at
        BY <4>1, <4>2 DEF Before
      <4>4. page[n].at \in Nat
        BY <1>4, <2>1
      <4> QED
        BY <2>2, <3>2, <4>1, <4>3, <4>4
    <3> QED
      BY <3>3, <3>4
  <2> QED
    BY <2>7, <2>8, <2>9, <2>10, <2>11 DEF SyncInv
<1>8. \/ next = {} /\ EnterNext /\ UNCHANGED lapsed
      \/ \E n \in 1..PageSize : \E page \in FirstOf(next, n) :
           /\ n < PageSize => Range(page) = next
           /\ tick' = [tick EXCEPT !.full = (n = PageSize), !.page = page]
           /\ lapsed' = lapsed \cup {v.row : v \in {v \in next \ Range(page) : v.at = page[n].at}}
  BY DEF ReadPage
<1> QED
  BY <1>6, <1>7, <1>8

\* The tick goes on after a row.
NextRow(at, rest) ==
  tick' = [tick EXCEPT !.page = rest, !.cursor = at, !.looked = FALSE, !.seen = 0]

\* The tick has gone past the row at its page's head.
Advanced(k, at, rest) ==
  /\ checkpoint' \in [DOMAIN Following -> Nat]
  /\ \A c \in DOMAIN Following \ {k} : checkpoint'[c] = checkpoint[c]
  /\ rest \in Seq(Version) /\ Len(rest) = Len(tick.page) - 1 /\ DOMAIN rest = 1..Len(rest)
  /\ \A i \in DOMAIN rest : i + 1 \in DOMAIN tick.page /\ rest[i] = tick.page[i + 1]
  /\ rest = << >> <=> Len(tick.page) = 1
  /\ \/ /\ rest = << >> /\ ~tick.full /\ checkpoint'[k] = at /\ EnterNext
     \/ /\ rest = << >> /\ tick.full /\ checkpoint'[k] = at
        /\ NextRow(at, rest)
     \/ /\ rest # << >> /\ checkpoint'[k] = checkpoint[k]
        /\ NextRow(at, rest)

\* What Advance does: the page goes on without its first row, or the next page is
\* due after the page's last row, or the phase ends with it.
LEMMA AdvanceSteps ==
  ASSUME SyncTypeOK, tick.page # << >>, tick.phase \in {"push", "pull"}, Advance,
         NEW k, k = tick.phase, NEW at, at = Head(tick.page).at, NEW rest, rest = Tail(tick.page)
  PROVE  Advanced(k, at, rest)
<1> PICK page : page = tick.page
  OBVIOUS
<1>1. page \in Seq(Version) /\ page # << >> /\ k \in DOMAIN Following
  BY TickTypes, SourceAndTarget
<1>2. /\ rest \in Seq(Version) /\ Len(rest) = Len(page) - 1 /\ DOMAIN rest = 1..Len(rest)
      /\ \A i \in DOMAIN rest : i + 1 \in DOMAIN page /\ rest[i] = page[i + 1]
      /\ rest = << >> <=> Len(page) = 1
  <2>1. /\ rest \in Seq(Version) /\ Len(rest) = Len(page) - 1
        /\ \A i \in 1..Len(rest) : rest[i] = page[i + 1]
    BY ONLY <1>1, rest = Tail(page), HeadTailProperties
  <2>2. Len(page) \in Nat /\ DOMAIN page = 1..Len(page) /\ DOMAIN rest = 1..Len(rest) /\ Len(rest) \in Nat
    BY ONLY <1>1, <2>1
  <2>3. rest = << >> <=> Len(rest) = 0
    BY ONLY <2>1, EmptySeq
  <2> QED
    BY ONLY <2>1, <2>2, <2>3
<1>3. at \in Nat
  BY PageEntries
<1>4. checkpoint \in [DOMAIN Following -> Nat]
  BY DEF SyncTypeOK
<1>5. checkpoint' = IF Len(page) = 1 THEN [checkpoint EXCEPT ![k] = at] ELSE checkpoint
  BY DEF Advance
<1>6. /\ checkpoint' \in [DOMAIN Following -> Nat]
      /\ \A c \in DOMAIN Following \ {k} : checkpoint'[c] = checkpoint[c]
      /\ checkpoint'[k] = IF Len(page) = 1 THEN at ELSE checkpoint[k]
  BY ONLY <1>1, <1>3, <1>4, <1>5
<1>7. IF Len(page) = 1 /\ ~tick.full THEN EnterNext
      ELSE NextRow(at, rest)
  BY DEF Advance, NextRow
<1>8. checkpoint'[k] = IF rest = << >> THEN at ELSE checkpoint[k]
  BY ONLY <1>2, <1>6
<1>9. IF rest = << >> /\ ~tick.full THEN EnterNext ELSE NextRow(at, rest)
  BY ONLY <1>2, <1>7
<1>10. Len(rest) = Len(tick.page) - 1 /\ (rest = << >> <=> Len(tick.page) = 1)
  BY <1>2
<1> QED
  BY <1>2, <1>6, <1>8, <1>9, <1>10 DEF Advanced

\* The page's first row is settled: the target has it or a newer version, or
\* nothing is asked of it any more.
LEMMA AdvanceInv ==
  ASSUME SyncInv, tick.page # << >>, Advance, NEW k, k = tick.phase,
         NEW r, r = Head(tick.page).row, NEW at, at = Head(tick.page).at,
         UNCHANGED <<tombstones, last, deleted, misstamped, clock>>,
         table' \in [Sites -> [Rows -> Nat]],
         \A z \in Sites, q \in Rows : (z # Target(k) \/ q # r) => table'[z][q] = table[z][q],
         table'[Target(k)][r] <= last[r],
         \/ table'[Target(k)][r] = table[Target(k)][r]
         \/ r \notin deleted \cup misstamped => table'[Target(k)][r] <= table[Source(k)][r],
         r \in Followed' => table'[Target(k)][r] >= at,
         lapsed \subseteq lapsed', lapsed' \subseteq Rows, clobbered' \subseteq Rows,
         calm' \in BOOLEAN, calm' => calm, NewestVersionSurvives'
  PROVE  SyncInv'
<1> PICK rest : rest = Tail(tick.page)
  OBVIOUS
<1>1. /\ SyncTypeOK /\ k \in {"push", "pull"} /\ k \in DOMAIN Following /\ tick \in Tick
      /\ Source(k) \in Sites /\ Target(k) \in Sites /\ Source(k) # Target(k)
  BY SourceAndTarget DEF SyncInv, PageInv, SyncTypeOK
<1>2. /\ r \in Rows /\ at \in Nat /\ at > 0 /\ at <= last[r] /\ last[r] <= clock
      /\ r \notin deleted \cup misstamped =>
           /\ at <= table[Source(k)][r]
           /\ at = table[Source(k)][r] \/ (~calm /\ table[Source(k)][r] >= tick.begun - Delay)
  BY <1>1, PageEntries DEF SyncInv, PageInv, Times
<1>3. /\ checkpoint' \in [DOMAIN Following -> Nat]
      /\ \A c \in DOMAIN Following \ {k} : checkpoint'[c] = checkpoint[c]
      /\ rest \in Seq(Version) /\ Len(rest) = Len(tick.page) - 1 /\ DOMAIN rest = 1..Len(rest)
      /\ \A i \in DOMAIN rest : i + 1 \in DOMAIN tick.page /\ rest[i] = tick.page[i + 1]
      /\ rest = << >> <=> Len(tick.page) = 1
      /\ \/ /\ rest = << >> /\ ~tick.full /\ checkpoint'[k] = at /\ EnterNext
         \/ /\ rest = << >> /\ tick.full /\ checkpoint'[k] = at
            /\ NextRow(at, rest)
         \/ /\ rest # << >> /\ checkpoint'[k] = checkpoint[k]
            /\ NextRow(at, rest)
  <2>1. SyncTypeOK
    BY <1>1
  <2>2. tick.page # << >> /\ Advance
    OBVIOUS
  <2>3. tick.phase \in {"push", "pull"}
    BY <1>1
  <2>4. k = tick.phase /\ at = Head(tick.page).at /\ rest = Tail(tick.page)
    OBVIOUS
  <2>5. Advanced(k, at, rest)
    BY ONLY <2>1, <2>2, <2>3, <2>4, AdvanceSteps
  <2> QED
    BY ONLY <2>5 DEF Advanced
<1>4. /\ clock \in Nat /\ tick.begun \in Nat /\ clock <= tick.begun + Longest
      /\ Longest \in Nat /\ Delay \in Nat /\ Overlap \in Nat /\ Delay + Longest < Overlap
      /\ last[r] \in Nat /\ \A z \in Sites, q \in Rows : table[z][q] \in Nat /\ table'[z][q] \in Nat
      /\ checkpoint[k] \in Nat /\ checkpoint[k] <= clock
  BY <1>1, <1>2, TickTypes, OverlapAssumption DEF SyncInv, Times
<1>5. Followed' \subseteq Followed /\ Followed \subseteq Rows /\ \A q \in Followed : q \notin deleted \cup misstamped
  BY DEF Followed
<1>6. checkpoint'[k] \in {at, checkpoint[k]}
  BY <1>3
<1>7. \A q \in Rows : table'[Source(k)][q] = table[Source(k)][q]
  BY <1>1
\* What is still pending of the row was written during the tick.
<1>8. ASSUME r \in Followed', Pending(k, r)', NEW v, v = table[Source(k)][r]
      PROVE  v > at /\ ~calm /\ v >= tick.begun - Delay /\ v > clock - Overlap
  <2>1. v > table'[Target(k)][r]
    BY <1>2, <1>7, <1>8 DEF Pending
  <2>2. table'[Target(k)][r] >= at /\ table'[Target(k)][r] \in Nat /\ v \in Nat
    BY <1>1, <1>2, <1>4, <1>8
  <2>3. v > at
    BY <1>2, <2>1, <2>2
  <2>4. ~calm /\ v >= tick.begun - Delay
    BY <1>2, <1>5, <1>8, <2>3
  <2> QED
    BY <1>4, <2>2, <2>3, <2>4
<1>9. ASSUME NEW c \in {"push", "pull"}, NEW q \in Followed', Pending(c, q)', c # k \/ q # r
      PROVE  Pending(c, q) /\ table'[Source(c)][q] = table[Source(c)][q]
  <2>1. q \in Rows /\ q \notin deleted \cup misstamped
    BY <1>5, <1>9
  <2>2. CASE q # r
    <3>1. \A z \in Sites : table'[z][q] = table[z][q]
      BY <2>1, <2>2
    <3> QED
      BY <1>9, <3>1, SourceAndTarget DEF Pending
  <2>3. CASE q = r /\ c # k
    <3>1. Source(c) = Target(k) /\ Target(c) = Source(k)
      BY <1>1, <1>9, <2>3, SourceAndTarget
    <3>2. table'[Target(k)][r] > table[Source(k)][r]
      BY <1>2, <1>7, <1>9, <2>3, <3>1 DEF Pending
    <3>3. table'[Target(k)][r] = table[Target(k)][r]
      <4>1. table'[Target(k)][r] \in Nat /\ table[Source(k)][r] \in Nat
        BY <1>1, <1>2, <1>4
      <4>2. \/ table'[Target(k)][r] = table[Target(k)][r]
            \/ table'[Target(k)][r] <= table[Source(k)][r]
        BY <2>1, <2>3
      <4> QED
        BY ONLY <3>2, <4>1, <4>2
    <3> QED
      BY <2>3, <3>1, <3>2, <3>3 DEF Pending
  <2> QED
    BY <1>9, <2>2, <2>3
\* What else was pending is on the rest of the page or comes after it, or was
\* written during the tick.
<1>10. ASSUME NEW q \in Followed', q # r, Pending(k, q)', NEW v, v = table[Source(k)][q]
       PROVE  \/ ~DueNow(k, q) /\ v >= tick.begun - Delay
              \/ DueNow(k, q) /\ tick.full /\ v > tick.page[Len(tick.page)].at
              \/ DueNow(k, q) /\ \E i \in DOMAIN rest : rest[i] = [row |-> q, at |-> v]
  <2>1. Pending(k, q) /\ q \in Followed
    BY <1>1, <1>5, <1>9, <1>10
  <2>2. v \in Nat
    BY <1>1, <1>4, <1>5, <1>10
  <2>3. CASE ~DueNow(k, q)
    BY <1>4, <1>10, <2>1, <2>2, <2>3 DEF DueNow
  <2>4. CASE DueNow(k, q)
    <3>1. \/ \E i \in DOMAIN tick.page : tick.page[i] = [row |-> q, at |-> v]
          \/ tick.full /\ v > tick.page[Len(tick.page)].at
      BY <1>1, <1>10, <2>1, <2>4 DEF SyncInv, TickInv
    <3>2. ASSUME NEW i \in DOMAIN tick.page, tick.page[i] = [row |-> q, at |-> v]
          PROVE  \E j \in DOMAIN rest : rest[j] = [row |-> q, at |-> v]
      <4>1. DOMAIN tick.page = 1..Len(tick.page) /\ Len(tick.page) \in Nat /\ Head(tick.page) = tick.page[1]
        BY <1>1, PageEntries
      <4>2. i # 1
        BY <1>10, <3>2, <4>1
      <4>3. i - 1 \in DOMAIN rest /\ (i - 1) + 1 = i
        BY <1>3, <4>1, <4>2
      <4>4. rest[i - 1] = tick.page[i]
        BY <1>3, <4>3
      <4> QED
        BY <3>2, <4>3, <4>4
    <3> QED
      BY <2>4, <3>1, <3>2
  <2> QED
    BY <2>3, <2>4
<1>11. rest = << >> => DOMAIN rest = {} /\ tick.page[Len(tick.page)].at = at
  BY <1>1, <1>3, PageEntries
<1>12. PendingInv'
  <2> SUFFICES ASSUME NEW c \in {"push", "pull"}, NEW q \in Followed', Pending(c, q)',
                      NEW v, v = table'[Source(c)][q], NEW stored, stored = checkpoint'[c]
               PROVE  v > IF stored = 0 THEN 0 ELSE stored - Overlap
    BY DEF PendingInv, Since
  <2>1. v \in Nat /\ q \in Rows
    BY <1>4, <1>5, SourceAndTarget
  <2>2. stored = checkpoint[c] /\ Pending(c, q) /\ v = table[Source(c)][q]
        => v > IF stored = 0 THEN 0 ELSE stored - Overlap
    BY <1>5 DEF SyncInv, PendingInv, Since
  <2>3. v > clock - Overlap /\ v > 0 /\ stored \in Nat /\ stored <= clock
        => v > IF stored = 0 THEN 0 ELSE stored - Overlap
    BY <1>4, <2>1
  <2>4. CASE c # k
    <3>1. stored = checkpoint[c]
      BY <1>3, <2>4, SourceAndTarget
    <3> QED
      BY <1>9, <2>2, <2>4, <3>1
  <2>5. CASE c = k
    <3>1. stored \in Nat /\ stored <= clock
      <4>1. at \in Nat /\ at <= clock /\ checkpoint[k] \in Nat /\ checkpoint[k] <= clock
        BY <1>2, <1>4
      <4> QED
        BY ONLY <1>6, <2>5, <4>1, stored = checkpoint'[c]
    <3>2. v = table[Source(k)][q] /\ v > 0
      <4>1. v > table'[Target(k)][q] /\ table'[Target(k)][q] \in Nat
        BY <1>1, <1>4, <2>1, <2>5 DEF Pending
      <4> QED
        BY <1>7, <2>1, <2>5, <4>1
    <3>3. CASE q = r
      BY <1>8, <2>3, <2>5, <3>1, <3>2, <3>3
    <3>4. CASE q # r
      <4>1. Pending(k, q)
        BY <1>9, <2>5, <3>4
      <4>2. CASE rest # << >>
        BY <1>3, <2>2, <2>5, <3>2, <4>1, <4>2
      <4>3. CASE rest = << >>
        <5>1. v >= tick.begun - Delay \/ v > at
          BY <1>10, <1>11, <2>5, <3>2, <3>4, <4>3
        <5>2. stored = at
          BY <1>3, <2>5, <4>3
        <5>3. v >= tick.begun - Delay => v > clock - Overlap
          BY <1>4, <2>1
        <5>4. at <= clock /\ at \in Nat /\ clock \in Nat /\ Overlap \in Nat
          BY <1>2, <1>4
        <5>5. v > at - Overlap
          BY ONLY <2>1, <5>1, <5>3, <5>4
        <5> QED
          BY <1>2, <5>2, <5>5
      <4> QED
        BY <4>2, <4>3
    <3> QED
      BY <3>3, <3>4
  <2> QED
    BY <2>4, <2>5
<1>13. \A z \in Sites, q \in Rows : table'[z][q] <= last[q]
  BY <1>1 DEF SyncInv, Times
<1>14. \A c \in DOMAIN Following : checkpoint'[c] <= clock
  <2> TAKE c \in DOMAIN Following
  <2>1. checkpoint[c] <= clock
    BY DEF SyncInv, Times
  <2>2. at <= clock
    BY <1>2, <1>4
  <2> QED
    BY <1>3, <1>6, <2>1, <2>2
\* The phase ends.
<1>15. CASE rest = << >> /\ ~tick.full /\ EnterNext
  <2> PICK next : next = Following[k]
    OBVIOUS
  <2>1. /\ tick' \in Tick /\ tick'.phase = next /\ tick'.page = << >> /\ tick'.looked = FALSE
        /\ next # "idle" => tick'.begun = tick.begun /\ tick'.cursor = Since(next)
        /\ next # "push" /\ (next = "pull" => k = "push") /\ (next \notin {"push", "pull"} => k # "push")
    <3>1. SyncTypeOK /\ k = tick.phase /\ next = Following[k] /\ tick.phase # "idle" /\ EnterNext
      BY <1>1, <1>15
    <3> QED
      BY ONLY <3>1, PhaseEnds
  <2>2. SyncTypeOK'
    BY <1>1, <1>3, <2>1 DEF SyncTypeOK
  <2>3. Times'
    BY <1>1, <1>13, <1>14, <2>1 DEF SyncInv, Times
  <2>4. PageInv'
    BY <2>1 DEF PageInv
  <2>5. TickInv'
    <3>1. next \in {"push", "pull"} => next \in DOMAIN Following \ {k} /\ next # "idle"
      BY <1>1, <2>1, SourceAndTarget
    <3>2. next \in {"push", "pull"} => tick'.cursor = Since(next)'
      BY <1>3, <2>1, <3>1 DEF Since
    <3> QED
      BY <1>12, <2>1, <3>2, PhaseBegins
  <2>6. CalmInv'
    <3> SUFFICES ASSUME calm', NEW q \in Followed'
                 PROVE  /\ ~Pending("push", q)'
                        /\ k # "push" => ~Pending("pull", q)'
      BY <2>1 DEF CalmInv
    <3>1. calm
      OBVIOUS
    <3>2. ~Pending(k, q)'
      <4>1. CASE q = r
        BY <1>8, <3>1, <4>1
      <4>2. CASE q # r
        <5>1. Pending(k, q)' => DueNow(k, q)
          BY <1>1, <1>9, <3>1, <4>2 DEF DueNow
        <5> QED
          BY <1>10, <1>11, <1>15, <4>2, <5>1
      <4> QED
        BY <4>1, <4>2
    <3>3. k # "push" => ~Pending("push", q)'
      BY <1>5, <1>9, <3>1 DEF SyncInv, CalmInv
    <3> QED
      BY <1>1, <3>2, <3>3
  <2> QED
    BY <1>12, <2>2, <2>3, <2>4, <2>5, <2>6 DEF SyncInv
\* The tick goes on, with this page or the next.
<1>16. CASE /\ NextRow(at, rest)
            /\ rest = << >> => tick.full
  <2>1. /\ tick' \in Tick /\ tick'.phase = k /\ tick'.page = rest /\ tick'.looked = FALSE
        /\ tick'.begun = tick.begun /\ tick'.cursor = at /\ tick'.full = tick.full
    <3>1. at \in Int /\ 0 \in Nat /\ FALSE \in BOOLEAN
      BY <1>2
    <3>2. tick \in Tick /\ rest \in Seq(Version)
      BY <1>1, <1>3
    <3>3. tick' = [tick EXCEPT !.page = rest, !.cursor = at, !.looked = FALSE, !.seen = 0]
      BY <1>16 DEF NextRow
    <3> QED
      BY ONLY <3>1, <3>2, <3>3, k = tick.phase DEF Tick
  <2>2. SyncTypeOK'
    BY <1>1, <1>3, <2>1 DEF SyncTypeOK
  <2>3. Times'
    BY <1>1, <1>13, <1>14, <2>1 DEF SyncInv, Times
  <2>4. PageInv'
    <3>1. ASSUME NEW i \in DOMAIN rest, NEW v, v = rest[i]
          PROVE  /\ 0 < v.at /\ v.at <= last[v.row]
                 /\ v.row \notin deleted \cup misstamped =>
                      /\ v.at <= table'[Source(k)][v.row]
                      /\ \/ v.at = table'[Source(k)][v.row]
                         \/ ~calm /\ table'[Source(k)][v.row] >= tick.begun - Delay
      <4>1. i + 1 \in DOMAIN tick.page /\ v = tick.page[i + 1]
        BY <1>3, <3>1
      <4>2. v.row \in Rows
        BY <1>1, <4>1, PageEntries
      <4>3. table'[Source(k)][v.row] = table[Source(k)][v.row]
        BY <1>7, <4>2
      <4> QED
        BY <4>1, <4>3 DEF SyncInv, PageInv
    <3> QED
      BY <1>1, <2>1, <3>1 DEF PageInv
  <2>5. TickInv'
    <3> SUFFICES ASSUME NEW q \in Followed', DueNow(k, q)', NEW v, v = table'[Source(k)][q]
                 PROVE  IF rest = << >> THEN v > at
                        ELSE \/ \E i \in DOMAIN rest : rest[i] = [row |-> q, at |-> v]
                             \/ tick.full /\ v > rest[Len(rest)].at
      BY <2>1 DEF TickInv
    <3>1. Pending(k, q)' /\ (calm' \/ v < tick.begun - Delay) /\ v = table[Source(k)][q] /\ v \in Nat
      BY <1>1, <1>4, <1>5, <1>7, <2>1 DEF DueNow
    <3>2. q # r
      <4>1. q = r => v > at /\ ~calm /\ v >= tick.begun - Delay
        BY <1>8, <3>1
      <4>2. calm' => calm
        OBVIOUS
      <4>3. tick.begun \in Nat /\ Delay \in Nat
        BY <1>4
      <4> QED
        BY ONLY <3>1, <4>1, <4>2, <4>3
    <3>3. DueNow(k, q)
      BY <1>1, <1>9, <3>1, <3>2 DEF DueNow
    <3>4. \/ tick.full /\ v > tick.page[Len(tick.page)].at
          \/ \E i \in DOMAIN rest : rest[i] = [row |-> q, at |-> v]
      BY <1>10, <3>1, <3>2, <3>3
    <3>5. rest # << >> => rest[Len(rest)] = tick.page[Len(tick.page)]
      <4>1. Len(rest) \in Nat /\ Len(tick.page) \in Nat
        BY <1>1, <1>3, PageEntries
      <4>2. rest # << >> => Len(rest) \in DOMAIN rest /\ Len(rest) + 1 = Len(tick.page)
        BY <1>1, <1>3, <4>1, PageEntries
      <4> QED
        BY <1>3, <4>2
    <3> QED
      BY <1>11, <3>4, <3>5
  <2>6. CalmInv'
    <3> SUFFICES ASSUME calm', NEW q \in Followed', k # "push"
                 PROVE  ~Pending("push", q)'
      BY <1>1, <2>1 DEF CalmInv
    <3> QED
      BY <1>5, <1>9 DEF SyncInv, CalmInv
  <2> QED
    BY <1>12, <2>2, <2>3, <2>4, <2>5, <2>6 DEF SyncInv
<1> QED
  BY <1>3, <1>15, <1>16

\* A row is copied: the target then has the source's version, or a newer one.
LEMMA CopyRowInv ==
  ASSUME SyncInv, CopyRow
  PROVE  SyncInv'
<1> PICK k, s, t, r, at, present :
      /\ k = tick.phase /\ s = Source(k) /\ t = Target(k)
      /\ r = Head(tick.page).row /\ at = Head(tick.page).at /\ present = table[t][r]
  OBVIOUS
<1>1. /\ SyncTypeOK /\ tick.looked /\ tick.page # << >>
      /\ s \in Sites /\ t \in Sites /\ s # t /\ (\A z \in Sites : z \in {s, t})
      /\ table \in [Sites -> [Rows -> Nat]]
  BY SourceAndTarget DEF CopyRow, SyncInv, PageInv, SyncTypeOK, Source, Target, Sites
<1>2. /\ r \in Rows /\ at \in Nat /\ at > 0 /\ at <= last[r] /\ last[r] \in Nat
      /\ present \in Nat /\ present <= last[r] /\ tick.seen \in Nat
      /\ r \notin deleted \cup misstamped => /\ at <= table[s][r]
                             /\ tick.seen <= present /\ (tick.seen = 0 => present = 0)
  BY <1>1, PageEntries, TickTypes DEF SyncInv, PageInv, Times
<1>3. /\ UNCHANGED <<tombstones, last, deleted, misstamped, lapsed, calm, clock>> /\ Advance
      /\ calm' \in BOOLEAN /\ lapsed' \subseteq Rows
  BY <1>1 DEF CopyRow, SyncTypeOK
<1>4. \/ /\ IsNewer(at) /\ present # 0
         /\ table' = [table EXCEPT ![t][r] = at]
         /\ clobbered' = IF present = tick.seen THEN clobbered ELSE clobbered \cup {r}
      \/ /\ ~IsNewer(at)
         /\ table' = IF tick.seen = 0 /\ present = 0 THEN [table EXCEPT ![t][r] = at] ELSE table
         /\ UNCHANGED clobbered
  BY DEF CopyRow
<1>5. clobbered' \subseteq Rows /\ clobbered \subseteq clobbered'
  BY <1>1, <1>2, <1>4 DEF SyncTypeOK
\* The target gets the version that was on the page.
<1>6. CASE /\ table' = [table EXCEPT ![t][r] = at]
           /\ r \notin clobbered' => present < at
  <2>1. /\ table' \in [Sites -> [Rows -> Nat]] /\ table'[t][r] = at
        /\ \A z \in Sites, q \in Rows : (z # t \/ q # r) => table'[z][q] = table[z][q]
    BY <1>1, <1>2, <1>6, RowWritten
  <2>2. NewestVersionSurvives'
    <3> SUFFICES ASSUME NEW q \in Rows \ (deleted \cup clobbered' \cup misstamped)
                 PROVE  \E z \in Sites : table'[z][q] = last[q]
      BY <1>3 DEF NewestVersionSurvives
    <3>1. PICK z \in Sites : table[z][q] = last[q]
      BY <1>5 DEF SyncInv, NewestVersionSurvives
    <3>2. z = t => q # r
      BY <1>2, <1>6, <3>1
    <3>3. table'[z][q] = table[z][q]
      BY <2>1, <3>2
    <3> QED
      BY <3>1, <3>3
  <2>3. r \notin deleted \cup misstamped => table'[t][r] <= table[s][r]
    BY <1>2, <2>1
  <2>4. table'[t][r] <= last[r] /\ table'[t][r] >= at
    BY <1>2, <2>1
  <2> QED
    BY <1>1, <1>3, <1>5, <2>1, <2>2, <2>3, <2>4, AdvanceInv
\* The target's version is as new.
<1>7. CASE /\ table' = table /\ UNCHANGED clobbered
           /\ ~IsNewer(at) /\ ~(tick.seen = 0 /\ present = 0)
  <2>1. NewestVersionSurvives'
    BY <1>3, <1>7 DEF SyncInv, NewestVersionSurvives
  <2>2. r \in Followed' => table'[t][r] >= at
    <3> HAVE r \in Followed'
    <3>1. r \notin deleted \cup misstamped
      BY <1>3 DEF Followed
    <3>2. tick.seen # 0 /\ tick.seen >= at /\ tick.seen <= present
      BY <1>2, <1>7, <3>1 DEF IsNewer
    <3> QED
      BY <1>2, <1>7, <3>2
  <2>3. table'[t][r] <= last[r] /\ table'[t][r] = table[t][r]
    BY <1>2, <1>7
  <2> QED
    BY <1>1, <1>3, <1>5, <1>7, <2>1, <2>2, <2>3, AdvanceInv
<1>8. CASE IsNewer(at)
  BY <1>2, <1>4, <1>6, <1>8 DEF IsNewer
<1>9. CASE ~IsNewer(at)
  BY <1>2, <1>4, <1>6, <1>7, <1>9
<1> QED
  BY <1>8, <1>9

\* A row whose copy fails is passed over.
LEMMA FailCopyInv ==
  ASSUME SyncInv, FailCopy
  PROVE  SyncInv'
<1> PICK k, r, at : k = tick.phase /\ r = Head(tick.page).row /\ at = Head(tick.page).at
  OBVIOUS
<1>1. /\ SyncTypeOK /\ tick.page # << >> /\ Advance
      /\ lapsed' = lapsed \cup {r} /\ calm' = FALSE
      /\ UNCHANGED <<table, tombstones, last, deleted, clobbered, misstamped, clock>>
  BY DEF FailCopy, SyncInv
<1>2. /\ r \in Rows /\ Target(k) \in Sites /\ table \in [Sites -> [Rows -> Nat]]
      /\ clobbered \subseteq Rows /\ lapsed \subseteq Rows
  BY <1>1, PageEntries, SourceAndTarget DEF SyncTypeOK
<1>3. table[Target(k)][r] <= last[r]
  BY <1>2 DEF SyncInv, Times
<1>4. NewestVersionSurvives'
  BY <1>1 DEF SyncInv, NewestVersionSurvives
<1>5. r \notin Followed'
  BY <1>1 DEF Followed
<1>6. lapsed \subseteq lapsed' /\ lapsed' \subseteq Rows /\ clobbered' \subseteq Rows /\ calm' \in BOOLEAN
  BY <1>1, <1>2
<1> QED
  BY <1>1, <1>2, <1>3, <1>4, <1>5, <1>6, AdvanceInv

\* What every step of the deletions' phases keeps.
LEMMA DeletionsInv ==
  ASSUME SyncInv, tick.phase \in {"delpush", "delpull"}, EnterNext,
         table' \in [Sites -> [Rows -> Nat]],
         \A z \in Sites, q \in Rows : table'[z][q] \in {0, table[z][q]},
         \A z \in Sites, q \in Rows \ deleted : table'[z][q] = table[z][q],
         checkpoint' \in [DOMAIN Following -> Nat],
         \A k \in {"push", "pull"} : checkpoint'[k] = checkpoint[k],
         \A k \in DOMAIN Following : checkpoint'[k] <= clock,
         calm' \in BOOLEAN, calm' => calm,
         UNCHANGED <<tombstones, last, deleted, clobbered, misstamped, lapsed, clock>>
  PROVE  SyncInv'
<1> PICK k, next : k = tick.phase /\ next = Following[k]
  OBVIOUS
<1>1. SyncTypeOK
  BY DEF SyncInv
<1>2. /\ tick' \in Tick /\ tick'.phase = next /\ tick'.page = << >> /\ tick'.looked = FALSE
      /\ next # "idle" => tick'.begun = tick.begun
      /\ next \notin {"push", "pull"}
  <2>1. /\ tick' \in Tick /\ tick'.phase = next /\ tick'.page = << >> /\ tick'.looked = FALSE
        /\ next # "idle" => tick'.begun = tick.begun
    <3>1. k = tick.phase /\ next = Following[k] /\ tick.phase # "idle" /\ EnterNext
      OBVIOUS
    <3> QED
      BY ONLY <1>1, <3>1, PhaseEnds
  <2> QED
    BY <2>1, SourceAndTarget
<1>3. SyncTypeOK'
  BY <1>1, <1>2 DEF SyncTypeOK
<1>4. Times'
  <2>1. \A z \in Sites, q \in Rows : table'[z][q] <= last[q]
    <3> TAKE z \in Sites, q \in Rows
    <3>1. table[z][q] <= last[q] /\ last[q] \in Nat
      BY <1>1, TickTypes DEF SyncInv, Times
    <3>2. table'[z][q] \in {0, table[z][q]}
      OBVIOUS
    <3> QED
      BY <3>1, <3>2
  <2> QED
    BY <1>2, <2>1 DEF SyncInv, Times
<1>5. PageInv' /\ TickInv'
  BY <1>2 DEF PageInv, TickInv
<1>6. \A c, q : q \in Followed' => /\ q \in Followed /\ (Pending(c, q)' <=> Pending(c, q))
                                  /\ table'[Source(c)][q] = table[Source(c)][q]
  BY SourceAndTarget DEF Pending, Followed
<1>7. PendingInv'
  BY <1>6 DEF SyncInv, PendingInv, Since
<1>8. CalmInv'
  BY <1>6 DEF SyncInv, CalmInv
<1>9. NewestVersionSurvives'
  BY DEF SyncInv, NewestVersionSurvives
<1> QED
  BY <1>3, <1>4, <1>5, <1>7, <1>8, <1>9 DEF SyncInv

\* Deletions are replayed, of rows that somebody has deleted.
LEMMA ReplayDeletionsInv ==
  ASSUME SyncInv, ReplayDeletions
  PROVE  SyncInv'
<1> PICK k, s, t : k = tick.phase /\ s = Source(k) /\ t = Target(k)
  OBVIOUS
<1>0. Oldest \subseteq SUBSET tombstones[s]
  BY DEF Oldest
<1>1. PICK oldest \in SUBSET tombstones[s] :
        /\ table' = [table EXCEPT ![t] = [r \in Rows |-> IF \E d \in oldest : d.row = r THEN 0 ELSE @[r]]]
        /\ \/ oldest = {} /\ UNCHANGED checkpoint
           \/ \E d \in oldest : checkpoint' = [checkpoint EXCEPT ![k] = d.at]
  <2>1. PICK oldest \in Oldest :
          /\ table' = [table EXCEPT ![t] = [r \in Rows |-> IF \E d \in oldest : d.row = r THEN 0 ELSE @[r]]]
          /\ \/ oldest = {} /\ UNCHANGED checkpoint
             \/ \E d \in oldest : /\ \A e \in oldest : e.at <= d.at
                                  /\ checkpoint' = [checkpoint EXCEPT ![k] = d.at]
    BY Zenon DEF ReplayDeletions
  <2> QED
    BY ONLY <1>0, <2>1
<1>2. /\ k \in {"delpush", "delpull"} /\ EnterNext
      /\ UNCHANGED <<tombstones, last, deleted, clobbered, misstamped, lapsed, calm, clock>>
  BY DEF ReplayDeletions
<1>3. /\ SyncTypeOK /\ s \in Sites /\ t \in Sites /\ table \in [Sites -> [Rows -> Nat]]
      /\ checkpoint \in [DOMAIN Following -> Nat] /\ k \in DOMAIN Following /\ calm \in BOOLEAN
  BY <1>2, SourceAndTarget DEF SyncInv, SyncTypeOK
<1>4. \A d \in oldest : d.row \in deleted /\ d.at \in Nat /\ d.at <= clock
  BY <1>3 DEF SyncInv, Times, SyncTypeOK, Version
<1> PICK gone : gone = [r \in Rows |-> IF \E d \in oldest : d.row = r THEN 0 ELSE table[t][r]]
  OBVIOUS
<1>5. gone \in [Rows -> Nat] /\ \A q \in Rows : /\ gone[q] \in {0, table[t][q]}
                                             /\ q \notin deleted => gone[q] = table[t][q]
  <2>1. \A q \in Rows : table[t][q] \in Nat
    BY <1>3
  <2> QED
    BY <1>4, <2>1
<1>6. table' = [table EXCEPT ![t] = gone]
  BY <1>1
<1>7. /\ table' \in [Sites -> [Rows -> Nat]]
      /\ \A z \in Sites, q \in Rows : table'[z][q] \in {0, table[z][q]}
      /\ \A z \in Sites, q \in Rows \ deleted : table'[z][q] = table[z][q]
  BY <1>3, <1>5, <1>6
<1>8. /\ checkpoint' \in [DOMAIN Following -> Nat]
      /\ \A c \in {"push", "pull"} : checkpoint'[c] = checkpoint[c]
      /\ \A c \in DOMAIN Following : checkpoint'[c] <= clock
  <2>1. \A c \in DOMAIN Following : checkpoint[c] <= clock
    BY DEF SyncInv, Times
  <2>2. CASE UNCHANGED checkpoint
    BY <1>3, <2>1, <2>2
  <2>3. ASSUME NEW n \in Nat, n <= clock, checkpoint' = [checkpoint EXCEPT ![k] = n]
        PROVE  /\ checkpoint' \in [DOMAIN Following -> Nat]
               /\ \A c \in {"push", "pull"} : checkpoint'[c] = checkpoint[c]
               /\ \A c \in DOMAIN Following : checkpoint'[c] <= clock
    BY <1>2, <1>3, <2>1, <2>3, SourceAndTarget
  <2> QED
    BY <1>1, <1>4, <2>2, <2>3
<1> QED
  BY <1>2, <1>3, <1>7, <1>8, DeletionsInv

\* The other side refuses them.
LEMMA FailDeletionsInv ==
  ASSUME SyncInv, FailDeletions
  PROVE  SyncInv'
<1>1. /\ tick.phase \in {"delpush", "delpull"} /\ EnterNext /\ calm' = FALSE
      /\ UNCHANGED <<table, tombstones, checkpoint, last, deleted, clobbered, misstamped, lapsed, clock>>
  BY DEF FailDeletions
<1>2. /\ table \in [Sites -> [Rows -> Nat]] /\ checkpoint \in [DOMAIN Following -> Nat]
      /\ \A k \in DOMAIN Following : checkpoint[k] <= clock
  BY DEF SyncInv, SyncTypeOK, Times
<1>3. \A z \in Sites, q \in Rows : table'[z][q] \in {0, table[z][q]}
  BY <1>1
<1>4. /\ \A z \in Sites, q \in Rows \ deleted : table'[z][q] = table[z][q]
      /\ \A k \in {"push", "pull"} : checkpoint'[k] = checkpoint[k]
      /\ calm' \in BOOLEAN /\ (calm' => calm)
  BY <1>1
<1> QED
  BY <1>1, <1>2, <1>3, <1>4, DeletionsInv

\* Nothing else changes what is synchronised.
LEMMA SyncUnchanged ==
  ASSUME SyncInv, UNCHANGED syncVars
  PROVE  SyncInv'
BY DEF syncVars, SyncInv, SyncTypeOK, Times, PageInv, PendingInv, TickInv, CalmInv,
       NewestVersionSurvives, Pending, DueNow, Followed, Since

\* What is pending at the one site is in the window of the next tick or on the
\* way in this one, whatever users, pages, failures and ticks come between
\* (SyncService.tick, pushModel, pullModel, upsertRow).
THEOREM SyncInvariant == SyncSpec => []SyncInv
<1>1. SyncInit => SyncInv
  BY SyncInitInv
<1>2. SyncInv /\ [SyncNext]_syncVars => SyncInv'
  <2> SUFFICES ASSUME SyncInv, [SyncNext]_syncVars PROVE SyncInv'
    OBVIOUS
  <2>1. CASE Pass
    BY <2>1, PassInv
  <2>2. CASE BeginTick
    BY <2>2, BeginTickInv
  <2>3. CASE ReadPage
    BY <2>3, ReadPageInv
  <2>4. CASE LookAtTarget
    BY <2>4, LookAtTargetInv
  <2>5. CASE CopyRow
    BY <2>5, CopyRowInv
  <2>6. CASE FailCopy
    BY <2>6, FailCopyInv
  <2>7. CASE ReplayDeletions
    BY <2>7, ReplayDeletionsInv
  <2>8. CASE FailDeletions
    BY <2>8, FailDeletionsInv
  <2>9. CASE AbortTick
    BY <2>9, AbortTickInv
  <2>10. ASSUME NEW s \in Sites, NEW r \in Rows, Write(s, r) PROVE SyncInv'
    BY <2>10, WriteInv
  <2>11. ASSUME NEW s \in Sites, NEW r \in Rows, Delete(s, r) PROVE SyncInv'
    BY <2>11, DeleteInv
  <2>12. CASE UNCHANGED syncVars
    BY <2>12, SyncUnchanged
  <2> QED
    BY <2>1, <2>2, <2>3, <2>4, <2>5, <2>6, <2>7, <2>8, <2>9, <2>10, <2>11, <2>12 DEF SyncNext, Work, Use
<1> QED
  BY <1>1, <1>2, PTL DEF SyncSpec

\* A tick that nobody disturbs leaves both sites with the same versions.
LEMMA CalmTicksHaveCopied ==
  ASSUME SyncInv
  PROVE  CalmTicksConverge
<1> SUFFICES ASSUME tick.phase = "idle", calm, NEW r \in Followed
             PROVE  table["factory"][r] = table["cloud"][r]
  BY DEF CalmTicksConverge, Followed
<1>1. ~Pending("push", r) /\ ~Pending("pull", r)
  BY DEF SyncInv, CalmInv
<1>2. table["factory"][r] \in Nat /\ table["cloud"][r] \in Nat
  BY TickTypes DEF SyncInv, Sites, Followed
<1> QED
  BY <1>1, <1>2 DEF Pending, Source, Target

\* The newest version of a row is kept at one of the sites, but for a row written
\* just between upsertRow's read and its write, and a tick that nobody disturbs
\* leaves both sites alike (SyncService, "last-writer-wins", OVERLAP_MS).
THEOREM NewestVersionsReachBoth == SyncSpec => []VersionsAreKept
<1>1. SyncInv => VersionsAreKept
  BY CalmTicksHaveCopied DEF SyncInv, VersionsAreKept
<1> QED
  BY <1>1, SyncInvariant, PTL

-----------------------------------------------------------------------------
(* Leave requests *)

\* What a row counts for in a month of an employee, and all rows together.
Counted(row, e, m) ==
  IF Approved(row) /\ row.who = e /\ MonthOf[row.span[1]] = m THEN row.span[2] - row.span[1] + 1
  ELSE 0
Counts(rows, e, m) == [x \in Leaves |-> Counted(rows[x], e, m)]
Total(rows, e, m) == SumFunctionOnSet(Counts(rows, e, m), Leaves)

Inputs == [Employees -> [Months -> MonthInput]]
Filed == LeaveRow \cup {NoLeave}

\* A payroll input that is not there yet shows nothing.
ZeroUntilThere(in) ==
  \A e \in Employees, m \in Months : ~in[e][m].there => in[e][m].days = 0

\* What a request has read, and has looked for, holds as far as nobody has been in
\* its way.
DeskOK(p) ==
  LET d == desk[p]
  IN  /\ d.op \in {"change", "write", "remove", "restore"} =>
           /\ d.at \in Leaves /\ d.read \in LeaveRow
           /\ leave[d.at] # NoLeave \/ archive[d.at] # NoLeave
      /\ d.op \in {"change", "write"} => d.change \in Change
      /\ d.op = "create" => Len(d.news) \in {1, 2}
      /\ d.op # "create" => d.news = << >>
      /\ \A i \in DOMAIN d.news :
           /\ leave[d.news[i].id] = NoLeave /\ archive[d.news[i].id] = NoLeave
           /\ d.news[i].row.who \notin overlaid => NoOverlap(d.news[i].row, {})
           /\ \A j \in DOMAIN d.news : j < i =>
                /\ d.news[j].id # d.news[i].id
                /\ Approved(d.news[j].row) => ~Clash(d.news[j].row, d.news[i].row)
      /\ d.op = "write" /\ With(d.read, d.change).who \notin overlaid =>
           NoOverlap(With(d.read, d.change), {d.at})

\* No two requests create the same row.
NewsApart ==
  \A p, q \in DeskClerks : p # q =>
    \A i \in DOMAIN desk[p].news, j \in DOMAIN desk[q].news :
      desk[p].news[i].id # desk[q].news[j].id

LeavesApart ==
  \A x, y \in Leaves :
    x # y /\ Approved(leave[x]) /\ Approved(leave[y]) /\ leave[x].who \notin overlaid =>
      ~Clash(leave[x], leave[y])

InputsAreTotals ==
  \A e \in Employees \ skewed, m \in Months : input[e][m].days = Total(leave, e, m)

LeavesInv ==
  /\ LeavesTypeOK
  /\ ZeroUntilThere(input)
  /\ InputsAreTotals
  /\ \A p \in DeskClerks : DeskOK(p)
  /\ NewsApart
  /\ LeavesApart

\* Spans have their days and their month.
LEMMA SpanTypes ==
  \A s \in Spans : s[1] \in Int /\ s[2] \in Int /\ s[1] <= s[2] /\ MonthOf[s[1]] \in Months
BY SpansAssumption DEF Months

\* A row counts for its employee in its month, if it is approved.
LEMMA RowCounts ==
  ASSUME NEW row \in Filed, NEW e, NEW m
  PROVE  /\ Counted(row, e, m) \in Nat
         /\ row \in LeaveRow => /\ row.who \in Employees /\ row.span \in Spans
                                /\ MonthOf[row.span[1]] \in Months /\ Effect(row) \in Nat
         /\ row \in LeaveRow /\ row.who = e /\ m = MonthOf[row.span[1]] => Counted(row, e, m) = Effect(row)
         /\ row \in LeaveRow /\ ~(row.who = e /\ m = MonthOf[row.span[1]]) => Counted(row, e, m) = 0
         /\ row = NoLeave => Counted(row, e, m) = 0
<1>1. CASE row = NoLeave
  BY <1>1, NoRowAssumption DEF Counted, Approved
<1>2. CASE row \in LeaveRow
  <2>1. row.who \in Employees /\ row.span \in Spans /\ row # NoLeave
    BY <1>2, NoRowAssumption DEF LeaveRow
  <2>2. PICK s \in Spans : s = row.span
    BY <2>1
  <2>3. s[1] \in Int /\ s[2] \in Int /\ s[1] <= s[2] /\ MonthOf[s[1]] \in Months
    BY SpanTypes
  <2>4. s[2] - s[1] + 1 \in Nat
    BY <2>3
  <2>5. Effect(row) = IF row.status = "APPROVED" THEN s[2] - s[1] + 1 ELSE 0
    BY <2>2 DEF Effect
  <2>6. Counted(row, e, m) = IF row.status = "APPROVED" /\ row.who = e /\ MonthOf[s[1]] = m
                             THEN s[2] - s[1] + 1 ELSE 0
    BY <2>1, <2>2 DEF Counted, Approved
  <2> QED
    BY <2>1, <2>2, <2>3, <2>4, <2>5, <2>6
<1> QED
  BY <1>1, <1>2 DEF Filed

RowPut(new, rows, x, row) == new = [rows EXCEPT ![x] = row]

\* A total changes with a row as the row's count does, and is no less than it.
LEMMA TotalChanges ==
  ASSUME NEW rows \in [Leaves -> Filed], NEW x \in Leaves, NEW row \in Filed,
         NEW new, RowPut(new, rows, x, row), NEW e, NEW m
  PROVE  /\ Total(new, e, m) = Total(rows, e, m) - Counted(rows[x], e, m) + Counted(row, e, m)
         /\ Total(rows, e, m) \in Nat /\ Total(rows, e, m) >= Counted(rows[x], e, m)
<1> PICK f, g : f = Counts(rows, e, m) /\ g = Counts(new, e, m)
  OBVIOUS
<1>1. /\ \A y \in Leaves : f[y] = Counted(rows[y], e, m) /\ f[y] \in Nat
      /\ \A y \in Leaves : g[y] = Counted(new[y], e, m) /\ g[y] \in Nat
  BY RowCounts DEF Counts, RowPut
<1>2. f[x] = Counted(rows[x], e, m) /\ g[x] = Counted(row, e, m) /\ \A y \in Leaves \ {x} : f[y] = g[y]
  BY <1>1 DEF RowPut
<1>3. IsFiniteSet(Leaves)
  BY LeavesAssumption
<1>4. \A y \in Leaves : f[y] \in Int /\ g[y] \in Int
  BY ONLY <1>1
<1>5. SumFunctionOnSet(g, Leaves) = SumFunctionOnSet(f, Leaves) - f[x] + g[x]
  BY ONLY <1>2, <1>3, <1>4, x \in Leaves, SumChangesOnce
<1>6. SumFunctionOnSet(f, Leaves) \in Nat
  BY ONLY <1>1, <1>3, SumIsNat
<1>7. SumFunctionOnSet(f, Leaves) = f[x] + SumFunctionOnSet(f, Leaves \ {x})
  BY ONLY <1>3, <1>4, x \in Leaves, SumTakesAny
<1>8. SumFunctionOnSet(f, Leaves \ {x}) \in Nat
  <2>1. IsFiniteSet(Leaves \ {x}) /\ \A y \in Leaves \ {x} : f[y] \in Nat
    BY <1>1, <1>3, FS_Subset
  <2> QED
    BY <2>1, SumIsNat
<1>9. f[x] \in Nat
  BY <1>1
<1>10. Total(rows, e, m) = SumFunctionOnSet(f, Leaves) /\ Total(new, e, m) = SumFunctionOnSet(g, Leaves)
  BY DEF Total
<1> QED
  BY ONLY <1>2, <1>5, <1>6, <1>7, <1>8, <1>9, <1>10

Adjusted(in, new, e, k, n) ==
  /\ new \in Inputs /\ ZeroUntilThere(new)
  /\ \A f \in Employees, m \in Months :
       ~(f = e /\ m = k) => new[f][m].days = in[f][m].days
  /\ n >= 0 \/ in[e][k].days # 0 => new[e][k].days = in[e][k].days + n

\* An input changes in the month of the span, by n unless it is not there and n is
\* negative.
LEMMA InputChanges ==
  ASSUME NEW in \in Inputs, ZeroUntilThere(in), NEW e \in Employees, NEW s \in Spans,
         NEW n \in Int, NEW new, new = InputAfter(in, e, s, n), NEW k, k = MonthOf[s[1]]
  PROVE  Adjusted(in, new, e, k, n)
<1>1. k \in Months
  BY SpanTypes
<1>2. \A f \in Employees, m \in Months :
        /\ in[f] \in [Months -> MonthInput] /\ in[f][m] \in MonthInput
        /\ in[f][m].there \in BOOLEAN /\ in[f][m].days \in Int
        /\ ~in[f][m].there => in[f][m].days = 0
  BY DEF Inputs, MonthInput, ZeroUntilThere
<1>3. CASE n = 0
  <2>1. new = in
    BY <1>3 DEF InputAfter
  <2> QED
    BY <1>1, <1>2, <1>3, <2>1 DEF Adjusted
<1>4. CASE n # 0
  <2> PICK old, days, cell, row :
        /\ old = in[e][k]
        /\ days = IF old.there THEN old.days + n ELSE IF n > 0 THEN n ELSE 0
        /\ cell = [there |-> TRUE, days |-> days]
        /\ row = [in[e] EXCEPT ![k] = cell]
    OBVIOUS
  <2>1. old.days \in Int /\ days \in Int /\ (~old.there => old.days = 0)
    BY <1>1, <1>2
  <2>2. cell \in MonthInput /\ cell.there = TRUE /\ cell.days = days
    BY <2>1 DEF MonthInput
  <2>3. new = [in EXCEPT ![e] = row]
    BY <1>4 DEF InputAfter
  <2>4. row \in [Months -> MonthInput] /\ row[k] = cell /\ \A m \in Months \ {k} : row[m] = in[e][m]
    BY <1>1, <1>2, <2>2
  <2>5. new \in Inputs /\ new[e] = row /\ \A f \in Employees \ {e} : new[f] = in[f]
    <3>1. in \in [Employees -> [Months -> MonthInput]]
      BY DEF Inputs
    <3>2. /\ new \in [Employees -> [Months -> MonthInput]] /\ new[e] = row
          /\ \A f \in Employees \ {e} : new[f] = in[f]
      BY ONLY <2>3, <2>4, <3>1, e \in Employees
    <3> QED
      BY <3>2 DEF Inputs
  <2>6. new[e][k] = cell /\ \A f \in Employees, m \in Months : ~(f = e /\ m = k) => new[f][m] = in[f][m]
    BY <2>4, <2>5
  <2>7. ZeroUntilThere(new)
    BY <1>2, <2>2, <2>6 DEF ZeroUntilThere
  <2>8. n >= 0 \/ old.days # 0 => days = old.days + n
    BY <2>1
  <2> QED
    BY <2>2, <2>5, <2>6, <2>7, <2>8 DEF Adjusted
<1> QED
  BY <1>3, <1>4

WithEffect(in, new, row) == new = InputAfter(in, row.who, row.span, Effect(row))
Gained(in, new, row) ==
  /\ new \in Inputs /\ ZeroUntilThere(new)
  /\ \A e \in Employees, m \in Months :
       new[e][m].days = in[e][m].days + Counted(row, e, m)

\* The effect of a row is added to what it counts for...
LEMMA EffectAdded ==
  ASSUME NEW in \in Inputs, ZeroUntilThere(in), NEW row \in LeaveRow,
         NEW new, WithEffect(in, new, row)
  PROVE  Gained(in, new, row)
<1> PICK who, span, k, n : /\ who = row.who /\ span = row.span /\ k = MonthOf[span[1]]
                           /\ n = Effect(row)
  OBVIOUS
<1>1. row \in Filed
  BY DEF Filed
<1>2. /\ who \in Employees /\ span \in Spans /\ n \in Nat /\ n \in Int /\ n >= 0 /\ k \in Months
      /\ \A e, m : Counted(row, e, m) = IF e = who /\ m = k THEN n ELSE 0
  BY <1>1, RowCounts
<1>3. in \in Inputs /\ ZeroUntilThere(in) /\ new = InputAfter(in, who, span, n)
  BY DEF WithEffect
<1>4. Adjusted(in, new, who, k, n)
  BY ONLY <1>2, <1>3, k = MonthOf[span[1]], InputChanges
<1>5. \A e \in Employees, m \in Months : in[e][m].days \in Int
  BY DEF Inputs, MonthInput
<1> QED
  BY <1>2, <1>4, <1>5 DEF Adjusted, Gained

\* ...and taken back from it, if it was there.
LEMMA EffectTaken ==
  ASSUME NEW in \in Inputs, ZeroUntilThere(in), NEW row \in LeaveRow,
         NEW who \in Employees,
         NEW new, new = InputAfter(in, who, row.span, -Effect(row))
  PROVE  /\ new \in Inputs /\ ZeroUntilThere(new)
         /\ \A e \in Employees \ {who}, m \in Months : new[e][m].days = in[e][m].days
         /\ \A m \in Months :
              who = row.who /\ in[who][m].days >= Counted(row, who, m) =>
                new[who][m].days = in[who][m].days - Counted(row, who, m)
<1> PICK span, k, n : span = row.span /\ k = MonthOf[span[1]] /\ n = -Effect(row)
  OBVIOUS
<1>1. row \in Filed
  BY DEF Filed
<1>2. /\ span \in Spans /\ n \in Int /\ n <= 0 /\ k \in Months
      /\ who = row.who => \A m : Counted(row, who, m) = IF m = k THEN 0 - n ELSE 0
  BY <1>1, RowCounts
<1>3. in \in Inputs /\ ZeroUntilThere(in) /\ new = InputAfter(in, who, span, n) /\ who \in Employees
  OBVIOUS
<1>4. Adjusted(in, new, who, k, n)
  BY ONLY <1>2, <1>3, k = MonthOf[span[1]], InputChanges
<1>5. \A m \in Months : in[who][m].days \in Int
  BY DEF Inputs, MonthInput
<1>6. ASSUME NEW m \in Months, who = row.who, in[who][m].days >= Counted(row, who, m)
      PROVE  new[who][m].days = in[who][m].days - Counted(row, who, m)
  <2>1. CASE m = k
    BY <1>2, <1>4, <1>5, <1>6, <2>1 DEF Adjusted
  <2>2. CASE m # k
    BY <1>2, <1>4, <1>5, <1>6, <2>2 DEF Adjusted
  <2> QED
    BY <2>1, <2>2
<1> QED
  BY <1>2, <1>4, <1>6 DEF Adjusted

\* A row with a change of one of its fields.
LEMMA WithIsRow ==
  ASSUME NEW row \in LeaveRow, NEW change \in Change
  PROVE  With(row, change) \in LeaveRow
<1>1. \/ change.field = "status" /\ change.to \in Decisions
      \/ change.field = "who" /\ change.to \in Employees
      \/ change.field = "span" /\ change.to \in Spans
  BY DEF Change
<1> PICK to : to = change.to
  OBVIOUS
<1>2. CASE change.field = "status" /\ to \in Decisions
  BY <1>2 DEF With, LeaveRow
<1>3. CASE change.field = "who" /\ to \in Employees
  BY <1>3 DEF With, LeaveRow
<1>4. CASE change.field = "span" /\ to \in Spans
  BY <1>4 DEF With, LeaveRow
<1> QED
  BY <1>1, <1>2, <1>3, <1>4

\* The types of what a request has read.
LEMMA DeskTypes ==
  ASSUME LeavesInv, NEW p \in DeskClerks, NEW d, d = desk[p]
  PROVE  /\ d \in Desk /\ DeskOK(p)
         /\ d.at \in Leaves \cup {NoLeave} /\ d.read \in Filed
         /\ d.news \in Seq(NewLeave) /\ DOMAIN d.news = 1..Len(d.news) /\ Len(d.news) \in Nat
         /\ \A i \in DOMAIN d.news : d.news[i].id \in Leaves /\ d.news[i].row \in LeaveRow
         /\ leave \in [Leaves -> Filed] /\ archive \in [Leaves -> Filed] /\ input \in Inputs
         /\ skewed \subseteq Employees /\ overlaid \subseteq Employees
         /\ desk \in [DeskClerks -> Desk]
<1>1. d \in Desk /\ DeskOK(p) /\ desk \in [DeskClerks -> Desk]
  BY DEF LeavesInv, LeavesTypeOK
<1>2. d.at \in Leaves \cup {NoLeave} /\ d.read \in Filed /\ d.news \in Seq(NewLeave)
  BY <1>1 DEF Desk, Filed
<1> PICK news : news = d.news
  OBVIOUS
<1>3. news \in Seq(NewLeave)
  BY <1>2
<1>4. DOMAIN news = 1..Len(news) /\ Len(news) \in Nat /\ \A i \in DOMAIN news : news[i] \in NewLeave
  BY ONLY <1>3
<1>5. \A i \in DOMAIN news : news[i].id \in Leaves /\ news[i].row \in LeaveRow
  BY <1>4 DEF NewLeave
<1>6. /\ leave \in [Leaves -> Filed] /\ archive \in [Leaves -> Filed] /\ input \in Inputs
      /\ skewed \subseteq Employees /\ overlaid \subseteq Employees
  BY DEF LeavesInv, LeavesTypeOK, Filed, Inputs
<1> QED
  BY <1>1, <1>2, <1>4, <1>5, <1>6

\* A request that has nothing.
LEMMA DesklessIsDesk ==
  /\ Deskless \in Desk /\ Deskless.op = "none" /\ Deskless.news = << >>
  /\ Deskless.at = NoLeave /\ Deskless.read = NoLeave /\ Deskless.change = NoChange
<1>1. << >> \in Seq(NewLeave) /\ NoChange \in Change \cup {NoChange}
  OBVIOUS
<1> PICK change : change = NoChange
  OBVIOUS
<1> QED
  BY <1>1 DEF Deskless, Desk

\* What has been looked for stays so for those for whom no other row appears.
LEMMA NoOverlapStays ==
  ASSUME NEW v, NEW X, NoOverlap(v, X),
         \A x \in Leaves : Approved(leave[x])' /\ leave'[x].who = v.who => leave'[x] = leave[x]
  PROVE  NoOverlap(v, X)'
<1> SUFFICES ASSUME NEW x \in Leaves \ X, Approved(leave'[x]), Clash(leave'[x], v)
             PROVE  FALSE
  BY DEF NoOverlap
<1>1. leave'[x] = leave[x]
  BY DEF Clash, Approved
<1> QED
  BY <1>1 DEF NoOverlap

\* A row that was there, or is archived, does not vanish.
NothingVanishes ==
  \A x \in Leaves : leave[x] # NoLeave \/ archive[x] # NoLeave =>
                      leave'[x] # NoLeave \/ archive'[x] # NoLeave

\* The rows that others are about to create stay as they are.
TheirNewsStay(p) ==
  \A q \in DeskClerks \ {p} : \A i \in DOMAIN desk[q].news :
    \A x : x = desk[q].news[i].id => leave'[x] = leave[x] /\ archive'[x] = archive[x]

\* No row appears for an employee for whom another has looked.
NoRivalAppears(p) ==
  \A q \in DeskClerks \ {p} : \A e \in LookedFor(desk[q]) \ overlaid', x \in Leaves :
    Approved(leave'[x]) /\ leave'[x].who = e => leave'[x] = leave[x]

\* The types of the files, and the marks, which are never taken away.
FilesTyped ==
  /\ leave' \in [Leaves -> Filed] /\ archive' \in [Leaves -> Filed]
  /\ input' \in Inputs /\ ZeroUntilThere(input')
  /\ skewed' \subseteq Employees /\ overlaid' \subseteq Employees /\ overlaid \subseteq overlaid'

\* The files change as request p ends: the others' reads stay right.
LEMMA FilesChange ==
  ASSUME LeavesInv, NEW p \in DeskClerks, DeskEnds(p),
         FilesTyped, NothingVanishes, TheirNewsStay(p), NoRivalAppears(p),
         InputsAreTotals', LeavesApart'
  PROVE  LeavesInv'
<1>1. /\ desk' \in [DeskClerks -> Desk] /\ desk'[p] = Deskless
      /\ \A q \in DeskClerks \ {p} : desk'[q] = desk[q]
  <2>1. desk \in [DeskClerks -> Desk] /\ desk' = [desk EXCEPT ![p] = Deskless]
    BY DeskTypes DEF DeskEnds
  <2> QED
    BY ONLY <2>1, DesklessIsDesk, p \in DeskClerks
<1>2. LeavesTypeOK'
  BY <1>1 DEF LeavesTypeOK, FilesTyped, Filed, Inputs
<1>3. DeskOK(p)'
  BY <1>1, DesklessIsDesk DEF DeskOK
<1>4. ASSUME NEW q \in DeskClerks \ {p}
      PROVE  DeskOK(q)'
  <2> PICK d : d = desk[q]
    OBVIOUS
  <2>1. desk'[q] = d /\ DeskOK(q)
    BY <1>1 DEF LeavesInv
  <2>2. /\ \A i \in DOMAIN d.news : d.news[i].id \in Leaves /\ d.news[i].row \in LeaveRow
        /\ d.at \in Leaves \cup {NoLeave} /\ d.read \in Filed
    BY DeskTypes
  <2>3. ASSUME NEW i \in DOMAIN d.news
        PROVE  /\ leave'[d.news[i].id] = NoLeave /\ archive'[d.news[i].id] = NoLeave
               /\ d.news[i].row.who \notin overlaid' => NoOverlap(d.news[i].row, {})'
    <3>1. leave'[d.news[i].id] = NoLeave /\ archive'[d.news[i].id] = NoLeave
      BY <2>1 DEF DeskOK, TheirNewsStay
    <3>2. ASSUME d.news[i].row.who \notin overlaid' PROVE NoOverlap(d.news[i].row, {})'
      <4>1. NoOverlap(d.news[i].row, {})
        BY <2>1, <3>2 DEF DeskOK, FilesTyped
      <4>2. d.op = "create"
        BY <2>1 DEF DeskOK
      <4>3. d.news[i].row.who \in LookedFor(d)
        BY <4>2 DEF LookedFor
      <4>4. \A x \in Leaves : Approved(leave[x])' /\ leave'[x].who = d.news[i].row.who =>
                                leave'[x] = leave[x]
        BY <3>2, <4>3 DEF NoRivalAppears, Approved
      <4> QED
        BY <4>1, <4>4, NoOverlapStays
    <3> QED
      BY <3>1, <3>2
  <2>4. ASSUME d.op = "write", With(d.read, d.change).who \notin overlaid'
        PROVE  NoOverlap(With(d.read, d.change), {d.at})'
    <3> PICK v : v = With(d.read, d.change)
      OBVIOUS
    <3>1. NoOverlap(v, {d.at})
      BY <2>1, <2>4 DEF DeskOK, FilesTyped
    <3>2. v.who \in LookedFor(d) \ overlaid'
      BY <2>4 DEF LookedFor
    <3>3. \A x \in Leaves : Approved(leave[x])' /\ leave'[x].who = v.who => leave'[x] = leave[x]
      BY <3>2 DEF NoRivalAppears, Approved
    <3> QED
      BY <3>1, <3>3, NoOverlapStays
  <2>5. d.op \in {"change", "write", "remove", "restore"} =>
          /\ d.at \in Leaves /\ d.read \in LeaveRow
          /\ leave'[d.at] # NoLeave \/ archive'[d.at] # NoLeave
    BY <2>1 DEF DeskOK, NothingVanishes
  <2>6. /\ d.op \in {"change", "write"} => d.change \in Change
        /\ d.op = "create" => Len(d.news) \in {1, 2}
        /\ d.op # "create" => d.news = << >>
        /\ \A i, j \in DOMAIN d.news : j < i =>
             /\ d.news[j].id # d.news[i].id
             /\ Approved(d.news[j].row) => ~Clash(d.news[j].row, d.news[i].row)
    BY <2>1 DEF DeskOK
  <2> QED
    BY <2>1, <2>3, <2>4, <2>5, <2>6 DEF DeskOK
<1>5. NewsApart'
  <2> SUFFICES ASSUME NEW q \in DeskClerks, NEW r \in DeskClerks, q # r,
                      NEW i \in DOMAIN desk'[q].news, NEW j \in DOMAIN desk'[r].news
               PROVE  desk'[q].news[i].id # desk'[r].news[j].id
    BY DEF NewsApart
  <2>1. q # p /\ r # p
    BY <1>1, DesklessIsDesk
  <2> QED
    BY <1>1, <2>1 DEF LeavesInv, NewsApart
<1> QED
  BY <1>2, <1>3, <1>4, <1>5 DEF LeavesInv, FilesTyped

\* A request reads, and the files stay.
LEMMA DeskChanges ==
  ASSUME LeavesInv, NEW p \in DeskClerks, InFiles, NEW d \in Desk, desk' = [desk EXCEPT ![p] = d],
         DeskOK(p)',
         \A q \in DeskClerks \ {p} : \A i \in DOMAIN d.news, j \in DOMAIN desk[q].news :
           d.news[i].id # desk[q].news[j].id
  PROVE  LeavesInv'
<1>1. /\ desk' \in [DeskClerks -> Desk] /\ desk'[p] = d
      /\ \A q \in DeskClerks \ {p} : desk'[q] = desk[q]
  BY DEF LeavesInv, LeavesTypeOK
<1>2. LeavesTypeOK'
  BY <1>1 DEF LeavesInv, LeavesTypeOK, InFiles
<1>3. \A q \in DeskClerks \ {p} : DeskOK(q)'
  BY <1>1 DEF LeavesInv, DeskOK, InFiles, NoOverlap
<1>4. NewsApart'
  BY <1>1 DEF LeavesInv, NewsApart
<1>5. InputsAreTotals' /\ LeavesApart' /\ ZeroUntilThere(input)'
  BY DEF LeavesInv, InputsAreTotals, LeavesApart, InFiles
<1> QED
  BY <1>2, <1>3, <1>4, <1>5 DEF LeavesInv

\* A request that reads, or ends, without writing.
LEMMA ReadsInv ==
  ASSUME LeavesInv, NEW p \in DeskClerks, InFiles, NEW d \in Desk, desk' = [desk EXCEPT ![p] = d],
         d.news = << >>, d.op \in {"none", "change", "remove", "restore"},
         d.op # "none" => /\ d.at \in Leaves /\ d.read \in LeaveRow
                          /\ leave[d.at] # NoLeave \/ archive[d.at] # NoLeave,
         d.op = "change" => d.change \in Change
  PROVE  LeavesInv'
<1>1. desk'[p] = d
  BY DEF LeavesInv, LeavesTypeOK
<1>2. DeskOK(p)'
  BY <1>1 DEF DeskOK, InFiles
<1>3. DOMAIN d.news = {}
  OBVIOUS
<1> QED
  BY <1>2, <1>3, DeskChanges

\* A request starts with what it has read of a leave.
LEMMA ReadForInv ==
  ASSUME LeavesInv, NEW p \in DeskClerks, NEW x \in Leaves,
         ReadForChange(p, x) \/ ReadForRemoval(p, x) \/ ReadForRestore(p, x)
  PROVE  LeavesInv'
<1>1. leave[x] \in Filed /\ archive[x] \in Filed
  BY DeskTypes
<1>2. CASE ReadForChange(p, x)
  <2> PICK change \in Change :
        Takes(p, [Deskless EXCEPT !.op = "change", !.at = x, !.read = leave[x], !.change = change])
    BY <1>2 DEF ReadForChange
  <2> PICK d : d = [Deskless EXCEPT !.op = "change", !.at = x, !.read = leave[x], !.change = change]
    OBVIOUS
  <2>1. leave[x] \in LeaveRow /\ leave[x] # NoLeave /\ InFiles
    BY <1>1, <1>2 DEF ReadForChange, Filed
  <2>2. /\ d \in Desk /\ d.news = << >> /\ d.op = "change" /\ d.at = x /\ d.read = leave[x]
        /\ d.change = change
    BY <2>1, DesklessIsDesk DEF Desk
  <2>3. desk' = [desk EXCEPT ![p] = d]
    BY DEF Takes
  <2> QED
    BY <2>1, <2>2, <2>3, ReadsInv
<1>3. CASE ReadForRemoval(p, x)
  <2> PICK d : d = [Deskless EXCEPT !.op = "remove", !.at = x, !.read = leave[x]]
    OBVIOUS
  <2>1. leave[x] \in LeaveRow /\ leave[x] # NoLeave /\ InFiles
    BY <1>1, <1>3 DEF ReadForRemoval, Filed
  <2>2. d \in Desk /\ d.news = << >> /\ d.op = "remove" /\ d.at = x /\ d.read = leave[x]
    BY <2>1, DesklessIsDesk DEF Desk
  <2>3. desk' = [desk EXCEPT ![p] = d]
    BY <1>3 DEF ReadForRemoval, Takes
  <2> QED
    BY <2>1, <2>2, <2>3, ReadsInv
<1>4. CASE ReadForRestore(p, x)
  <2> PICK d : d = [Deskless EXCEPT !.op = "restore", !.at = x, !.read = archive[x]]
    OBVIOUS
  <2>1. archive[x] \in LeaveRow /\ archive[x] # NoLeave /\ InFiles
    BY <1>1, <1>4 DEF ReadForRestore, Filed
  <2>2. d \in Desk /\ d.news = << >> /\ d.op = "restore" /\ d.at = x /\ d.read = archive[x]
    BY <2>1, DesklessIsDesk DEF Desk
  <2>3. desk' = [desk EXCEPT ![p] = d]
    BY <1>4 DEF ReadForRestore, Takes
  <2> QED
    BY <2>1, <2>2, <2>3, ReadsInv
<1> QED
  BY <1>2, <1>3, <1>4

\* A request on leaves that fails changes nothing that others rely on.
LEMMA FailLeaveInv ==
  ASSUME LeavesInv, NEW p \in DeskClerks, FailLeave(p)
  PROVE  LeavesInv'
BY DesklessIsDesk, ReadsInv DEF FailLeave, DeskEnds

\* New rows are looked for.
LEMMA CheckNewInv ==
  ASSUME LeavesInv, NEW p \in DeskClerks, CheckNew(p)
  PROVE  LeavesInv'
<1>1. PICK n, news :
        /\ n \in {1, 2} /\ news \in [1 .. n -> NewLeave]
        /\ \A i \in 1 .. n :
             /\ leave[news[i].id] = NoLeave /\ archive[news[i].id] = NoLeave
             /\ \A q \in DeskClerks : \A j \in DOMAIN desk[q].news : desk[q].news[j].id # news[i].id
             /\ NoOverlap(news[i].row, {})
             /\ \A j \in 1 .. i - 1 :
                  /\ news[j].id # news[i].id
                  /\ Approved(news[j].row) => ~Clash(news[j].row, news[i].row)
        /\ Takes(p, [Deskless EXCEPT !.op = "create", !.news = news])
        /\ InFiles
  BY DEF CheckNew
<1>2. news \in Seq(NewLeave) /\ DOMAIN news = 1 .. n /\ Len(news) = n
  BY ONLY <1>1
<1> PICK d : d = [Deskless EXCEPT !.op = "create", !.news = news]
  OBVIOUS
<1>3. d \in Desk /\ d.op = "create" /\ d.news = news
  BY <1>2, DesklessIsDesk DEF Desk
<1>4. desk' = [desk EXCEPT ![p] = d] /\ InFiles
  BY <1>1 DEF Takes
<1>5. desk'[p] = d
  BY <1>4 DEF LeavesInv, LeavesTypeOK
<1>6. \A i, j \in 1 .. n : j < i => j \in 1 .. i - 1
  OBVIOUS
<1>7. DeskOK(p)'
  <2>1. ASSUME NEW i \in DOMAIN news
        PROVE  /\ leave'[news[i].id] = NoLeave /\ archive'[news[i].id] = NoLeave
               /\ NoOverlap(news[i].row, {})'
               /\ \A j \in DOMAIN news : j < i =>
                    /\ news[j].id # news[i].id
                    /\ Approved(news[j].row) => ~Clash(news[j].row, news[i].row)
    BY <1>1, <1>2, <1>6 DEF InFiles, NoOverlap
  <2>2. desk'[p].op = "create" /\ desk'[p].news = news /\ Len(news) \in {1, 2}
    BY <1>1, <1>2, <1>3, <1>5
  <2> QED
    BY <2>1, <2>2 DEF DeskOK
<1>8. \A q \in DeskClerks \ {p} : \A i \in DOMAIN d.news, j \in DOMAIN desk[q].news :
        d.news[i].id # desk[q].news[j].id
  BY <1>1, <1>2, <1>3
<1> QED
  BY <1>3, <1>4, <1>7, <1>8, DeskChanges

\* A change is looked for.
LEMMA CheckChangeInv ==
  ASSUME LeavesInv, NEW p \in DeskClerks, CheckChange(p)
  PROVE  LeavesInv'
<1> PICK d, new : d = desk[p] /\ new = [d EXCEPT !.op = "write"]
  OBVIOUS
<1>1. /\ d.op = "change" /\ NoOverlap(With(d.read, d.change), {d.at})
      /\ desk' = [desk EXCEPT ![p].op = "write"] /\ InFiles
  BY DEF CheckChange
<1>2. d \in Desk /\ DeskOK(p)
  BY DeskTypes
<1>3. /\ new \in Desk /\ new.op = "write" /\ new.at = d.at /\ new.read = d.read
      /\ new.change = d.change /\ new.news = d.news
  BY <1>2 DEF Desk
<1>4. desk' = [desk EXCEPT ![p] = new] /\ desk'[p] = new
  BY <1>1 DEF LeavesInv, LeavesTypeOK
<1>5. d.news = << >>
  BY <1>1, <1>2 DEF DeskOK
<1>6. NoOverlap(With(d.read, d.change), {d.at})'
  BY <1>1 DEF InFiles, NoOverlap
<1>7. /\ d.at \in Leaves /\ d.read \in LeaveRow /\ d.change \in Change
      /\ leave'[d.at] # NoLeave \/ archive'[d.at] # NoLeave
  BY <1>1, <1>2 DEF DeskOK, InFiles
<1>8. DeskOK(p)'
  <2>1. /\ desk'[p].op = "write" /\ desk'[p].at = d.at /\ desk'[p].read = d.read
        /\ desk'[p].change = d.change /\ desk'[p].news = << >>
    BY <1>3, <1>4, <1>5
  <2> QED
    BY <1>6, <1>7, <2>1 DEF DeskOK
<1>9. DOMAIN new.news = {}
  BY <1>3, <1>5
<1> QED
  BY <1>1, <1>3, <1>4, <1>8, <1>9, DeskChanges

\* A row that takes days of an employee was looked for, and nobody else has looked
\* for that employee, or the employee is overlaid.
RowLookedFor(p, x, row) ==
  Approved(row) /\ row # leave[x] /\ row.who \notin overlaid' =>
    /\ NoOverlap(row, {x})
    /\ \A q \in DeskClerks \ {p} : row.who \notin LookedFor(desk[q])

RowsPut(x, row, old) ==
  leave' = [leave EXCEPT ![x] = row] /\ archive' = [archive EXCEPT ![x] = old]

\* One row changes as request p ends.
LEMMA OneRowChanges ==
  ASSUME LeavesInv, NEW p \in DeskClerks, DeskEnds(p), NEW x \in Leaves,
         leave[x] # NoLeave \/ archive[x] # NoLeave,
         NEW row \in Filed, NEW old \in Filed, row # NoLeave \/ old # NoLeave,
         RowsPut(x, row, old),
         input' \in Inputs /\ ZeroUntilThere(input'),
         skewed' \subseteq Employees /\ overlaid' \subseteq Employees /\ overlaid \subseteq overlaid',
         RowLookedFor(p, x, row), InputsAreTotals'
  PROVE  LeavesInv'
<1>1. leave \in [Leaves -> Filed] /\ archive \in [Leaves -> Filed]
  BY DeskTypes
<1>2. /\ leave' \in [Leaves -> Filed] /\ archive' \in [Leaves -> Filed]
      /\ leave'[x] = row /\ archive'[x] = old
      /\ \A y \in Leaves \ {x} : leave'[y] = leave[y] /\ archive'[y] = archive[y]
  BY <1>1 DEF RowsPut
<1>3. \A y \in Leaves : leave[y] # NoLeave \/ archive[y] # NoLeave =>
                          leave'[y] # NoLeave \/ archive'[y] # NoLeave
  BY <1>2
<1>4. ASSUME NEW q \in DeskClerks \ {p}, NEW i \in DOMAIN desk[q].news, NEW y, y = desk[q].news[i].id
      PROVE  leave'[y] = leave[y] /\ archive'[y] = archive[y]
  <2>1. leave[y] = NoLeave /\ archive[y] = NoLeave
    BY <1>4 DEF LeavesInv, DeskOK
  <2>2. y \in Leaves
    BY <1>4, DeskTypes
  <2> QED
    BY <1>2, <2>1, <2>2
<1>5. ASSUME NEW q \in DeskClerks \ {p}, NEW e \in LookedFor(desk[q]) \ overlaid', NEW y \in Leaves,
             Approved(leave[y])', leave'[y].who = e
      PROVE  leave'[y] = leave[y]
  <2>1. CASE y = x
    BY <1>2, <1>5, <2>1 DEF Approved, RowLookedFor
  <2>2. CASE y # x
    BY <1>2, <2>2
  <2> QED
    BY <2>1, <2>2
<1>6. LeavesApart'
  <2> SUFFICES ASSUME NEW y \in Leaves, NEW z \in Leaves, y # z,
                      Approved(leave'[y]), Approved(leave'[z]), leave'[y].who \notin overlaid',
                      Clash(leave'[y], leave'[z])
               PROVE  FALSE
    BY DEF LeavesApart, Approved
  <2>1. leave'[y].who = leave'[z].who /\ Clash(leave'[z], leave'[y])
    BY DEF Clash, Meet
  <2>2. CASE leave'[y] = leave[y] /\ leave'[z] = leave[z]
    BY <2>2 DEF LeavesInv, LeavesApart
  <2>3. CASE leave'[y] # leave[y]
    <3>1. y = x /\ leave'[z] = leave[z]
      BY <1>2, <2>3
    <3>2. NoOverlap(row, {x})
      BY <1>2, <2>3, <3>1 DEF RowLookedFor
    <3> QED
      BY <1>2, <2>1, <3>1, <3>2 DEF NoOverlap
  <2>4. CASE leave'[z] # leave[z]
    <3>1. z = x /\ leave'[y] = leave[y]
      BY <1>2, <2>4
    <3>2. NoOverlap(row, {x})
      BY <1>2, <2>1, <2>4, <3>1 DEF RowLookedFor
    <3> QED
      BY <1>2, <3>1, <3>2 DEF NoOverlap
  <2> QED
    BY <2>2, <2>3, <2>4
<1>7. FilesTyped /\ NothingVanishes /\ TheirNewsStay(p) /\ NoRivalAppears(p)
  BY <1>2, <1>3, <1>4, <1>5 DEF FilesTyped, NothingVanishes, TheirNewsStay, NoRivalAppears, Approved
<1>8. LeavesInv /\ DeskEnds(p) /\ p \in DeskClerks /\ InputsAreTotals'
  OBVIOUS
<1> QED
  BY ONLY <1>6, <1>7, <1>8, FilesChange

\* Nobody else has looked for an employee who is not overlaid.
LEMMA NoRivals ==
  ASSUME NEW p, NEW E, NEW e \in E, e \notin Rivalled(p, E)
  PROVE  \A q \in DeskClerks \ {p} : e \notin LookedFor(desk[q])
BY DEF Rivalled

\* A leave is removed, and its effect with it.
LEMMA RemoveLeaveInv ==
  ASSUME LeavesInv, NEW p \in DeskClerks, RemoveLeave(p)
  PROVE  LeavesInv'
<1> PICK d, x, read : d = desk[p] /\ x = d.at /\ read = d.read
  OBVIOUS
<1>1. /\ d.op = "remove" /\ leave[x] # NoLeave
      /\ archive' = [archive EXCEPT ![x] = read] /\ leave' = [leave EXCEPT ![x] = NoLeave]
      /\ input' = InputAfter(input, read.who, read.span, -Effect(read))
      /\ skewed' = IF leave[x] # read THEN skewed \cup {read.who, leave[x].who} ELSE skewed
      /\ DeskEnds(p) /\ overlaid' = overlaid
  BY DEF RemoveLeave
<1>2. x \in Leaves /\ read \in LeaveRow /\ read \in Filed /\ read # NoLeave
  BY <1>1, DeskTypes, NoRowAssumption DEF DeskOK, Filed
<1>3. /\ leave \in [Leaves -> Filed] /\ leave[x] \in LeaveRow /\ leave[x] \in Filed
      /\ input \in Inputs /\ ZeroUntilThere(input)
      /\ skewed \subseteq Employees /\ overlaid \subseteq Employees
      /\ NoLeave \in Filed
  BY <1>1, <1>2, DeskTypes DEF LeavesInv, Filed
<1>4. read.who \in Employees /\ leave[x].who \in Employees
  BY <1>2, <1>3, RowCounts
<1>5. /\ input' \in Inputs /\ ZeroUntilThere(input')
      /\ \A e \in Employees \ {read.who}, m \in Months : input'[e][m].days = input[e][m].days
      /\ \A m \in Months :
           input[read.who][m].days >= Counted(read, read.who, m) =>
             input'[read.who][m].days = input[read.who][m].days - Counted(read, read.who, m)
  <2> PICK who : who = read.who
    OBVIOUS
  <2>1. /\ input \in Inputs /\ ZeroUntilThere(input) /\ read \in LeaveRow /\ who \in Employees
        /\ input' = InputAfter(input, who, read.span, -Effect(read))
    BY <1>1, <1>2, <1>3, <1>4
  <2>2. /\ input' \in Inputs /\ ZeroUntilThere(input')
        /\ \A e \in Employees \ {who}, m \in Months : input'[e][m].days = input[e][m].days
        /\ \A m \in Months :
             who = read.who /\ input[who][m].days >= Counted(read, who, m) =>
               input'[who][m].days = input[who][m].days - Counted(read, who, m)
    BY ONLY <2>1, EffectTaken
  <2> QED
    BY <2>2
<1>6. InputsAreTotals'
  <2> SUFFICES ASSUME NEW e \in Employees \ skewed', NEW m \in Months
               PROVE  input'[e][m].days = Total(leave', e, m)
    BY DEF InputsAreTotals
  <2>1. e \notin skewed /\ (leave[x] = read \/ (e # read.who /\ e # leave[x].who))
    BY <1>1
  <2>2. input[e][m].days = Total(leave, e, m)
    BY <2>1 DEF LeavesInv, InputsAreTotals
  <2>3. /\ Total(leave', e, m) = Total(leave, e, m) - Counted(leave[x], e, m) + Counted(NoLeave, e, m)
        /\ Total(leave, e, m) \in Nat /\ Total(leave, e, m) >= Counted(leave[x], e, m)
    <3>1. leave \in [Leaves -> Filed] /\ x \in Leaves /\ NoLeave \in Filed
          /\ RowPut(leave', leave, x, NoLeave)
      BY <1>1, <1>2, <1>3 DEF RowPut
    <3> QED
      BY ONLY <3>1, TotalChanges
  <2>4. Counted(NoLeave, e, m) = 0 /\ Counted(leave[x], e, m) \in Nat
    BY <1>3, RowCounts
  <2>5. CASE e # read.who
    <3>1. Counted(leave[x], e, m) = 0
      BY <1>3, <2>1, <2>5, RowCounts
    <3> QED
      BY <1>5, <2>2, <2>3, <2>4, <2>5, <3>1
  <2>6. CASE e = read.who
    <3>1. leave[x] = read
      BY <2>1, <2>6
    <3> QED
      BY <1>5, <2>2, <2>3, <2>4, <2>6, <3>1
  <2> QED
    BY <2>5, <2>6
<1>7. skewed' \subseteq Employees /\ overlaid' \subseteq Employees /\ overlaid \subseteq overlaid'
  BY <1>1, <1>3, <1>4
<1>8. /\ LeavesInv /\ p \in DeskClerks /\ DeskEnds(p) /\ x \in Leaves
      /\ leave[x] # NoLeave \/ archive[x] # NoLeave
      /\ NoLeave \in Filed /\ read \in Filed /\ read # NoLeave
      /\ RowsPut(x, NoLeave, read) /\ RowLookedFor(p, x, NoLeave)
  BY <1>1, <1>2, <1>3 DEF RowsPut, RowLookedFor, Approved
<1> QED
  BY ONLY <1>5, <1>6, <1>7, <1>8, OneRowChanges

\* A leave is restored, and its effect with it.
LEMMA RestoreLeaveInv ==
  ASSUME LeavesInv, NEW p \in DeskClerks, RestoreLeave(p)
  PROVE  LeavesInv'
<1> PICK d, x, read, old : /\ d = desk[p] /\ x = d.at /\ read = d.read
                           /\ old = IF archive[x] = read THEN NoLeave ELSE archive[x]
  OBVIOUS
<1>1. /\ d.op = "restore" /\ leave[x] = NoLeave
      /\ leave' = [leave EXCEPT ![x] = read] /\ archive' = [archive EXCEPT ![x] = old]
      /\ input' = InputAfter(input, read.who, read.span, Effect(read))
      /\ overlaid' = overlaid \cup {read.who}
      /\ DeskEnds(p) /\ skewed' = skewed
  BY DEF RestoreLeave
<1>2. /\ x \in Leaves /\ read \in LeaveRow /\ read \in Filed /\ read # NoLeave
      /\ leave[x] # NoLeave \/ archive[x] # NoLeave
  BY <1>1, DeskTypes, NoRowAssumption DEF DeskOK, Filed
<1>3. /\ leave \in [Leaves -> Filed] /\ old \in Filed
      /\ input \in Inputs /\ ZeroUntilThere(input)
      /\ skewed \subseteq Employees /\ overlaid \subseteq Employees
  BY <1>1, <1>2, DeskTypes DEF LeavesInv, Filed
<1>4. read.who \in Employees
  BY <1>2, RowCounts
<1>5. /\ input' \in Inputs /\ ZeroUntilThere(input')
      /\ \A e \in Employees, m \in Months : input'[e][m].days = input[e][m].days + Counted(read, e, m)
  <2>1. /\ input \in Inputs /\ ZeroUntilThere(input) /\ read \in LeaveRow
        /\ WithEffect(input, input', read)
    BY <1>1, <1>2, <1>3 DEF WithEffect
  <2>2. Gained(input, input', read)
    BY ONLY <2>1, EffectAdded
  <2> QED
    BY <2>2 DEF Gained
<1>6. InputsAreTotals'
  <2> SUFFICES ASSUME NEW e \in Employees \ skewed', NEW m \in Months
               PROVE  input'[e][m].days = Total(leave', e, m)
    BY DEF InputsAreTotals
  <2>1. input[e][m].days = Total(leave, e, m)
    BY <1>1 DEF LeavesInv, InputsAreTotals
  <2>2. /\ Total(leave', e, m) = Total(leave, e, m) - Counted(leave[x], e, m) + Counted(read, e, m)
        /\ Total(leave, e, m) \in Nat
    <3>1. leave \in [Leaves -> Filed] /\ x \in Leaves /\ read \in Filed
          /\ RowPut(leave', leave, x, read)
      BY <1>1, <1>2, <1>3 DEF RowPut
    <3> QED
      BY ONLY <3>1, TotalChanges
  <2>3. Counted(leave[x], e, m) = 0 /\ Counted(read, e, m) \in Nat
    BY <1>1, <1>2, <1>3, RowCounts
  <2> QED
    BY <1>5, <2>1, <2>2, <2>3
<1>7. skewed' \subseteq Employees /\ overlaid' \subseteq Employees /\ overlaid \subseteq overlaid'
  BY <1>1, <1>3, <1>4
<1>8. /\ LeavesInv /\ p \in DeskClerks /\ DeskEnds(p) /\ x \in Leaves
      /\ leave[x] # NoLeave \/ archive[x] # NoLeave
      /\ read \in Filed /\ old \in Filed /\ read # NoLeave
      /\ RowsPut(x, read, old) /\ RowLookedFor(p, x, read)
  BY <1>1, <1>2, <1>3 DEF RowsPut, RowLookedFor
<1> QED
  BY ONLY <1>5, <1>6, <1>7, <1>8, OneRowChanges

\* A change is written: the old effect is taken back and the new one added.
LEMMA CommitChangeInv ==
  ASSUME LeavesInv, NEW p \in DeskClerks, CommitChange(p)
  PROVE  LeavesInv'
<1> PICK d, x, read, row, who, touched, first :
      /\ d = desk[p] /\ x = d.at /\ read = d.read
      /\ row = With(leave[x], d.change) /\ who = row.who
      /\ touched = {read.who, leave[x].who, who}
      /\ first = InputAfter(input, who, read.span, -Effect(read))
  OBVIOUS
<1>1. /\ d.op = "write" /\ leave[x] # NoLeave
      /\ leave' = [leave EXCEPT ![x] = row]
      /\ input' = InputAfter(first, row.who, row.span, Effect(row))
      /\ skewed' = IF leave[x] # read \/ who # read.who THEN skewed \cup touched ELSE skewed
      /\ overlaid' = IF leave[x] # read THEN overlaid \cup touched
                     ELSE overlaid \cup Rivalled(p, {who})
      /\ DeskEnds(p) /\ archive' = archive
  BY DEF CommitChange, TakenBack
<1>2. /\ DeskOK(p) /\ x \in Leaves /\ read \in LeaveRow /\ d.change \in Change
      /\ leave \in [Leaves -> Filed] /\ leave[x] \in LeaveRow /\ archive \in [Leaves -> Filed]
      /\ input \in Inputs /\ ZeroUntilThere(input)
      /\ skewed \subseteq Employees /\ overlaid \subseteq Employees
  BY <1>1, DeskTypes DEF LeavesInv, DeskOK, Filed
<1>3. row \in LeaveRow /\ row \in Filed /\ row # NoLeave
  BY <1>2, WithIsRow, NoRowAssumption DEF Filed
<1>4. who \in Employees /\ touched \subseteq Employees
  BY <1>2, <1>3, RowCounts DEF Filed
<1>5. /\ first \in Inputs /\ ZeroUntilThere(first)
      /\ \A e \in Employees \ {who}, m \in Months : first[e][m].days = input[e][m].days
      /\ \A m \in Months :
           who = read.who /\ input[who][m].days >= Counted(read, who, m) =>
             first[who][m].days = input[who][m].days - Counted(read, who, m)
  <2>1. /\ input \in Inputs /\ ZeroUntilThere(input) /\ read \in LeaveRow /\ who \in Employees
        /\ first = InputAfter(input, who, read.span, -Effect(read))
    BY <1>2, <1>4
  <2> QED
    BY ONLY <2>1, EffectTaken
<1>6. /\ input' \in Inputs /\ ZeroUntilThere(input')
      /\ \A e \in Employees, m \in Months : input'[e][m].days = first[e][m].days + Counted(row, e, m)
  <2>1. /\ first \in Inputs /\ ZeroUntilThere(first) /\ row \in LeaveRow
        /\ WithEffect(first, input', row)
    BY <1>1, <1>3, <1>5 DEF WithEffect
  <2>2. Gained(first, input', row)
    BY ONLY <2>1, EffectAdded
  <2> QED
    BY <2>2 DEF Gained
<1>7. InputsAreTotals'
  <2> SUFFICES ASSUME NEW e \in Employees \ skewed', NEW m \in Months
               PROVE  input'[e][m].days = Total(leave', e, m)
    BY DEF InputsAreTotals
  <2>1. e \notin skewed /\ ((leave[x] = read /\ who = read.who) \/ e \notin touched)
    BY <1>1
  <2>2. input[e][m].days = Total(leave, e, m)
    BY <2>1 DEF LeavesInv, InputsAreTotals
  <2>3. /\ Total(leave', e, m) = Total(leave, e, m) - Counted(leave[x], e, m) + Counted(row, e, m)
        /\ Total(leave, e, m) \in Nat /\ Total(leave, e, m) >= Counted(leave[x], e, m)
    <3>1. leave \in [Leaves -> Filed] /\ x \in Leaves /\ row \in Filed /\ RowPut(leave', leave, x, row)
      BY <1>1, <1>2, <1>3 DEF RowPut
    <3> QED
      BY ONLY <3>1, TotalChanges
  <2>4. leave[x] \in Filed
    BY <1>2
  <2>5. Counted(leave[x], e, m) \in Nat /\ Counted(row, e, m) \in Nat
    BY <1>3, <2>4, RowCounts
  <2>6. CASE e # who
    <3>1. e # leave[x].who
      BY <2>1, <2>6
    <3>2. Counted(leave[x], e, m) = 0
      BY <1>2, <2>4, <3>1, RowCounts
    <3>3. first[e][m].days = input[e][m].days
      <4>1. e \in Employees \ {who} /\ m \in Months
        BY <2>6
      <4>2. \A f \in Employees \ {who}, k \in Months : first[f][k].days = input[f][k].days
        BY <1>5
      <4> QED
        BY ONLY <4>1, <4>2
    <3>4. input'[e][m].days = first[e][m].days + Counted(row, e, m)
      BY <1>6
    <3> QED
      BY ONLY <2>2, <2>3, <2>5, <3>2, <3>3, <3>4
  <2>7. CASE e = who
    <3>1. leave[x] = read /\ who = read.who
      BY <2>1, <2>7
    <3>2. first[who][m].days = input[who][m].days - Counted(read, who, m)
      BY <1>5, <2>2, <2>3, <2>7, <3>1
    <3>3. input'[who][m].days = first[who][m].days + Counted(row, who, m)
      BY <1>4, <1>6
    <3> QED
      BY <2>2, <2>3, <2>5, <2>7, <3>1, <3>2, <3>3
  <2> QED
    BY <2>6, <2>7
<1>8. skewed' \subseteq Employees /\ overlaid' \subseteq Employees /\ overlaid \subseteq overlaid'
  <2>1. Rivalled(p, {who}) \subseteq Employees
    BY <1>4 DEF Rivalled
  <2> QED
    BY <1>1, <1>2, <1>4, <2>1
<1>9. ASSUME who \notin overlaid'
      PROVE  NoOverlap(row, {x}) /\ \A q \in DeskClerks \ {p} : row.who \notin LookedFor(desk[q])
  <2>1. leave[x] = read /\ who \notin overlaid /\ who \notin Rivalled(p, {who})
    BY <1>1, <1>9
  <2>2. NoOverlap(row, {x})
    BY <1>1, <1>2, <2>1 DEF DeskOK
  <2>3. who \in {who}
    OBVIOUS
  <2> QED
    BY <2>1, <2>2, <2>3, NoRivals
<1> PICK old : old = archive[x]
  OBVIOUS
<1>10. RowsPut(x, row, old)
  BY <1>1, <1>2 DEF RowsPut
<1>11. RowLookedFor(p, x, row)
  BY <1>9 DEF RowLookedFor
<1>12. /\ LeavesInv /\ p \in DeskClerks /\ DeskEnds(p) /\ x \in Leaves
       /\ leave[x] # NoLeave \/ archive[x] # NoLeave
       /\ row \in Filed /\ old \in Filed /\ row # NoLeave
  BY <1>1, <1>2, <1>3
<1> QED
  BY ONLY <1>6, <1>7, <1>8, <1>10, <1>11, <1>12, OneRowChanges

\* New rows are written with their effects.
LEMMA CommitNewInv ==
  ASSUME LeavesInv, NEW p \in DeskClerks, CommitNew(p)
  PROVE  LeavesInv'
<1> PICK d, news, n, E, first :
      /\ d = desk[p] /\ news = d.news /\ n = Len(news)
      /\ E = {news[i].row.who : i \in DOMAIN news}
      /\ first = InputWith(input, news[1])
  OBVIOUS
<1>1. /\ d.op = "create"
      /\ leave' = [x \in Leaves |->
           IF \E i \in DOMAIN news : news[i].id = x
           THEN news[CHOOSE i \in DOMAIN news : news[i].id = x].row ELSE leave[x]]
      /\ input' = IF n = 1 THEN first ELSE InputWith(first, news[2])
      /\ overlaid' = overlaid \cup Rivalled(p, E)
      /\ DeskEnds(p) /\ archive' = archive /\ skewed' = skewed
  BY DEF CommitNew
<1>2. /\ DeskOK(p) /\ n \in {1, 2} /\ DOMAIN news = 1 .. n
      /\ \A i \in 1 .. n : news[i].id \in Leaves /\ news[i].row \in LeaveRow
      /\ leave \in [Leaves -> Filed] /\ archive \in [Leaves -> Filed]
      /\ input \in Inputs /\ ZeroUntilThere(input)
      /\ skewed \subseteq Employees /\ overlaid \subseteq Employees
  BY <1>1, DeskTypes DEF LeavesInv, DeskOK
<1>3. \A i \in 1 .. n :
        /\ leave[news[i].id] = NoLeave /\ archive[news[i].id] = NoLeave
        /\ news[i].row.who \notin overlaid => NoOverlap(news[i].row, {})
        /\ \A j \in 1 .. n : j < i =>
             /\ news[j].id # news[i].id
             /\ Approved(news[j].row) => ~Clash(news[j].row, news[i].row)
  BY <1>2 DEF DeskOK
<1>4. \A i, j \in 1 .. n : i # j => news[i].id # news[j].id
  <2> TAKE i, j \in 1 .. n
  <2> HAVE i # j
  <2>1. j < i \/ i < j
    BY <1>2
  <2> QED
    BY <1>3, <2>1
<1>5. /\ \A i \in 1 .. n : leave'[news[i].id] = news[i].row
      /\ \A x \in Leaves : (\A i \in 1 .. n : news[i].id # x) => leave'[x] = leave[x]
  <2>1. ASSUME NEW i \in 1 .. n PROVE leave'[news[i].id] = news[i].row
    <3> PICK x \in Leaves : x = news[i].id
      BY <1>2
    <3>1. leave'[x] = news[CHOOSE j \in DOMAIN news : news[j].id = x].row
      BY <1>1, <1>2
    <3>2. (CHOOSE j \in DOMAIN news : news[j].id = x) = i
      BY <1>2, <1>4
    <3> QED
      BY <3>1, <3>2
  <2>2. ASSUME NEW x \in Leaves, \A i \in 1 .. n : news[i].id # x PROVE leave'[x] = leave[x]
    BY <1>1, <1>2, <2>2
  <2> QED
    BY <2>1, <2>2
<1>6. leave' \in [Leaves -> Filed] /\ \A i \in 1 .. n : news[i].row \in Filed /\ news[i].row # NoLeave
  <2>1. \A i \in 1 .. n : news[i].row \in Filed /\ news[i].row # NoLeave
    BY <1>2, NoRowAssumption DEF Filed
  <2>2. \A x \in Leaves : leave'[x] \in Filed
    BY <1>2, <1>5, <2>1
  <2>3. DOMAIN leave' = Leaves /\ leave' = [x \in Leaves |-> leave'[x]]
    BY <1>1
  <2> QED
    BY <2>1, <2>2, <2>3
<1>7. /\ first \in Inputs /\ ZeroUntilThere(first)
      /\ \A e \in Employees, m \in Months :
           first[e][m].days = input[e][m].days + Counted(news[1].row, e, m)
  <2> PICK row : row = news[1].row
    OBVIOUS
  <2>1. /\ input \in Inputs /\ ZeroUntilThere(input) /\ row \in LeaveRow
        /\ WithEffect(input, first, row)
    BY <1>2 DEF InputWith, WithEffect
  <2>2. Gained(input, first, row)
    BY ONLY <2>1, EffectAdded
  <2> QED
    BY <2>2 DEF Gained
<1>8. input' \in Inputs /\ ZeroUntilThere(input') /\ InputsAreTotals'
  <2> PICK v1, x1, mid : v1 = news[1].row /\ x1 = news[1].id /\ mid = [leave EXCEPT ![x1] = v1]
    OBVIOUS
  <2>1. /\ x1 \in Leaves /\ v1 \in Filed /\ leave[x1] = NoLeave /\ 1 \in 1 .. n
        /\ mid \in [Leaves -> Filed] /\ mid[x1] = v1 /\ \A x \in Leaves \ {x1} : mid[x] = leave[x]
    <3>1. 1 \in 1 .. n
      BY <1>2
    <3>2. x1 \in Leaves
      BY <1>2, <3>1
    <3>3. leave[x1] = NoLeave
      BY <1>3, <3>1
    <3>4. v1 \in Filed
      BY <1>6, <3>1
    <3>5. leave \in [Leaves -> Filed]
      BY <1>2
    <3> QED
      BY <3>1, <3>2, <3>3, <3>4, <3>5
  <2>2. \A e, m : Counted(NoLeave, e, m) = 0
    BY RowCounts DEF Filed
  <2>3. ASSUME NEW e, NEW m
        PROVE  /\ Total(mid, e, m) = Total(leave, e, m) + Counted(v1, e, m)
               /\ Total(leave, e, m) \in Nat /\ Counted(v1, e, m) \in Nat
    <3>1. /\ leave \in [Leaves -> Filed] /\ x1 \in Leaves /\ v1 \in Filed
          /\ RowPut(mid, leave, x1, v1)
      BY <1>2, <2>1 DEF RowPut
    <3>2. /\ Total(mid, e, m) = Total(leave, e, m) - Counted(leave[x1], e, m) + Counted(v1, e, m)
          /\ Total(leave, e, m) \in Nat
      BY ONLY <3>1, TotalChanges
    <3>3. Counted(v1, e, m) \in Nat
      BY <2>1, RowCounts
    <3>4. Counted(leave[x1], e, m) = 0
      BY <2>1, <2>2
    <3> QED
      BY ONLY <3>2, <3>3, <3>4
  <2>4. CASE n = 1
    <3>1. \A x \in Leaves : leave'[x] = mid[x]
      BY <1>5, <2>1, <2>4
    <3>2. leave' = mid
      BY <1>6, <2>1, <3>1
    <3>3. input' = first
      BY <1>1, <2>4
    <3>4. ASSUME NEW e \in Employees \ skewed', NEW m \in Months
          PROVE  input'[e][m].days = Total(leave', e, m)
      <4>1. input[e][m].days = Total(leave, e, m)
        BY <1>1 DEF LeavesInv, InputsAreTotals
      <4>2. input'[e][m].days = input[e][m].days + Counted(v1, e, m)
        BY <1>7, <3>3
      <4>3. Total(leave', e, m) = Total(leave, e, m) + Counted(v1, e, m)
        BY <2>3, <3>2
      <4> QED
        BY ONLY <4>1, <4>2, <4>3
    <3> QED
      BY <1>7, <3>3, <3>4 DEF InputsAreTotals
  <2>5. CASE n = 2
    <3> PICK v2, x2 : v2 = news[2].row /\ x2 = news[2].id
      OBVIOUS
    <3>1. /\ x2 \in Leaves /\ v2 \in Filed /\ v2 \in LeaveRow /\ leave[x2] = NoLeave
          /\ x2 # x1 /\ mid[x2] = NoLeave
      <4>1. 2 \in 1 .. n /\ 1 \in 1 .. n
        BY <2>5
      <4>2. x2 \in Leaves /\ v2 \in LeaveRow
        BY <1>2, <4>1
      <4>3. leave[x2] = NoLeave
        BY <1>3, <4>1
      <4>4. x2 # x1
        BY <1>4, <4>1
      <4>5. v2 \in Filed
        BY <1>6, <4>1
      <4> QED
        BY <2>1, <4>2, <4>3, <4>4, <4>5
    <3>2. /\ input' \in Inputs /\ ZeroUntilThere(input')
          /\ \A e \in Employees, m \in Months : input'[e][m].days = first[e][m].days + Counted(v2, e, m)
      <4>1. /\ first \in Inputs /\ ZeroUntilThere(first) /\ v2 \in LeaveRow
            /\ WithEffect(first, input', v2)
        BY <1>1, <1>7, <2>5, <3>1 DEF InputWith, WithEffect
      <4>2. Gained(first, input', v2)
        BY ONLY <4>1, EffectAdded
      <4> QED
        BY <4>2 DEF Gained
    <3>3. RowPut(leave', mid, x2, v2)
      <4> PICK new : new = [mid EXCEPT ![x2] = v2]
        OBVIOUS
      <4>1. new \in [Leaves -> Filed] /\ new[x2] = v2 /\ \A x \in Leaves \ {x2} : new[x] = mid[x]
        BY <2>1, <3>1
      <4>2. ASSUME NEW x \in Leaves PROVE leave'[x] = new[x]
        <5>0. leave'[x1] = v1 /\ leave'[x2] = v2
          <6>1. 2 \in 1 .. n /\ 1 \in 1 .. n
            BY <2>5
          <6> QED
            BY <1>5, <6>1
        <5>1. CASE x = x2
          BY <4>1, <5>0, <5>1
        <5>2. CASE x = x1
          BY <2>1, <3>1, <4>1, <5>0, <5>2
        <5>3. CASE x # x1 /\ x # x2
          <6>1. \A i \in 1 .. n : news[i].id # x
            BY <2>5, <5>3
          <6> QED
            BY <1>5, <2>1, <4>1, <5>3, <6>1
        <5> QED
          BY <5>1, <5>2, <5>3
      <4> QED
        BY <1>6, <4>1, <4>2 DEF RowPut
    <3>4. ASSUME NEW e \in Employees \ skewed', NEW m \in Months
          PROVE  input'[e][m].days = Total(leave', e, m)
      <4>1. input[e][m].days = Total(leave, e, m)
        BY <1>1 DEF LeavesInv, InputsAreTotals
      <4>2. mid \in [Leaves -> Filed] /\ x2 \in Leaves /\ v2 \in Filed /\ RowPut(leave', mid, x2, v2)
        BY <2>1, <3>1, <3>3
      <4>3. Total(leave', e, m) = Total(mid, e, m) - Counted(mid[x2], e, m) + Counted(v2, e, m)
        BY ONLY <4>2, TotalChanges
      <4>4. Counted(v2, e, m) \in Nat /\ Counted(mid[x2], e, m) = 0
        BY <2>2, <3>1, RowCounts
      <4>5. first[e][m].days = input[e][m].days + Counted(v1, e, m)
        BY <1>7
      <4>6. input'[e][m].days = first[e][m].days + Counted(v2, e, m)
        BY <3>2
      <4>7. /\ Total(mid, e, m) = Total(leave, e, m) + Counted(v1, e, m)
            /\ Total(leave, e, m) \in Nat /\ Counted(v1, e, m) \in Nat
        BY <2>3
      <4> QED
        BY ONLY <4>1, <4>3, <4>4, <4>5, <4>6, <4>7
    <3> QED
      BY <3>2, <3>4 DEF InputsAreTotals
  <2> QED
    BY <1>2, <2>4, <2>5
<1>9. overlaid' \subseteq Employees /\ overlaid \subseteq overlaid'
  <2>1. E \subseteq Employees
    BY <1>2, <1>6, RowCounts
  <2>2. Rivalled(p, E) \subseteq Employees
    BY <2>1 DEF Rivalled
  <2> QED
    BY <1>1, <1>2, <2>2
<1>10. \A x \in Leaves : leave[x] # NoLeave \/ archive[x] # NoLeave =>
                           leave'[x] # NoLeave \/ archive'[x] # NoLeave
  <2> TAKE x \in Leaves
  <2>1. archive'[x] = archive[x]
    BY <1>1
  <2>2. CASE \E i \in 1 .. n : news[i].id = x
    BY <1>3, <2>2
  <2>3. CASE \A i \in 1 .. n : news[i].id # x
    BY <1>5, <2>1, <2>3
  <2> QED
    BY <2>2, <2>3
<1>11. ASSUME NEW q \in DeskClerks \ {p}, NEW i \in DOMAIN desk[q].news, NEW x, x = desk[q].news[i].id
       PROVE  leave'[x] = leave[x] /\ archive'[x] = archive[x]
  <2>1. \A j \in 1 .. n : news[j].id # x
    BY <1>2, <1>11 DEF LeavesInv, NewsApart
  <2>2. x \in Leaves
    BY <1>11, DeskTypes
  <2> QED
    BY <1>1, <1>5, <2>1, <2>2
<1>12. ASSUME NEW q \in DeskClerks \ {p}, NEW e \in LookedFor(desk[q]) \ overlaid', NEW x \in Leaves,
              leave'[x].who = e
       PROVE  leave'[x] = leave[x]
  <2>1. e \notin E
    BY <1>1, <1>12 DEF Rivalled
  <2>2. \A i \in 1 .. n : news[i].id # x
    BY <1>2, <1>5, <1>12, <2>1
  <2> QED
    BY <1>5, <2>2
<1>13. LeavesApart'
  <2>1. ASSUME NEW i \in 1 .. n, NEW y \in Leaves, y # news[i].id, Approved(leave'[y]),
               news[i].row.who \notin overlaid', Approved(news[i].row)
        PROVE  ~Clash(leave'[y], news[i].row) /\ ~Clash(news[i].row, leave'[y])
    <3>1. ~Clash(leave'[y], news[i].row) \/ ~Clash(news[i].row, leave'[y])
      <4>1. CASE \E j \in 1 .. n : news[j].id = y
        <5>1. PICK j \in 1 .. n : news[j].id = y
          BY <4>1
        <5>2. leave'[y] = news[j].row /\ j # i
          BY <1>5, <2>1, <5>1
        <5>3. j < i \/ i < j
          BY <1>2, <5>2
        <5> QED
          BY <1>3, <2>1, <5>2, <5>3
      <4>2. CASE \A j \in 1 .. n : news[j].id # y
        <5>1. leave'[y] = leave[y] /\ news[i].row.who \notin overlaid
          BY <1>1, <1>5, <2>1, <4>2
        <5>2. NoOverlap(news[i].row, {})
          BY <1>3, <5>1
        <5> QED
          BY <2>1, <5>1, <5>2 DEF NoOverlap
      <4> QED
        BY <4>1, <4>2
    <3> QED
      BY <3>1 DEF Clash, Meet
  <2> SUFFICES ASSUME NEW y \in Leaves, NEW z \in Leaves, y # z,
                      Approved(leave'[y]), Approved(leave'[z]), leave'[y].who \notin overlaid',
                      Clash(leave'[y], leave'[z])
               PROVE  FALSE
    BY DEF LeavesApart, Approved
  <2>2. leave'[z].who = leave'[y].who
    BY DEF Clash
  <2>3. CASE \E i \in 1 .. n : news[i].id = y
    BY <1>5, <2>1, <2>3
  <2>4. CASE \E i \in 1 .. n : news[i].id = z
    BY <1>5, <2>1, <2>2, <2>4
  <2>5. CASE \A i \in 1 .. n : news[i].id # y /\ news[i].id # z
    <3>1. leave'[y] = leave[y] /\ leave'[z] = leave[z]
      BY <1>5, <2>5
    <3>2. leave'[y].who \notin overlaid
      BY <1>9
    <3> QED
      BY <3>1, <3>2 DEF LeavesInv, LeavesApart
  <2> QED
    BY <2>3, <2>4, <2>5
<1>14. FilesTyped /\ NothingVanishes /\ TheirNewsStay(p) /\ NoRivalAppears(p)
  <2>1. FilesTyped /\ NothingVanishes
    BY <1>1, <1>2, <1>6, <1>8, <1>9, <1>10 DEF FilesTyped, NothingVanishes
  <2> QED
    BY <1>11, <1>12, <2>1 DEF TheirNewsStay, NoRivalAppears
<1>15. LeavesInv /\ DeskEnds(p) /\ p \in DeskClerks
  BY <1>1
<1> QED
  BY ONLY <1>8, <1>13, <1>14, <1>15, FilesChange

\* Every step about leaves keeps the invariant.
LEMMA LeavesNextInv ==
  ASSUME LeavesInv, [LeavesNext]_leaveVars
  PROVE  LeavesInv'
<1>1. CASE UNCHANGED leaveVars
  BY <1>1 DEF leaveVars, LeavesInv, LeavesTypeOK, InputsAreTotals, DeskOK, NewsApart, LeavesApart,
              NoOverlap, Approved
<1>2. CASE LeavesNext
  <2> PICK p \in DeskClerks : StartLeave(p) \/ ContinueLeave(p)
    BY <1>2 DEF LeavesNext
  <2>1. CASE StartLeave(p)
    BY <2>1, CheckNewInv, ReadForInv DEF StartLeave
  <2>2. CASE ContinueLeave(p)
    BY <2>2, CommitNewInv, CheckChangeInv, CommitChangeInv, RemoveLeaveInv, RestoreLeaveInv,
       FailLeaveInv DEF ContinueLeave
  <2> QED
    BY <2>1, <2>2
<1> QED
  BY <1>1, <1>2

\* It holds before the first leave.
LEMMA LeavesInitInv == LeavesInit => LeavesInv
<1> SUFFICES ASSUME LeavesInit PROVE LeavesInv
  OBVIOUS
<1>1. /\ leave = [x \in Leaves |-> NoLeave] /\ archive = [x \in Leaves |-> NoLeave]
      /\ desk = [p \in DeskClerks |-> Deskless] /\ skewed = {} /\ overlaid = {}
      /\ input = [e \in Employees |-> [m \in Months |-> [there |-> FALSE, days |-> 0]]]
  BY DEF LeavesInit
<1>2. [there |-> FALSE, days |-> 0] \in MonthInput
  BY DEF MonthInput
<1>3. LeavesTypeOK /\ ZeroUntilThere(input)
  BY <1>1, <1>2, DesklessIsDesk DEF LeavesTypeOK, ZeroUntilThere
<1>4. ASSUME NEW e \in Employees, NEW m \in Months PROVE input[e][m].days = Total(leave, e, m)
  <2> PICK f : f = Counts(leave, e, m)
    OBVIOUS
  <2>1. \A x \in Leaves : f[x] = 0
    BY <1>1, RowCounts DEF Counts, Filed
  <2>2. SumFunctionOnSet(f, Leaves) = 0
    BY ONLY <2>1, LeavesAssumption, SumOfZeros
  <2> QED
    BY <1>1, <2>2 DEF Total
<1>5. \A p \in DeskClerks : desk[p] = Deskless
  BY <1>1
<1>6. (\A p \in DeskClerks : DeskOK(p)) /\ NewsApart
  BY <1>5, DesklessIsDesk DEF DeskOK, NewsApart
<1>7. LeavesApart
  BY <1>1 DEF LeavesApart, Approved
<1> QED
  BY <1>3, <1>4, <1>6, <1>7 DEF LeavesInv, InputsAreTotals

\* What the payroll inputs and the requests in progress show at every moment
\* (LeavesService).
THEOREM LeavesInvariant == LeavesSpec => []LeavesInv
<1> QED
  BY LeavesInitInv, LeavesNextInv, PTL DEF LeavesSpec

\* A month's input shows the days of the approved leaves that begin in it.
LEMMA InputsFollow ==
  ASSUME LeavesInv
  PROVE  InputsFollowLeaves
<1> SUFFICES ASSUME NEW e \in Employees \ skewed, NEW m \in Months,
                    NEW begun, begun = {x \in LeavesOf(e) : MonthOf[leave[x].span[1]] = m}
             PROVE  input[e][m].days = SumFunctionOnSet([x \in begun |-> Cardinality(Days(x))], begun)
  BY DEF InputsFollowLeaves
<1> PICK f, g : f = [x \in begun |-> Cardinality(Days(x))] /\ g = Counts(leave, e, m)
  OBVIOUS
<1>1. begun \subseteq Leaves /\ IsFiniteSet(Leaves) /\ leave \in [Leaves -> Filed]
  BY LeavesAssumption DEF LeavesOf, LeavesInv, LeavesTypeOK, Filed
<1>2. \A x \in Leaves \ begun : g[x] = 0
  BY <1>1 DEF LeavesOf, Counts, Counted
<1>3. ASSUME NEW x \in begun
      PROVE  f[x] = g[x] /\ g[x] \in Int
  <2>1. x \in Leaves /\ Approved(leave[x]) /\ leave[x].who = e /\ MonthOf[leave[x].span[1]] = m
    BY <1>1 DEF LeavesOf
  <2>2. leave[x] \in LeaveRow
    BY <1>1, <2>1 DEF Approved, Filed
  <2> PICK s \in Spans : s = leave[x].span
    BY <2>2 DEF LeaveRow
  <2> PICK a, b : a = s[1] /\ b = s[2]
    OBVIOUS
  <2>3. a \in Int /\ b \in Int /\ a <= b
    BY SpanTypes
  <2>4. Cardinality(a .. b) = b - a + 1
    BY <2>3, FS_Interval
  <2>5. f[x] = b - a + 1
    BY <2>4 DEF Days
  <2>6. g[x] = b - a + 1
    BY <2>1 DEF Counts, Counted
  <2> QED
    BY <2>3, <2>5, <2>6
<1>4. SumFunctionOnSet(f, begun) = SumFunctionOnSet(g, Leaves)
  BY ONLY <1>1, <1>2, <1>3, SumOfChosen
<1>5. input[e][m].days = SumFunctionOnSet(g, Leaves)
  BY DEF LeavesInv, InputsAreTotals, Total
<1> QED
  BY <1>4, <1>5

\* Nobody is on two leaves on one day.
LEMMA NoDayTwice ==
  ASSUME LeavesInv
  PROVE  NoDayIsTakenTwice
<1> SUFFICES ASSUME NEW e \in Employees \ overlaid, NEW x \in LeavesOf(e), NEW y \in LeavesOf(e),
                    x # y, NEW n \in Days(x), n \in Days(y)
             PROVE  FALSE
  BY DEF NoDayIsTakenTwice
<1>1. /\ x \in Leaves /\ y \in Leaves /\ Approved(leave[x]) /\ Approved(leave[y])
      /\ leave[x].who = e /\ leave[y].who = e /\ leave \in [Leaves -> Filed]
  BY DEF LeavesOf, LeavesInv, LeavesTypeOK, Filed
<1>2. ~Meet(leave[x].span, leave[y].span)
  BY <1>1 DEF LeavesInv, LeavesApart, Clash
<1>3. leave[x] \in LeaveRow /\ leave[y] \in LeaveRow
  BY <1>1 DEF Approved, Filed
<1> PICK s \in Spans, t \in Spans : s = leave[x].span /\ t = leave[y].span
  BY <1>3 DEF LeaveRow
<1>4. s[1] \in Int /\ s[2] \in Int /\ t[1] \in Int /\ t[2] \in Int
  BY SpanTypes
<1>5. n \in s[1] .. s[2] /\ n \in t[1] .. t[2]
  BY DEF Days
<1> QED
  BY <1>2, <1>4, <1>5 DEF Meet

\* A month's payroll input shows the days of the approved leaves that begin in it,
\* and nobody is on two leaves on one day (LeavesService.create, update, remove and
\* restore).
THEOREM LeavesCountOnce == LeavesSpec => []LeavesAddUp
<1>1. LeavesInv => LeavesAddUp
  BY InputsFollow, NoDayTwice DEF LeavesAddUp
<1> QED
  BY <1>1, LeavesInvariant, PTL

-----------------------------------------------------------------------------
(* The office *)

\* What sales and purchase invoices show as paid was recorded, and what the
\* customer owes stays within the credit limit (assertCreditLimit, addPayment,
\* recalculatePurchaseInvoicePayment).
THEOREM MoneyIsKeptByBoth == SalesSpec /\ PurchaseSpec => []MoneyIsKept
<1>1. PaidWithinTotal /\ OutstandingWithinLimit /\ PaidWasRecorded => MoneyIsKept
  BY DEF MoneyIsKept
<1> QED
  BY <1>1, InvoicesAreNotOverpaid, PaymentsWereRecorded, PTL

\* The invariant of the vans includes their types.
LEMMA RepTypesHold ==
  ASSUME RepInv
  PROVE  RepTypeOK
<1> DEFINE Task == [op : {"none", "load", "unload", "sell", "return", "collect"},
                    at : {"", "check", "take", "number", "look", "store", "back", "read", "write"},
                    items : Seq(Nat), sale : Sales \cup {NoSale}, total : Nat, read : Int,
                    van : Int, vanMoved : Int, shelf : Int, shelfMoved : Int]
<1>1. ASSUME NEW a \in Agents PROVE task[a] \in Task
  <2> PICK t : t = task[a]
    OBVIOUS
  <2>1. t \in RepTask /\ t.at \in Steps(t.op)
    BY DEF RepInv, RepTypes, TaskOK
  <2>2. t.at \in {"", "check", "take", "number", "look", "store", "back", "read", "write"}
    BY <2>1 DEF Steps, RepTask
  <2>3. t.items \in Seq(Nat \ {0})
    BY <2>1 DEF RepTask
  <2>4. t.items \in Seq(Nat)
    <3>1. Nat \ {0} \subseteq Nat
      OBVIOUS
    <3> QED
      BY <2>3, <3>1, SeqMonotonic
  <2> QED
    BY <2>1, <2>2, <2>4 DEF RepTask
<1>2. DOMAIN task = Agents /\ task = [a \in Agents |-> task[a]]
  BY DEF RepInv, RepTypes
<1>3. task \in [Agents -> Task]
  BY <1>1, <1>2
<1> QED
  BY <1>3 DEF RepInv, RepTypes, RepTypeOK, VanRow, Locks

\* The five components keep their types, whatever their requests do at once.
THEOREM OfficeTypes == OfficeSpec => []OfficeTypeOK
<1>1. SalesInvoicesInv => SalesInvoicesTypeOK
  BY DEF SalesInvoicesInv
<1>2. PurchaseInvoicesInv => PurchaseInvoicesTypeOK
  BY DEF PurchaseInvoicesInv
<1>3. SyncInv => SyncTypeOK
  BY DEF SyncInv
<1>4. LeavesInv => LeavesTypeOK
  BY DEF LeavesInv
<1>5. RepInv => RepTypeOK
  BY RepTypesHold
<1>6. (SalesInvoicesTypeOK /\ PurchaseInvoicesTypeOK /\ RepTypeOK /\ SyncTypeOK /\ LeavesTypeOK)
        => OfficeTypeOK
  BY DEF OfficeTypeOK
<1> QED
  BY <1>1, <1>2, <1>3, <1>4, <1>5, <1>6, SalesInvoicesInvariant, PurchaseInvoicesInvariant,
     SyncInvariant, LeavesInvariant, RepInvariant, PTL DEF OfficeSpec
=============================================================================
