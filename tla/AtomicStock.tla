---------------------------- MODULE AtomicStock ----------------------------
(***************************************************************************)
(* What callers of InventoryService are promised: a transaction's calls    *)
(* take effect one after the other, in one step, on the committed rows, or *)
(* not at all.  A reservation is granted only out of what is available at  *)
(* that moment, a release only out of what is reserved.  The on-hand check *)
(* of a deduction is not part of the promise: the service makes it before, *)
(* on a row it has not locked.                                             *)
(***************************************************************************)
EXTENDS StockRow

CONSTANT Scripts
VARIABLE stock

\* One call on the rows, where its WHERE clause allows it.
Possible(rows, c) ==
  /\ ValidAmount(c)
  /\ c.op = "reserve" => CanReserve(rows[c.row], c.n)
  /\ c.op = "release" => CanRelease(rows[c.row], c.n)

\* What the call makes of its row.
Change(r, c) ==
  CASE c.op = "apply"   -> Applied(r, c.n)
    [] c.op = "reserve" -> Reserved(r, c.n)
    [] c.op = "release" -> Released(r, c.n)

Effect(rows, c) == [rows EXCEPT ![c.row] = Change(@, c)]

\* The rows after the first calls of s, one after the other.
After(rows, s) ==
  LET after[i \in 0..Len(s)] == IF i = 0 THEN rows ELSE Effect(after[i - 1], s[i])
  IN  after

Init == stock = [k \in Rows |-> OpeningRow(Opening[k])]

Transact(s) ==
  LET after == After(stock, s)
  IN  /\ \A i \in 1..Len(s) : Possible(after[i - 1], s[i])
      /\ stock' = after[Len(s)]

Next == \E s \in Scripts : Transact(s)

Spec == Init /\ [][Next]_stock
=============================================================================
