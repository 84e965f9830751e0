--------------------------- MODULE Representatives ---------------------------
(***************************************************************************)
(* Van stock, sales and collections of a sales representative:             *)
(* RepresentativesService                                                  *)
(* (src/backend-nest/src/representatives/representatives.service.ts).      *)
(* One representative, one SKU, one location of the warehouse, which the   *)
(* service moves without InventoryService.  Every handler reads the van's  *)
(* row with a plain SELECT and then writes it: a load by an increment, all *)
(* the others by the value they have computed.  The first write of a row   *)
(* locks it until the transaction ends.                                    *)
(***************************************************************************)
EXTENDS Integers, SequencesExt, FiniteSetsExt

CONSTANTS
  Agents,      \* the requests in progress
  NoAgent,     \* who holds a lock that is free
  Sales,       \* rep_sales rows
  NoSale,
  Baskets,     \* the quantities of a request's items, each a line of the SKU
  OnShelf      \* what the warehouse has at first

ASSUME AgentsAssumption == NoAgent \notin Agents
\* A request without items writes nothing of the van or the shelf.
ASSUME BasketsAssumption == Baskets \subseteq Seq(Nat \ {0}) \ {<< >>}
ASSUME OnShelfAssumption == OnShelf \in Nat

VARIABLES
  van,         \* rep_stocks.quantity of the SKU, NoRow before its first load
  vanMoves,    \* the sum of its rep_stock_movements
  shelf,       \* stock_levels.quantity; available moves with it
  shelfMoves,  \* the sum of its stock_movements
  sale,        \* sale[s]: the rep_sales row
  collected,   \* collected[s]: the sum of its rep_collections
  task,        \* task[a]: what request a does
  holder,      \* holder[l]: who has locked the van's row, the shelf's, the sale numbers
  raced        \* what was overwritten, or taken, though it had changed since it was read

repVars == <<van, vanMoves, shelf, shelfMoves, sale, collected, task, holder, raced>>

NoRow == -1
Sum(items) == SumFunction(items)

SaleStatuses == {"absent", "PENDING", "PARTIAL", "PAID"}
NoTask ==
  [op |-> "none", at |-> "", items |-> << >>, sale |-> NoSale, total |-> 0, read |-> 0,
   van |-> 0, vanMoved |-> 0, shelf |-> 0, shelfMoved |-> 0]

RepInit ==
  /\ van = NoRow
  /\ vanMoves = 0
  /\ shelf = OnShelf
  /\ shelfMoves = OnShelf
  /\ sale = [s \in Sales |-> [status |-> "absent", total |-> 0, paid |-> 0]]
  /\ collected = [s \in Sales |-> 0]
  /\ task = [a \in Agents |-> NoTask]
  /\ holder = [l \in {"van", "shelf", "numbers"} |-> NoAgent]
  /\ raced = {}

-----------------------------------------------------------------------------
(* Rows and locks *)

CanLock(a, l) == holder[l] \in {a, NoAgent}

\* What a sees: its own version, or the committed one.
VanSeen(a) == IF holder["van"] = a THEN task[a].van ELSE van
ShelfSeen(a) == IF holder["shelf"] = a THEN task[a].shelf ELSE shelf

At(a, op, at) == task[a].op = op /\ task[a].at = at

Unlocked(a) == [l \in DOMAIN holder |-> IF holder[l] = a THEN NoAgent ELSE holder[l]]

\* A statement of a that leaves its transaction open.
InTransaction == UNCHANGED <<van, vanMoves, shelf, shelfMoves, sale, collected>>

\* The transaction commits with t, the last version of task[a].
Commits(a, t) ==
  /\ van' = IF holder["van"] = a \/ t.at = "van" THEN t.van ELSE van
  /\ vanMoves' = vanMoves + t.vanMoved
  /\ shelf' = IF holder["shelf"] = a \/ t.at = "shelf" THEN t.shelf ELSE shelf
  /\ shelfMoves' = shelfMoves + t.shelfMoved
  /\ sale' = IF t.op = "sell"
             THEN [sale EXCEPT ![t.sale] = [status |-> "PENDING", total |-> t.total, paid |-> 0]]
             ELSE sale
  /\ task' = [task EXCEPT ![a] = NoTask]
  /\ holder' = Unlocked(a)
  /\ UNCHANGED collected

\* The item is done: t goes on with the next one, or the transaction commits.
NextItem(a, t, l, first) ==
  IF Len(t.items) = 1 THEN Commits(a, [t EXCEPT !.at = l])
  ELSE /\ task' = [task EXCEPT ![a] = [t EXCEPT !.at = first, !.items = Tail(@)]]
       /\ holder' = [holder EXCEPT ![l] = a]
       /\ InTransaction

Asks(a, op, at, items) ==
  /\ task[a] = NoTask
  /\ task' = [task EXCEPT ![a] = [NoTask EXCEPT !.op = op, !.at = at, !.items = items]]
  /\ UNCHANGED <<van, vanMoves, shelf, shelfMoves, sale, collected, holder, raced>>

-----------------------------------------------------------------------------
(* transferStockToRep *)

TransferStockToRep(a) == \E items \in Baskets : Asks(a, "load", "check", items)

\* The warehouse has enough of the item, as far as a plain SELECT can tell...
CheckShelf(a) ==
  /\ At(a, "load", "check")
  /\ ShelfSeen(a) >= Head(task[a].items)
  /\ task' = [task EXCEPT ![a].at = "take", ![a].read = ShelfSeen(a)]
  /\ UNCHANGED <<holder, raced>>
  /\ InTransaction

\* ...it is taken out of it, whatever is left now...
TakeFromShelf(a) ==
  LET n == Head(task[a].items)
  IN  /\ At(a, "load", "take")
      /\ CanLock(a, "shelf")
      /\ task' = [task EXCEPT ![a].at = "look", ![a].shelf = ShelfSeen(a) - n,
                              ![a].shelfMoved = @ - n]
      /\ holder' = [holder EXCEPT !["shelf"] = a]
      /\ raced' = IF ShelfSeen(a) # task[a].read THEN raced \cup {"shelf"} ELSE raced
      /\ InTransaction

-----------------------------------------------------------------------------
(* createSale, createReturn, transferStockFromRep *)

\* createSale checks each item on its own, before the transaction...
CreateSale(a) ==
  \E items \in Baskets :
    /\ \A i \in DOMAIN items : van >= items[i]
    /\ Asks(a, "sell", "number", items)

\* ...whose first statement waits for the lock on the sale numbers.
TakeNumber(a) ==
  /\ At(a, "sell", "number")
  /\ CanLock(a, "numbers")
  /\ \E s \in Sales :
       /\ sale[s].status = "absent"
       /\ task' = [task EXCEPT ![a].at = "look", ![a].sale = s, ![a].total = Sum(task[a].items)]
  /\ holder' = [holder EXCEPT !["numbers"] = a]
  /\ UNCHANGED raced
  /\ InTransaction

CreateReturn(a) == \E items \in Baskets : Len(items) = 1 /\ Asks(a, "return", "look", items)

TransferStockFromRep(a) == \E items \in Baskets : Asks(a, "unload", "look", items)

\* All of them read the van's row, and a transfer back checks it...
LookAtVan(a) ==
  /\ task[a].at = "look"
  /\ task[a].op = "unload" => VanSeen(a) >= Head(task[a].items)
  /\ task' = [task EXCEPT ![a].at = "store", ![a].read = VanSeen(a)]
  /\ UNCHANGED <<holder, raced>>
  /\ InTransaction

\* Mutant of Stored: a load, too, writes the sum it has computed.
StoredAsRead(op, present, read, n) ==
  CASE op = "load" -> IF read = NoRow THEN n ELSE read + n
    [] op = "return" -> IF read = NoRow THEN n ELSE read + n
    [] op = "unload" -> read - n
    [] op = "sell" -> IF read = NoRow THEN present ELSE IF read > n THEN read - n ELSE 0

\* ...and write it: only a load adds to what is there now, a sale stops at zero.
Stored(op, present, read, n) ==
  CASE op = "load" -> IF read = NoRow THEN n ELSE present + n
    [] op = "return" -> IF read = NoRow THEN n ELSE read + n
    [] op = "unload" -> read - n
    [] op = "sell" -> IF read = NoRow THEN present ELSE IF read > n THEN read - n ELSE 0

\* A row created meanwhile makes a second create fail.
StoreInVan(a) ==
  LET t == task[a]
      n == Head(t.items)
      change == IF t.op \in {"load", "return"} THEN n ELSE -n
      stored == [t EXCEPT !.van = Stored(t.op, VanSeen(a), t.read, n), !.vanMoved = @ + change]
      lost == t.op # "load" /\ (VanSeen(a) # t.read \/ (t.op = "sell" /\ t.read < n))
  IN  /\ t.at = "store"
      /\ CanLock(a, "van")
      /\ t.read = NoRow => VanSeen(a) = NoRow
      /\ IF t.op = "unload"
         THEN /\ task' = [task EXCEPT ![a] = [stored EXCEPT !.at = "back"]]
              /\ holder' = [holder EXCEPT !["van"] = a]
              /\ InTransaction
         ELSE NextItem(a, stored, "van", IF t.op = "load" THEN "check" ELSE "look")
      /\ raced' = IF lost THEN raced \cup {"van"} ELSE raced

\* transferStockFromRep puts the item back on the shelf.
PutOnShelf(a) ==
  LET t == task[a]
      n == Head(t.items)
  IN  /\ At(a, "unload", "back")
      /\ CanLock(a, "shelf")
      /\ NextItem(a, [t EXCEPT !.shelf = ShelfSeen(a) + n, !.shelfMoved = @ + n], "shelf", "look")
      /\ UNCHANGED raced

-----------------------------------------------------------------------------
(* createCollection *)

CreateCollection(a) ==
  /\ task[a] = NoTask
  /\ \E s \in Sales, items \in Baskets :
       /\ Len(items) = 1
       /\ sale[s].status # "absent"
       /\ task' = [task EXCEPT ![a] = [NoTask EXCEPT !.op = "collect", !.at = "read",
                                                     !.items = items, !.sale = s]]
  /\ UNCHANGED <<van, vanMoves, shelf, shelfMoves, sale, collected, holder, raced>>

ReadSale(a) ==
  /\ At(a, "collect", "read")
  /\ task' = [task EXCEPT ![a].at = "write", ![a].read = sale[task[a].sale].paid]
  /\ UNCHANGED <<holder, raced>>
  /\ InTransaction

\* The amount is never compared with what is open.
WriteSale(a) ==
  LET s == task[a].sale
      amount == Head(task[a].items)
      paid == task[a].read + amount
  IN  /\ At(a, "collect", "write")
      /\ sale' = [sale EXCEPT ![s].paid = paid,
                    ![s].status = IF paid >= sale[s].total THEN "PAID" ELSE "PARTIAL"]
      /\ collected' = [collected EXCEPT ![s] = @ + amount]
      /\ task' = [task EXCEPT ![a] = NoTask]
      /\ raced' = IF sale[s].paid # task[a].read THEN raced \cup {s} ELSE raced
      /\ UNCHANGED <<van, vanMoves, shelf, shelfMoves, holder>>

-----------------------------------------------------------------------------
\* A check fails, the unique index objects, a deadlock (a load locks the shelf and
\* then the van, a transfer back the van and then the shelf), a crash.
FailRep(a) ==
  /\ task[a] # NoTask
  /\ task' = [task EXCEPT ![a] = NoTask]
  /\ holder' = Unlocked(a)
  /\ UNCHANGED raced
  /\ InTransaction

StartRep(a) ==
  \/ TransferStockToRep(a) \/ TransferStockFromRep(a) \/ CreateSale(a) \/ CreateReturn(a)
  \/ CreateCollection(a)

ContinueRep(a) ==
  \/ CheckShelf(a) \/ TakeFromShelf(a) \/ TakeNumber(a) \/ LookAtVan(a) \/ StoreInVan(a)
  \/ PutOnShelf(a) \/ ReadSale(a) \/ WriteSale(a) \/ FailRep(a)

RepNext == \E a \in Agents : StartRep(a) \/ ContinueRep(a)

RepSpec == RepInit /\ [][RepNext]_repVars

-----------------------------------------------------------------------------
(* Properties *)

\* Types.
RepTypeOK ==
  /\ van \in Nat \cup {NoRow}
  /\ vanMoves \in Int
  /\ shelf \in Int
  /\ shelfMoves \in Int
  /\ sale \in [Sales -> [status : SaleStatuses, total : Nat, paid : Nat]]
  /\ collected \in [Sales -> Nat]
  /\ task \in [Agents ->
       [op : {"none", "load", "unload", "sell", "return", "collect"},
        at : {"", "check", "take", "number", "look", "store", "back", "read", "write"},
        items : Seq(Nat), sale : Sales \cup {NoSale}, total : Nat, read : Int,
        van : Int, vanMoved : Int, shelf : Int, shelfMoved : Int]]
  /\ holder \in [{"van", "shelf", "numbers"} -> Agents \cup {NoAgent}]
  /\ raced \subseteq {"van", "shelf"} \cup Sales

\* The goods in the van and on the shelf are those their movements account for,
\* whatever loads overlap with them, and what is on the shelf is not taken twice.
\* A sale shows what was collected for it.  Excepted is what a request that writes
\* a value it computed from an earlier read has overwritten, or, for the shelf's
\* zero, taken after somebody else had.
GoodsAndCashAreTraced ==
  /\ "van" \notin raced => vanMoves = IF van = NoRow THEN 0 ELSE van
  /\ shelf = shelfMoves
  /\ "shelf" \notin raced => shelf >= 0
  /\ \A s \in Sales \ raced :
       /\ sale[s].paid = collected[s]
       /\ sale[s].status = "PAID" => sale[s].paid >= sale[s].total
=============================================================================
