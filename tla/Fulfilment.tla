----------------------------- MODULE Fulfilment -----------------------------
(***************************************************************************)
(* Pick lists and shipments: PickingService and ShippingService            *)
(* (src/backend-nest/src/fulfillment).  A handler reads its list or        *)
(* shipment, checks the status and then writes a new one without looking   *)
(* again.  recordPicks writes the lines, counts those that are done as its *)
(* transaction sees them and writes the list.                              *)
(***************************************************************************)
EXTENDS Integers, FiniteSets

CONSTANTS
  PickLists,    \* pick_lists rows
  PickLines,    \* the lines of each
  Wanted,       \* quantityRequested of a line
  Shipments,    \* shipments rows
  NoTarget,     \* the row of a request that has none
  Pickers       \* the requests in progress

ASSUME WantedAssumption == Wanted \in Nat \ {0}
ASSUME PickLinesAssumption == IsFiniteSet(PickLines) /\ PickLines # {}
ASSUME NoTargetAssumption == NoTarget \notin PickLists \cup Shipments

VARIABLES
  pickList,    \* pickList[k]: status and completedLines
  picked,      \* picked[k][i]: quantityPicked
  shipment,    \* shipment[s]: status, and whether shippedAt is set
  job,         \* job[p]: what request p has read and will write
  together,    \* lists that two requests worked on at once
  lowered      \* lists of which one of those took picks back

fulfilmentVars == <<pickList, picked, shipment, job, together, lowered>>

PickStatuses == {"absent", "PENDING", "ASSIGNED", "IN_PROGRESS", "COMPLETED", "CANCELLED"}

\* Where updateStatus lets a shipment go.
AllowedNext ==
  [absent |-> {}, PENDING |-> {"LABELED", "CANCELLED"}, LABELED |-> {"DISPATCHED", "CANCELLED"},
   DISPATCHED |-> {"IN_TRANSIT", "DELIVERED", "RETURNED"}, IN_TRANSIT |-> {"DELIVERED", "RETURNED"},
   DELIVERED |-> {"RETURNED"}, RETURNED |-> {}, CANCELLED |-> {}]
ShipmentStatuses == DOMAIN AllowedNext

\* lines: the quantities a record will write, or its transaction has written;
\* n: the lines it has counted.
Job ==
  [op : {"none", "set", "record", "count", "finish", "ship", "label"},
   at : {NoTarget} \cup PickLists \cup Shipments, status : PickStatuses \cup ShipmentStatuses,
   lines : UNION {[I -> 0 .. Wanted] : I \in SUBSET PickLines}, n : Nat, shipped : BOOLEAN]

NoLines == [i \in {} |-> 0]
NoJob ==
  [op |-> "none", at |-> NoTarget, status |-> "absent", lines |-> NoLines, n |-> 0,
   shipped |-> FALSE]

FulfilmentInit ==
  /\ pickList = [k \in PickLists |-> [status |-> "absent", n |-> 0]]
  /\ picked = [k \in PickLists |-> [i \in PickLines |-> 0]]
  /\ shipment = [s \in Shipments |-> [status |-> "absent", shipped |-> FALSE]]
  /\ job = [p \in Pickers |-> NoJob]
  /\ together = {}
  /\ lowered = {}

At(k) == {p \in Pickers : job[p].at = k}
JobEnds(p) == job' = [job EXCEPT ![p] = NoJob]
SameGoods == UNCHANGED <<pickList, picked, shipment>>

-----------------------------------------------------------------------------
(* PickingService *)

CreatePickList(k) ==
  /\ pickList[k].status = "absent"
  /\ \E s \in {"PENDING", "ASSIGNED"} : pickList' = [pickList EXCEPT ![k].status = s]
  /\ UNCHANGED <<picked, shipment, job, together, lowered>>

ReadList(p, k, todo) ==
  /\ job[p] = NoJob
  /\ job' = [job EXCEPT ![p] = todo]
  /\ together' = IF At(k) # {} THEN together \cup {k} ELSE together
  /\ lowered' = IF \E q \in At(k) : \E i \in DOMAIN job[q].lines :
                     job[q].lines[i] < picked[k][i]
                THEN lowered \cup {k} ELSE lowered
  /\ SameGoods

\* assign, start and cancel: each refuses other states.
ReadListForStatus(p, k) ==
  \E s \in {"ASSIGNED", "IN_PROGRESS", "CANCELLED"} :
    /\ pickList[k].status \notin {"absent", "COMPLETED"}
    /\ s = "IN_PROGRESS" => pickList[k].status # "CANCELLED"
    /\ ReadList(p, k, [NoJob EXCEPT !.op = "set", !.at = k, !.status = s])

SetListStatus(p) ==
  /\ job[p].op = "set"
  /\ pickList' = [pickList EXCEPT ![job[p].at].status = job[p].status]
  /\ JobEnds(p)
  /\ UNCHANGED <<picked, shipment, together, lowered>>

\* recordPicks, before its transaction
ReadListForRecord(p, k) ==
  \E I \in SUBSET PickLines \ {{}} : \E lines \in [I -> 0 .. Wanted] :
    /\ pickList[k].status \notin {"absent", "COMPLETED", "CANCELLED"}
    /\ ReadList(p, k, [NoJob EXCEPT !.op = "record", !.at = k, !.lines = lines])

\* The lines are locked until the transaction commits.
WriteLines(p) ==
  /\ job[p].op = "record"
  /\ \A q \in At(job[p].at) \ {p} :
       job[q].op \in {"count", "finish"} => DOMAIN job[q].lines \cap DOMAIN job[p].lines = {}
  /\ job' = [job EXCEPT ![p].op = "count"]
  /\ lowered' = IF /\ At(job[p].at) # {p}
                   /\ \E i \in DOMAIN job[p].lines : job[p].lines[i] < picked[job[p].at][i]
                THEN lowered \cup {job[p].at} ELSE lowered
  /\ UNCHANGED together
  /\ SameGoods

\* What the transaction sees: its own lines and the committed ones.
LinesSeen(p) == [i \in PickLines |-> IF i \in DOMAIN job[p].lines THEN job[p].lines[i]
                                     ELSE picked[job[p].at][i]]
DoneOf(lines) == Cardinality({i \in DOMAIN lines : lines[i] >= Wanted})

\* Mutant of Counted: a line that was picked at all is done.
CountedIfTouched(p) == Cardinality({i \in PickLines : LinesSeen(p)[i] > 0})

Counted(p) == DoneOf(LinesSeen(p))

CountLines(p) ==
  /\ job[p].op = "count"
  /\ job' = [job EXCEPT ![p].op = "finish", ![p].n = Counted(p)]
  /\ UNCHANGED <<together, lowered>>
  /\ SameGoods

CommitPicks(p) ==
  LET k == job[p].at
  IN  /\ job[p].op = "finish"
      /\ picked' = [picked EXCEPT ![k] = LinesSeen(p)]
      /\ pickList' = [pickList EXCEPT ![k] =
           [status |-> IF job[p].n >= Cardinality(PickLines) THEN "COMPLETED" ELSE "IN_PROGRESS",
            n |-> job[p].n]]
      /\ JobEnds(p)
      /\ UNCHANGED <<shipment, together, lowered>>

-----------------------------------------------------------------------------
(* ShippingService *)

CreateShipment(s) ==
  /\ shipment[s].status = "absent"
  /\ shipment' = [shipment EXCEPT ![s].status = "PENDING"]
  /\ UNCHANGED <<pickList, picked, job, together, lowered>>

ReadShipment(p, s, todo) ==
  /\ job[p] = NoJob
  /\ shipment[s].status # "absent"
  /\ job' = [job EXCEPT ![p] = todo]
  /\ UNCHANGED <<together, lowered>>
  /\ SameGoods

\* Mutant of MayMoveTo: the transition table is not asked.
MayMoveAnywhere(s, status) == status \notin {"absent", "PENDING"}

MayMoveTo(s, status) == status \in AllowedNext[shipment[s].status]

\* updateStatus, which writes shippedAt back as it has read it.
ReadShipmentForStatus(p, s) ==
  \E status \in ShipmentStatuses :
    /\ MayMoveTo(s, status)
    /\ ReadShipment(p, s, [NoJob EXCEPT !.op = "ship", !.at = s, !.status = status,
                             !.shipped = shipment[s].shipped \/ status = "DISPATCHED"])

UpdateShipmentStatus(p) ==
  /\ job[p].op = "ship"
  /\ shipment' = [shipment EXCEPT ![job[p].at] =
                    [status |-> job[p].status, shipped |-> job[p].shipped]]
  /\ JobEnds(p)
  /\ UNCHANGED <<pickList, picked, together, lowered>>

\* generateLabel asks for no status.
ReadShipmentForLabel(p, s) == ReadShipment(p, s, [NoJob EXCEPT !.op = "label", !.at = s])

GenerateLabel(p) ==
  /\ job[p].op = "label"
  /\ shipment' = [shipment EXCEPT ![job[p].at].status = "LABELED"]
  /\ JobEnds(p)
  /\ UNCHANGED <<pickList, picked, together, lowered>>

-----------------------------------------------------------------------------
FailFulfilment(p) ==
  /\ job[p] # NoJob
  /\ JobEnds(p)
  /\ UNCHANGED <<together, lowered>>
  /\ SameGoods

StartFulfilment(p) ==
  \/ \E k \in PickLists : ReadListForStatus(p, k) \/ ReadListForRecord(p, k)
  \/ \E s \in Shipments : ReadShipmentForStatus(p, s) \/ ReadShipmentForLabel(p, s)

ContinueFulfilment(p) ==
  \/ SetListStatus(p) \/ WriteLines(p) \/ CountLines(p) \/ CommitPicks(p)
  \/ UpdateShipmentStatus(p) \/ GenerateLabel(p) \/ FailFulfilment(p)

FulfilmentNext ==
  \/ \E k \in PickLists : CreatePickList(k)
  \/ \E s \in Shipments : CreateShipment(s)
  \/ \E p \in Pickers : StartFulfilment(p) \/ ContinueFulfilment(p)

FulfilmentSpec == FulfilmentInit /\ [][FulfilmentNext]_fulfilmentVars

-----------------------------------------------------------------------------
(* Properties *)

\* Types.
FulfilmentTypeOK ==
  /\ pickList \in [PickLists -> [status : PickStatuses, n : Nat]]
  /\ picked \in [PickLists -> [PickLines -> 0 .. Wanted]]
  /\ shipment \in [Shipments -> [status : ShipmentStatuses, shipped : BOOLEAN]]
  /\ job \in [Pickers -> Job]
  /\ together \subseteq PickLists
  /\ lowered \subseteq PickLists

\* A list is completed only when all its lines are picked, whatever requests
\* overlap, unless one takes picks back meanwhile; and it is completed as soon as
\* they are, and counts them, unless requests overlapped on it.  A shipment that is
\* said to be under way, delivered or returned has left (shipping.service.ts:271:
\* "that is how a consignment ends up marked delivered while its parcels are still
\* on the dock"), whoever prints labels for it or cancels it at the same time.
FulfilmentIsTraced ==
  /\ \A k \in PickLists :
       /\ k \notin lowered /\ pickList[k].status = "COMPLETED" =>
            DoneOf(picked[k]) = Cardinality(PickLines)
       /\ k \notin together =>
            /\ pickList[k].n = DoneOf(picked[k])
            /\ DoneOf(picked[k]) = Cardinality(PickLines) => pickList[k].status = "COMPLETED"
  /\ \A s \in Shipments :
       shipment[s].status \in {"DISPATCHED", "IN_TRANSIT", "DELIVERED", "RETURNED"} =>
         shipment[s].shipped
=============================================================================
