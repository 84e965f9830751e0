--------------------------- MODULE Synchronisation ---------------------------
(***************************************************************************)
(* SyncService (src/backend-nest/src/sync/sync.service.ts) and the         *)
(* deletion tombstones (common/prisma/deletion-tombstones.ts): the         *)
(* factory's worker copies the rows of a table with `updatedAt' to the     *)
(* cloud's database and back, a page at a time, while both are in use.     *)
(* Every await of a tick ends an action.  Both sides' clocks agree.        *)
(***************************************************************************)
EXTENDS Integers, FiniteSets, SequencesExt

CONSTANTS
  Rows,       \* the ids of the table's rows, in the order of the ids
  PageSize,   \* PAGE_SIZE
  Overlap,    \* OVERLAP_MS
  Delay,      \* how long after its updatedAt a write may commit
  Longest     \* how long a tick lasts; the code sets no limit

ASSUME RowsAssumption == Rows \subseteq Nat
ASSUME PageSizeAssumption == PageSize \in Nat \ {0}
ASSUME OverlapAssumption ==
  {Overlap, Delay, Longest} \subseteq Nat /\ Delay + Longest < Overlap

VARIABLES
  table,        \* table[s][r]: updatedAt of row r at site s, 0 if it is not there
  tombstones,   \* tombstones[s]: sync_deletions at s
  checkpoint,   \* checkpoint[k]: sync_state, kept at the factory; 0 if not stored
  tick,         \* the tick in progress
  last,         \* last[r]: the newest updatedAt anybody has given row r
  deleted,      \* rows somebody has deleted, or tried to
  clobbered,    \* rows written at a site between the tick's look and its write there
  misstamped,   \* rows that got an updatedAt no newer than what they had, or one in use
  lapsed,       \* rows whose copy failed, or that a page has left out
  calm,         \* since the tick began nothing was written or failed
  clock

syncVars ==
  <<table, tombstones, checkpoint, tick, last, deleted, clobbered, misstamped, lapsed, calm,
    clock>>

Sites == {"factory", "cloud"}
Source(phase) == IF phase \in {"push", "delpush"} THEN "factory" ELSE "cloud"
Target(phase) == IF phase \in {"push", "delpush"} THEN "cloud" ELSE "factory"

Version == [row : Rows, at : Nat]

\* page: what is left of the page that was read; full: it had PageSize rows;
\* looked: the target's row has been read, and was `seen'.
Tick ==
  [phase : {"idle", "push", "pull", "delpush", "delpull"}, begun : Nat, cursor : Int,
   page : Seq(Version), full : BOOLEAN, looked : BOOLEAN, seen : Nat]

NoTick ==
  [phase |-> "idle", begun |-> 0, cursor |-> 0, page |-> << >>, full |-> FALSE,
   looked |-> FALSE, seen |-> 0]

SyncInit ==
  /\ table = [s \in Sites |-> [r \in Rows |-> 0]]
  /\ tombstones = [s \in Sites |-> {}]
  /\ checkpoint = [k \in {"push", "pull", "delpush", "delpull"} |-> 0]
  /\ tick = NoTick
  /\ last = [r \in Rows |-> 0]
  /\ deleted = {}
  /\ clobbered = {}
  /\ misstamped = {}
  /\ lapsed = {}
  /\ calm = FALSE
  /\ clock = 1

-----------------------------------------------------------------------------
(* The users of both sites *)

\* A new row, whose id is new, or an update.  updatedAt is the client's time or that of the
\* transaction's start, before it waits for the row: of two updates the later may have
\* the older one, or both the same.
Write(s, r) ==
  /\ last[r] = 0 \/ table[s][r] # 0
  /\ \E at \in {n \in (clock - Delay)..clock : n > 0} :
       /\ table' = [table EXCEPT ![s][r] = at]
       /\ last' = [last EXCEPT ![r] = IF at > @ THEN at ELSE @]
       /\ misstamped' = IF at < table[s][r] \/ (\E z \in Sites : at = table[z][r])
                        THEN misstamped \cup {r} ELSE misstamped
  /\ lapsed' = lapsed \ {r}
  /\ calm' = FALSE
  /\ UNCHANGED <<tombstones, checkpoint, tick, deleted, clobbered, clock>>

\* The deletion commits, or is rolled back with its transaction, and the
\* tombstone is written by another connection, or lost.
Delete(s, r) ==
  /\ table[s][r] # 0
  /\ r \notin deleted
  /\ \E gone, recorded \in BOOLEAN :
       /\ gone \/ recorded
       /\ table' = IF gone THEN [table EXCEPT ![s][r] = 0] ELSE table
       /\ tombstones' = IF recorded THEN [tombstones EXCEPT ![s] = @ \cup {[row |-> r, at |-> clock]}]
                        ELSE tombstones
  /\ deleted' = deleted \cup {r}
  /\ calm' = FALSE
  /\ UNCHANGED <<checkpoint, tick, last, clobbered, misstamped, lapsed, clock>>

\* OVERLAP_MS is for ticks and late commits that are shorter.
Pass ==
  /\ tick.phase = "idle" \/ clock < tick.begun + Longest
  /\ clock' = clock + 1
  /\ UNCHANGED <<table, tombstones, checkpoint, tick, last, deleted, clobbered, misstamped, lapsed, calm>>

-----------------------------------------------------------------------------
(* A tick of the worker *)

\* Mutant of Since: rows are read from the last one copied on.
SinceExactly(phase) == checkpoint[phase]

\* Rows that were written while an earlier tick ran are read again.
Since(phase) == IF checkpoint[phase] = 0 THEN 0 ELSE checkpoint[phase] - Overlap

Following ==
  [push |-> "pull", pull |-> "delpush", delpush |-> "delpull", delpull |-> "idle"]

Enter(phase, begun) ==
  tick' = IF phase = "idle" THEN NoTick
          ELSE [NoTick EXCEPT !.phase = phase, !.begun = begun, !.cursor = Since(phase)]

EnterNext == Enter(Following[tick.phase], tick.begun)

\* `running' keeps a second tick out.
BeginTick ==
  /\ tick.phase = "idle"
  /\ Enter("push", clock)
  /\ calm' = TRUE
  /\ UNCHANGED <<table, tombstones, checkpoint, last, deleted, clobbered, misstamped, lapsed, clock>>

\* The order of a page's rows.
Before(v, w) == v.at < w.at \/ (v.at = w.at /\ v.row < w.row)

\* The first n of the versions V.
FirstOf(V, n) ==
  {page \in [1..n -> V] :
     /\ \A i, j \in 1..n : i < j => Before(page[i], page[j])
     /\ \A i \in 1..n, v \in V \ Range(page) : Before(page[i], v)}

\* The source's versions that come after the cursor.
Upcoming ==
  LET s == Source(tick.phase)
  IN  {[row |-> r, at |-> table[s][r]] :
         r \in {r \in Rows : table[s][r] > 0 /\ table[s][r] > tick.cursor}}

\* pushModel, pullModel: the next rows by updatedAt and id.  Rows that have the
\* updatedAt of the page's last row and are not in it are never looked at.
ReadPage ==
  /\ tick.phase \in {"push", "pull"}
  /\ tick.page = << >>
  /\ \/ Upcoming = {} /\ EnterNext /\ UNCHANGED lapsed
     \/ \E n \in 1..PageSize : \E page \in FirstOf(Upcoming, n) :
          /\ n < PageSize => Range(page) = Upcoming
          /\ tick' = [tick EXCEPT !.full = (n = PageSize), !.page = page]
          /\ lapsed' = lapsed \cup
               {v.row : v \in {v \in Upcoming \ Range(page) : v.at = page[n].at}}
  /\ UNCHANGED <<table, tombstones, checkpoint, last, deleted, clobbered, misstamped, calm, clock>>

\* upsertRow looks for the row at the target...
LookAtTarget ==
  /\ tick.page # << >>
  /\ ~tick.looked
  /\ tick' = [tick EXCEPT !.looked = TRUE, !.seen = table[Target(tick.phase)][Head(tick.page).row]]
  /\ UNCHANGED <<table, tombstones, checkpoint, last, deleted, clobbered, misstamped, lapsed, calm, clock>>

\* The next row; after the last one the checkpoint is stored, and the next page
\* is read if this one was full.
Advance ==
  LET at == Head(tick.page).at
      done == Len(tick.page) = 1
  IN  /\ checkpoint' = IF done THEN [checkpoint EXCEPT ![tick.phase] = at] ELSE checkpoint
      /\ IF done /\ ~tick.full THEN EnterNext
         ELSE tick' = [tick EXCEPT !.page = Tail(@), !.cursor = at, !.looked = FALSE, !.seen = 0]

\* Mutant of IsNewer: the target's row is overwritten whatever its updatedAt.
IsThere(at) == tick.seen # 0

\* The source's version is newer than the one seen at the target.
IsNewer(at) == tick.seen # 0 /\ tick.seen < at

\* ...and creates it, if it was not there and is not there now, or updates it, if
\* the source's version is newer.
CopyRow ==
  LET t == Target(tick.phase)
      r == Head(tick.page).row
      at == Head(tick.page).at
      present == table[t][r]
  IN  /\ tick.looked
      /\ \/ /\ IsNewer(at)
            /\ present # 0
            /\ table' = [table EXCEPT ![t][r] = at]
            /\ clobbered' = IF present = tick.seen THEN clobbered ELSE clobbered \cup {r}
         \/ /\ ~IsNewer(at)
            /\ table' = IF tick.seen = 0 /\ present = 0 THEN [table EXCEPT ![t][r] = at] ELSE table
            /\ UNCHANGED clobbered
      /\ Advance
      /\ UNCHANGED <<tombstones, last, deleted, misstamped, lapsed, calm, clock>>

\* A statement throws: the row is recorded in sync_conflicts and passed over.
FailCopy ==
  /\ tick.page # << >>
  /\ lapsed' = lapsed \cup {Head(tick.page).row}
  /\ calm' = FALSE
  /\ Advance
  /\ UNCHANGED <<table, tombstones, last, deleted, clobbered, misstamped, clock>>

\* The oldest tombstones of the window, at most 2 * PAGE_SIZE of them: of those
\* with the same time, any.
Oldest ==
  LET window == {d \in tombstones[Source(tick.phase)] : d.at > tick.cursor}
      n == IF Cardinality(window) < 2 * PageSize THEN Cardinality(window) ELSE 2 * PageSize
  IN  {D \in SUBSET window : /\ Cardinality(D) = n
                            /\ \A d \in D, e \in window \ D : d.at <= e.at}

\* pushDeletions, pullDeletions
ReplayDeletions ==
  /\ tick.phase \in {"delpush", "delpull"}
  /\ \E oldest \in Oldest :
       /\ table' = [table EXCEPT ![Target(tick.phase)] =
            [r \in Rows |-> IF \E d \in oldest : d.row = r THEN 0 ELSE @[r]]]
       /\ \/ oldest = {} /\ UNCHANGED checkpoint
          \/ \E d \in oldest : /\ \A e \in oldest : e.at <= d.at
                               /\ checkpoint' = [checkpoint EXCEPT ![tick.phase] = d.at]
  /\ EnterNext
  /\ UNCHANGED <<tombstones, last, deleted, clobbered, misstamped, lapsed, calm, clock>>

\* The other side refuses the deletions: its checkpoint stays.
FailDeletions ==
  /\ tick.phase \in {"delpush", "delpull"}
  /\ EnterNext
  /\ calm' = FALSE
  /\ UNCHANGED <<table, tombstones, checkpoint, last, deleted, clobbered, misstamped, lapsed, clock>>

\* A read throws, or the process stops.
AbortTick ==
  /\ tick.phase # "idle"
  /\ tick' = NoTick
  /\ calm' = FALSE
  /\ UNCHANGED <<table, tombstones, checkpoint, last, deleted, clobbered, misstamped, lapsed, clock>>

Use(s) == \E r \in Rows : Write(s, r) \/ Delete(s, r)

Work ==
  \/ ReadPage \/ LookAtTarget \/ CopyRow \/ FailCopy
  \/ ReplayDeletions \/ FailDeletions \/ AbortTick

SyncNext == Pass \/ BeginTick \/ Work \/ \E s \in Sites : Use(s)

SyncSpec == SyncInit /\ [][SyncNext]_syncVars

-----------------------------------------------------------------------------
(* Properties *)

\* Types.
SyncTypeOK ==
  /\ table \in [Sites -> [Rows -> Nat]]
  /\ \A s \in Sites : tombstones[s] \subseteq Version
  /\ checkpoint \in [DOMAIN Following -> Nat]
  /\ tick \in Tick
  /\ last \in [Rows -> Nat]
  /\ deleted \subseteq Rows
  /\ clobbered \subseteq Rows
  /\ misstamped \subseteq Rows
  /\ lapsed \subseteq Rows
  /\ calm \in BOOLEAN
  /\ clock \in Nat

\* "Last-writer-wins per row": the newest version of a row is at one of the sites
\* at least, whatever pages, ticks and failures come between, but for a row that
\* is written at the target just when upsertRow has read it there, and for one whose
\* stamps do not tell which version is newer.
NewestVersionSurvives ==
  \A r \in Rows \ (deleted \cup clobbered \cup misstamped) :
    \E s \in Sites : table[s][r] = last[r]

\* "Rows written while a previous tick was running are not missed": a tick that
\* nobody disturbs leaves both sites with the same versions, late commits and
\* earlier ticks that were aborted notwithstanding.  Excepted are rows whose
\* copy has failed or that a page has left out, until they are written again, and those
\* of which a stamp does not name one version.
CalmTicksConverge ==
  tick.phase = "idle" /\ calm =>
    \A r \in Rows \ (deleted \cup lapsed \cup misstamped) :
      table["factory"][r] = table["cloud"][r]

\* Versions neither get lost nor stay behind.
VersionsAreKept == NewestVersionSurvives /\ CalmTicksConverge
=============================================================================
