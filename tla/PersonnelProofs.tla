-------------------------- MODULE PersonnelProofs ---------------------------
(***************************************************************************)
(* Proofs about the personnel: PayrollRuns, Salaries and Employment, which *)
(* extends it, Attendance, and the joint types with Payslips.              *)
(*                                                                         *)
(* For any number of runs, processes, batches, attempts and stalls:        *)
(* completed runs are complete, no run is stuck, and a calculated period   *)
(* keeps a run.  None of them is inductive.  They rest on who may hold a   *)
(* run: a process that has created one is alone with it until it hands it  *)
(* to the queue or computes it (CreatorIsAlone), and unless a run was      *)
(* doubled, one process at most computes it (OneComputes), as the worker   *)
(* that owns its job or for a job that still waits (WorkersOwnTheirJobs,   *)
(* InlineBeforeTheJob).                                                    *)
(*                                                                         *)
(* For any finite staff, any buses, months, amounts and number of          *)
(* requests: the mirror of a salary follows the record and payroll pays    *)
(* what is due; and what employees are paid, charged and given adds up;    *)
(* both with the exceptions that the properties name.                      *)
(*                                                                         *)
(* For any employees, instants, punches and requests: the logs of a day    *)
(* that is not in doubt are those of its punches, nothing is charged twice *)
(* and nobody punches on a day of hard leave that is not rushed. That      *)
(* rests on what a request has found still holding on such days            *)
(* (LooksHold), on rows that stay with their employee, and on a            *)
(* calculation of a day without doubt being alone with what it has read    *)
(* (DayIsRight).                                                           *)
(***************************************************************************)
EXTENDS Personnel, PayslipsProofs

-----------------------------------------------------------------------------
(* Payroll runs *)

Creating == CleaningUp \cup {"enqueue"}

Creates(p, r) == proc[p].run = r /\ proc[p].at \in Creating
Computes(p, r) == proc[p].run = r /\ proc[p].at \in Computing

\* The shape of a process.
ProcessesAreSane ==
  \A p \in Procs :
    /\ proc[p].at = "idle" => proc[p].run = NoRun
    /\ proc[p].at # "idle" => proc[p].run \in Runs
    /\ proc[p].at = "deleting" => proc[p].old \in Runs
    /\ proc[p].at \in CleaningUp => proc[p].old # proc[p].run
    /\ proc[p].at \in Creating => proc[p].via \in {"calculate", "async"}
    /\ proc[p].at \in Computing \cup Marking => proc[p].via \in {"calculate", "async", "job"}
    /\ proc[p].at \in Creating \cup {"check", "start", "clear"} => proc[p].inserted = 0

OwnersAreActive == \A r \in Runs : jobs[r].owner # NoProc => jobs[r].state = "active"

\* Nobody has heard of a run that is not there yet.
AbsentRunsAreUnknown ==
  \A r \in Runs : runs[r].status = "absent" =>
    jobs[r].state = "none" /\ \A p \in Procs : proc[p].run # r

\* A process that has created a run and not handed it on is alone with it.
CreatorIsAlone ==
  \A p \in Procs, r \in Runs : Creates(p, r) =>
    /\ jobs[r].state = "none"
    /\ \A q \in Procs \ {p} : proc[q].run = r => proc[q].at = "delete"

\* One process at most computes a run that was not doubled...
OneComputes ==
  \A r \in Runs \ doubled : \A p, q \in Procs : Computes(p, r) /\ Computes(q, r) => p = q

\* ...as the worker that owns its job, unless it waits again...
WorkersOwnTheirJobs ==
  \A r \in Runs \ (doubled \cup abandoned) : \A p \in Procs :
    Computes(p, r) /\ proc[p].via = "job" => jobs[r].state = "waiting" \/ jobs[r].owner = p

\* ...or inside the request, before there is a job that runs.
InlineBeforeTheJob ==
  \A r \in Runs \ doubled : \A p \in Procs :
    Computes(p, r) /\ proc[p].via # "job" => jobs[r].state \in {"none", "waiting"}

Control ==
  /\ ProcessesAreSane /\ OwnersAreActive /\ AbsentRunsAreUnknown
  /\ CreatorIsAlone /\ OneComputes /\ WorkersOwnTheirJobs /\ InlineBeforeTheJob

\* What the process that computes a run has inserted is what there is, and the
\* run does not say that it is completed.
ItemsAreWhatWasInserted ==
  \A r \in Runs \ doubled : \A p \in Procs :
    /\ Computes(p, r) /\ proc[p].at \in {"clear", "insert"} => runs[r].status # "completed"
    /\ Computes(p, r) /\ proc[p].at = "insert" /\ Exists(r) => items[r] = 1..proc[p].inserted

\* Attended, without those who will not come back to the run.
WillBeEnded(r) ==
  \/ \E p \in Procs : /\ proc[p].run = r /\ proc[p].via \in {"calculate", "async"}
                      /\ proc[p].at \in Creating \cup Computing \cup {"fail"}
  \/ \E p \in Procs : proc[p].run = r /\ proc[p].at = "failAgain"
  \/ jobs[r].state \in {"waiting", "active"}

\* A run that is not over has somebody to end it.
UnfinishedRunsWillBeEnded ==
  \A r \in Runs \ (abandoned \cup doubled) :
    runs[r].status \in {"queued", "processing"} => WillBeEnded(r)

\* Calculations that do not overlap clean up one at a time, with their run in
\* place.
CleanupsAreSingle ==
  ~crossed =>
    /\ \A p, q \in Procs :
         proc[p].at \in CleaningUp /\ proc[q].at \in CleaningUp => p = q
    /\ ~erased => \A p \in Procs : proc[p].at \in CleaningUp => Exists(proc[p].run)

PayrollInvariant ==
  /\ PayrollTypeOK /\ Control
  /\ CompletedRunsAreComplete /\ ItemsAreWhatWasInserted
  /\ UnfinishedRunsWillBeEnded
  /\ CleanupsAreSingle /\ PeriodKeepsARun

-----------------------------------------------------------------------------
\* Nothing has happened yet.
LEMMA PayrollStarts == Init => PayrollInvariant
<1> SUFFICES ASSUME Init PROVE PayrollInvariant
  OBVIOUS
<1>1. /\ \A p \in Procs : proc[p] = Free
      /\ \A r \in Runs : runs[r] = NotYet /\ jobs[r] = NoJob
  BY DEF Init
<1>2. PayrollTypeOK
  BY DEF Init, PayrollTypeOK, NotYet, NoJob, Free, Run, Job, Process
<1>3. Control
  BY <1>1, NoRunAssumption
     DEF Control, ProcessesAreSane, OwnersAreActive, AbsentRunsAreUnknown, CreatorIsAlone,
         OneComputes, WorkersOwnTheirJobs, InlineBeforeTheJob, Creates, Computes, Creating,
         CleaningUp, Computing, Marking, NoJob, Free
<1>4. CompletedRunsAreComplete /\ ItemsAreWhatWasInserted /\ UnfinishedRunsWillBeEnded
  BY <1>1, NoRunAssumption
     DEF CompletedRunsAreComplete, ItemsAreWhatWasInserted, UnfinishedRunsWillBeEnded,
         Computes, NotYet, Free
<1>5. CleanupsAreSingle /\ PeriodKeepsARun
  BY <1>1 DEF CleanupsAreSingle, PeriodKeepsARun, CleaningUp, NotYet, Free
<1> QED
  BY <1>2, <1>3, <1>4, <1>5 DEF PayrollInvariant

-----------------------------------------------------------------------------
(* What the actions assign, field by field *)

ProcBecomes(p, at, via, theRun, old, inserted) ==
  /\ proc' \in [Procs -> Process]
  /\ proc'[p].at = at /\ proc'[p].via = via /\ proc'[p].run = theRun
  /\ proc'[p].old = old /\ proc'[p].inserted = inserted
  /\ \A q \in Procs \ {p} : proc'[q] = proc[q]

RunBecomes(r, status) ==
  /\ runs' \in [Runs -> Run]
  /\ runs'[r].status = status
  /\ \A s \in Runs \ {r} : runs'[s] = runs[s]

JobBecomes(r, state, owner) ==
  /\ jobs' \in [Runs -> Job]
  /\ jobs'[r].state = state /\ jobs'[r].owner = owner
  /\ \A s \in Runs \ {r} : jobs'[s] = jobs[s]

Places == {"idle", "enqueue", "delete"} \cup CleaningUp \cup Computing \cup Marking

\* A process that becomes P is one, and the others stay.
LEMMA NewProcess ==
  ASSUME PayrollTypeOK, NEW p \in Procs, NEW P \in Process, proc' = [proc EXCEPT ![p] = P]
  PROVE  ProcBecomes(p, P.at, P.via, P.run, P.old, P.inserted)
BY DEF PayrollTypeOK, ProcBecomes

\* A process that goes on keeps the rest.
LEMMA GoesOn ==
  ASSUME PayrollTypeOK, NEW p \in Procs, NEW at \in Places, Goes(p, at)
  PROVE  ProcBecomes(p, at, proc[p].via, proc[p].run, proc[p].old, proc[p].inserted)
<1> DEFINE P == [proc[p] EXCEPT !.at = at]
<1>1. proc[p] \in Process
  BY DEF PayrollTypeOK
<1>2. /\ P \in Process /\ P.at = at
      /\ P.via = proc[p].via /\ P.run = proc[p].run
      /\ P.old = proc[p].old /\ P.inserted = proc[p].inserted
  BY <1>1 DEF Process, Places
<1>3. proc' = [proc EXCEPT ![p] = P]
  BY DEF Goes
<1> HIDE DEF P
<1>4. ProcBecomes(p, P.at, P.via, P.run, P.old, P.inserted)
  BY <1>2, <1>3, NewProcess
<1> QED
  BY <1>2, <1>4

\* A process that ends is free.
LEMMA EndsFree ==
  ASSUME PayrollTypeOK, NEW p \in Procs, Ends(p)
  PROVE  ProcBecomes(p, "idle", "delete", NoRun, NoRun, 0)
<1>1. Free \in Process
  BY DEF Free, Process
<1>2. proc' = [proc EXCEPT ![p] = Free]
  BY DEF Ends
<1>3. ProcBecomes(p, Free.at, Free.via, Free.run, Free.old, Free.inserted)
  BY <1>1, <1>2, NewProcess
<1> QED
  BY <1>3 DEF Free

\* A process that takes up a run.
LEMMA TakesUp ==
  ASSUME PayrollTypeOK, NEW p \in Procs, NEW at \in Places, NEW r \in Runs,
         NEW via \in {"calculate", "async", "job", "delete"},
         proc' = [proc EXCEPT ![p] = [Free EXCEPT !.at = at, !.via = via, !.run = r]]
  PROVE  ProcBecomes(p, at, via, r, NoRun, 0)
<1> DEFINE P == [Free EXCEPT !.at = at, !.via = via, !.run = r]
<1>1. Free \in Process /\ Free.old = NoRun /\ Free.inserted = 0
  BY DEF Free, Process
<1>2. /\ P \in Process /\ P.at = at /\ P.via = via /\ P.run = r
      /\ P.old = NoRun /\ P.inserted = 0
  BY <1>1 DEF Process, Places
<1> HIDE DEF P
<1>3. ProcBecomes(p, P.at, P.via, P.run, P.old, P.inserted)
  BY <1>2, NewProcess DEF P
<1> QED
  BY <1>2, <1>3

\* A process that is about to delete a run.
LEMMA TakesUpForDelete ==
  ASSUME PayrollTypeOK, NEW p \in Procs, NEW r \in Runs,
         proc' = [proc EXCEPT ![p] = [Free EXCEPT !.at = "delete", !.run = r]]
  PROVE  ProcBecomes(p, "delete", "delete", r, NoRun, 0)
<1> DEFINE P == [Free EXCEPT !.at = "delete", !.run = r]
<1>1. Free \in Process /\ Free.via = "delete" /\ Free.old = NoRun /\ Free.inserted = 0
  BY DEF Free, Process
<1>2. /\ P \in Process /\ P.at = "delete" /\ P.via = "delete" /\ P.run = r
      /\ P.old = NoRun /\ P.inserted = 0
  BY <1>1 DEF Process
<1> HIDE DEF P
<1>3. ProcBecomes(p, P.at, P.via, P.run, P.old, P.inserted)
  BY <1>2, NewProcess DEF P
<1> QED
  BY <1>2, <1>3

\* A process that goes on with or without a run to delete.
LEMMA GoesOnWith ==
  ASSUME PayrollTypeOK, NEW p \in Procs, NEW at \in Places, NEW old \in Runs \cup {NoRun},
         proc' = [proc EXCEPT ![p].at = at, ![p].old = old]
  PROVE  ProcBecomes(p, at, proc[p].via, proc[p].run, old, proc[p].inserted)
<1> DEFINE Q == [proc[p] EXCEPT !.at = at]
           P == [Q EXCEPT !.old = old]
<1>1. proc[p] \in Process
  BY DEF PayrollTypeOK
<1>2. /\ Q \in Process /\ Q.at = at
      /\ Q.via = proc[p].via /\ Q.run = proc[p].run /\ Q.inserted = proc[p].inserted
  BY <1>1 DEF Process, Places
<1>3. proc' = [[proc EXCEPT ![p] = Q] EXCEPT ![p].old = old]
  OBVIOUS
<1> HIDE DEF Q
<1>4. proc' = [proc EXCEPT ![p] = P]
  BY <1>3 DEF PayrollTypeOK
<1>5. /\ P \in Process /\ P.at = at
      /\ P.via = proc[p].via /\ P.run = proc[p].run
      /\ P.old = old /\ P.inserted = proc[p].inserted
  BY <1>2 DEF Process
<1> HIDE DEF P
<1>6. ProcBecomes(p, P.at, P.via, P.run, P.old, P.inserted)
  BY <1>4, <1>5, NewProcess
<1> QED
  BY <1>5, <1>6

\* A process that has inserted one more batch.
LEMMA InsertsOne ==
  ASSUME PayrollTypeOK, NEW p \in Procs, proc' = [proc EXCEPT ![p].inserted = @ + 1]
  PROVE  ProcBecomes(p, proc[p].at, proc[p].via, proc[p].run, proc[p].old,
                     proc[p].inserted + 1)
<1> DEFINE P == [proc[p] EXCEPT !.inserted = @ + 1]
<1>1. proc[p] \in Process
  BY DEF PayrollTypeOK
<1>2. /\ P \in Process /\ P.at = proc[p].at
      /\ P.via = proc[p].via /\ P.run = proc[p].run
      /\ P.old = proc[p].old /\ P.inserted = proc[p].inserted + 1
  BY <1>1 DEF Process
<1>3. proc' = [proc EXCEPT ![p] = P]
  OBVIOUS
<1> HIDE DEF P
<1>4. ProcBecomes(p, P.at, P.via, P.run, P.old, P.inserted)
  BY <1>2, <1>3, NewProcess
<1> QED
  BY <1>2, <1>4

\* A run's row, when its status changes and when it is deleted.
LEMMA StatusSet ==
  ASSUME PayrollTypeOK, NEW r \in Runs, NEW status \in Statuses,
         runs' = [runs EXCEPT ![r].status = status]
  PROVE  RunBecomes(r, status)
<1> DEFINE R == [runs[r] EXCEPT !.status = status]
<1>1. R \in Run /\ R.status = status
  BY DEF PayrollTypeOK, Run
<1>2. runs' = [runs EXCEPT ![r] = R]
  OBVIOUS
<1> HIDE DEF R
<1> QED
  BY <1>1, <1>2 DEF PayrollTypeOK, RunBecomes

\* A run that is approved or rejected.
LEMMA DecisionSet ==
  ASSUME PayrollTypeOK, NEW r \in Runs, NEW status \in Statuses,
         NEW approval \in {"approved", "rejected"},
         runs' = [runs EXCEPT ![r].status = status, ![r].approval = approval]
  PROVE  RunBecomes(r, status)
<1> DEFINE R == [runs[r] EXCEPT !.status = status, !.approval = approval]
<1>1. R \in Run /\ R.status = status
  BY DEF PayrollTypeOK, Run
<1>2. runs' = [runs EXCEPT ![r] = R]
  BY DEF PayrollTypeOK
<1> HIDE DEF R
<1> QED
  BY <1>1, <1>2 DEF PayrollTypeOK, RunBecomes

\* A run that is deleted with its items.
LEMMA RunDeleted ==
  ASSUME PayrollTypeOK, NEW r \in Runs, WithoutRun(r)
  PROVE  /\ RunBecomes(r, "deleted")
         /\ items' \in [Runs -> SUBSET (1..NumBatches)]
         /\ \A s \in Runs \ {r} : items'[s] = items[s]
<1>1. [NotYet EXCEPT !.status = "deleted"] = [status |-> "deleted", approval |-> "pending"]
  BY DEF NotYet
<1> QED
  BY <1>1 DEF PayrollTypeOK, RunBecomes, WithoutRun, Run

\* The batches up to one more.
LEMMA OneMoreBatch == \A n \in Nat : (1..n) \cup {n + 1} = 1..(n + 1)
OBVIOUS

\* A run that is marked as failed, or is not there, or is left as it is.
MarkEnds(r, last) ==
  \/ UNCHANGED <<runs, abandoned>> /\ (Exists(r) => ~last)
  \/ RunBecomes(r, "failed") /\ Exists(r) /\ UNCHANGED abandoned
  \/ UNCHANGED runs /\ abandoned' = abandoned \cup {r}

LEMMA MarkingEnds ==
  ASSUME PayrollTypeOK, ProcessesAreSane, NEW p \in Procs, proc[p].at # "idle",
         NEW last \in BOOLEAN, Mark(proc[p].run, last)
  PROVE  MarkEnds(proc[p].run, last)
<1>1. proc[p].run \in Runs /\ "failed" \in Statuses
  BY DEF ProcessesAreSane, Statuses
<1> QED
  BY <1>1, StatusSet DEF Mark, MarkEnds

\* One job is replaced.
LEMMA NewJob ==
  ASSUME NEW N \in [Runs -> Job], NEW r \in Runs, NEW J \in Job, jobs' = [N EXCEPT ![r] = J],
         \A s \in Runs \ {r} : N[s] = jobs[s]
  PROVE  JobBecomes(r, J.state, J.owner)
BY DEF JobBecomes

\* A job that the queue takes, hands on or has done.
LEMMA JobWaits ==
  ASSUME PayrollTypeOK, NEW r \in Runs, jobs' = [jobs EXCEPT ![r].state = "waiting"]
  PROVE  JobBecomes(r, "waiting", jobs[r].owner)
<1> DEFINE J == [jobs[r] EXCEPT !.state = "waiting"]
<1>1. J \in Job /\ J.state = "waiting" /\ J.owner = jobs[r].owner
  BY DEF PayrollTypeOK, Job
<1>2. jobs' = [jobs EXCEPT ![r] = J]
  OBVIOUS
<1> HIDE DEF J
<1>3. jobs \in [Runs -> Job]
  BY DEF PayrollTypeOK
<1> QED
  BY <1>1, <1>2, <1>3, NewJob

\* A job with a new state and a new owner.
LEMMA JobHandedTo ==
  ASSUME PayrollTypeOK, NEW r \in Runs, NEW state \in {"none", "waiting", "active", "done"},
         NEW owner \in Procs \cup {NoProc},
         jobs' = [jobs EXCEPT ![r].state = state, ![r].owner = owner]
  PROVE  JobBecomes(r, state, owner)
<1> DEFINE J == [jobs[r] EXCEPT !.state = state, !.owner = owner]
<1>1. J \in Job /\ J.state = state /\ J.owner = owner
  BY DEF PayrollTypeOK, Job
<1>2. jobs' = [jobs EXCEPT ![r] = J]
  BY DEF PayrollTypeOK
<1> HIDE DEF J
<1>3. jobs \in [Runs -> Job]
  BY DEF PayrollTypeOK
<1> QED
  BY <1>1, <1>2, <1>3, NewJob

\* A job whose attempt has failed.
LEMMA JobTried ==
  ASSUME PayrollTypeOK, NEW r \in Runs, NEW state \in {"none", "waiting", "active", "done"},
         jobs' = [jobs EXCEPT ![r].state = state, ![r].owner = NoProc, ![r].attempts = @ + 1]
  PROVE  JobBecomes(r, state, NoProc)
<1> DEFINE I == [jobs[r] EXCEPT !.state = state]
           J == [I EXCEPT !.owner = NoProc]
           K == [J EXCEPT !.attempts = @ + 1]
<1>1. I \in Job /\ I.state = state
  BY DEF PayrollTypeOK, Job
<1>2. jobs' = [[[jobs EXCEPT ![r] = I] EXCEPT ![r].owner = NoProc] EXCEPT ![r].attempts = @ + 1]
  OBVIOUS
<1> HIDE DEF I
<1>3. J \in Job /\ J.state = state /\ J.owner = NoProc
  BY <1>1 DEF Job
<1>4. jobs' = [[jobs EXCEPT ![r] = J] EXCEPT ![r].attempts = @ + 1]
  BY <1>2 DEF PayrollTypeOK
<1> HIDE DEF J
<1>5. K \in Job /\ K.state = state /\ K.owner = NoProc
  BY <1>3 DEF Job
<1> DEFINE N == [jobs EXCEPT ![r] = J]
<1>6. N[r] = J /\ K = [N[r] EXCEPT !.attempts = @ + 1]
  BY DEF PayrollTypeOK
<1>7. jobs' = [N EXCEPT ![r].attempts = @ + 1]
  BY <1>4
<1> HIDE DEF N, K
<1>8. jobs' = [N EXCEPT ![r] = K]
  BY <1>6, <1>7
<1>9. /\ N \in [Runs -> Job]
      /\ \A s \in Runs \ {r} : N[s] = jobs[s]
  BY <1>3 DEF N, PayrollTypeOK
<1> QED
  BY <1>5, <1>8, <1>9, NewJob

\* A job whose worker has stalled.
LEMMA JobStalled ==
  ASSUME PayrollTypeOK, NEW r \in Runs, NEW state \in {"none", "waiting", "active", "done"},
         jobs' = [jobs EXCEPT ![r].state = state, ![r].owner = NoProc, ![r].stalls = @ + 1]
  PROVE  JobBecomes(r, state, NoProc)
<1> DEFINE I == [jobs[r] EXCEPT !.state = state]
           J == [I EXCEPT !.owner = NoProc]
           K == [J EXCEPT !.stalls = @ + 1]
<1>1. I \in Job /\ I.state = state
  BY DEF PayrollTypeOK, Job
<1>2. jobs' = [[[jobs EXCEPT ![r] = I] EXCEPT ![r].owner = NoProc] EXCEPT ![r].stalls = @ + 1]
  OBVIOUS
<1> HIDE DEF I
<1>3. J \in Job /\ J.state = state /\ J.owner = NoProc
  BY <1>1 DEF Job
<1>4. jobs' = [[jobs EXCEPT ![r] = J] EXCEPT ![r].stalls = @ + 1]
  BY <1>2 DEF PayrollTypeOK
<1> HIDE DEF J
<1>5. K \in Job /\ K.state = state /\ K.owner = NoProc
  BY <1>3 DEF Job
<1> DEFINE N == [jobs EXCEPT ![r] = J]
<1>6. N[r] = J /\ K = [N[r] EXCEPT !.stalls = @ + 1]
  BY DEF PayrollTypeOK
<1>7. jobs' = [N EXCEPT ![r].stalls = @ + 1]
  BY <1>4
<1> HIDE DEF N, K
<1>8. jobs' = [N EXCEPT ![r] = K]
  BY <1>6, <1>7
<1>9. /\ N \in [Runs -> Job]
      /\ \A s \in Runs \ {r} : N[s] = jobs[s]
  BY <1>3 DEF N, PayrollTypeOK
<1> QED
  BY <1>5, <1>8, <1>9, NewJob

-----------------------------------------------------------------------------
(* The actions.  All their proofs unfold these. *)
USE DEF PayrollInvariant, PayrollTypeOK, Creates, Computes, Creating, CleaningUp,
    Computing, Marking, Exists, Statuses

\* A new run.
LEMMA CreateRunKeeps ==
  ASSUME PayrollInvariant, NEW p \in Procs, NEW r \in Runs,
         NEW via \in {"calculate", "async"}, CreateRun(p, r, via)
  PROVE  PayrollInvariant'
<1>1. ProcessesAreSane
  BY DEF Control
<1>2. /\ proc[p].at = "idle" /\ runs[r].status = "absent"
      /\ ProcBecomes(p, "created", via, r, NoRun, 0)
      /\ RunBecomes(r, "queued")
      /\ crossed' = (crossed \/ \E q \in Procs : proc[q].at \in CleaningUp)
      /\ UNCHANGED <<items, lock, jobs, abandoned, doubled, erased>>
  BY <1>1, TakesUp, StatusSet DEF CreateRun, At, Places, CleaningUp, Statuses
<1> USE <1>1, <1>2 DEF ProcBecomes, RunBecomes, JobBecomes
<1>3. PayrollTypeOK'
  BY DEF Process, Run
<1>4. Control'
  <2>1. ProcessesAreSane'
    BY NoRunAssumption DEF ProcessesAreSane, Process
  <2>2. OwnersAreActive' /\ AbsentRunsAreUnknown'
    BY NoRunAssumption
       DEF Control, OwnersAreActive, CreatorIsAlone, AbsentRunsAreUnknown,
           ProcessesAreSane
  <2>3. CreatorIsAlone' /\ OneComputes'
    BY NoRunAssumption
       DEF Control, ProcessesAreSane, CreatorIsAlone, OwnersAreActive,
           AbsentRunsAreUnknown, OneComputes
  <2>4. WorkersOwnTheirJobs' /\ InlineBeforeTheJob'
    BY NoRunAssumption, NoProcAssumption
       DEF Control, ProcessesAreSane, WorkersOwnTheirJobs, OneComputes, CreatorIsAlone,
           OwnersAreActive, InlineBeforeTheJob
  <2> QED
    BY <2>1, <2>2, <2>3, <2>4 DEF Control
<1>5. CompletedRunsAreComplete' /\ UnfinishedRunsWillBeEnded' /\ PeriodKeepsARun'
  BY DEF CompletedRunsAreComplete, ItemsAreWhatWasInserted, ProcessesAreSane,
         UnfinishedRunsWillBeEnded, WillBeEnded, Control, WorkersOwnTheirJobs,
         PeriodKeepsARun, CleanupsAreSingle
<1>6. ItemsAreWhatWasInserted'
  BY DEF ItemsAreWhatWasInserted, Control, AbsentRunsAreUnknown
<1>7. CleanupsAreSingle'
  <2>1. CASE \E q \in Procs : proc[q].at \in CleaningUp
    BY <2>1 DEF CleanupsAreSingle
  <2>2. CASE ~\E q \in Procs : proc[q].at \in CleaningUp
    BY <2>2 DEF CleanupsAreSingle
  <2> QED
    BY <2>1, <2>2
<1> QED
  BY <1>3, <1>4, <1>5, <1>6, <1>7 DEF PayrollInvariant

\* The lock, and a run to delete.
LEMMA FindOldKeeps ==
  ASSUME PayrollInvariant, NEW p \in Procs, FindOld(p)
  PROVE  PayrollInvariant'
<1>1. ProcessesAreSane
  BY DEF Control
<1>2. /\ proc[p].at = "created"
      /\ \E old \in Others(proc[p].run) \cup {NoRun} :
           ProcBecomes(p, "cleanup", proc[p].via, proc[p].run, old, proc[p].inserted)
      /\ lock' = p
      /\ UNCHANGED <<runs, items, jobs, abandoned, doubled, crossed, erased>>
  BY <1>1, GoesOnWith DEF FindOld, At, Places, CleaningUp, Others
<1> USE <1>1, <1>2 DEF ProcBecomes, RunBecomes, JobBecomes
<1>3. PayrollTypeOK'
  BY DEF Process, Run
<1>4. Control'
  <2>1. ProcessesAreSane'
    BY NoRunAssumption DEF ProcessesAreSane, Process, Others
  <2>2. OwnersAreActive' /\ AbsentRunsAreUnknown'
    BY NoRunAssumption
       DEF Control, OwnersAreActive, CreatorIsAlone, AbsentRunsAreUnknown,
           ProcessesAreSane
  <2>3. CreatorIsAlone' /\ OneComputes'
    BY NoRunAssumption
       DEF Control, ProcessesAreSane, CreatorIsAlone, OwnersAreActive,
           AbsentRunsAreUnknown, OneComputes
  <2>4. WorkersOwnTheirJobs' /\ InlineBeforeTheJob'
    BY NoRunAssumption, NoProcAssumption
       DEF Control, ProcessesAreSane, WorkersOwnTheirJobs, OneComputes, CreatorIsAlone,
           OwnersAreActive, InlineBeforeTheJob
  <2> QED
    BY <2>1, <2>2, <2>3, <2>4 DEF Control
<1>5. CompletedRunsAreComplete' /\ ItemsAreWhatWasInserted'
  BY DEF CompletedRunsAreComplete, ItemsAreWhatWasInserted, ProcessesAreSane, Control,
         OneComputes, CreatorIsAlone
<1>6. UnfinishedRunsWillBeEnded'
  BY DEF ProcessesAreSane, Control, OneComputes, CreatorIsAlone, UnfinishedRunsWillBeEnded,
         WillBeEnded, WorkersOwnTheirJobs
<1>7. CleanupsAreSingle'
  BY DEF ProcessesAreSane, Control, OneComputes, CreatorIsAlone, CleanupsAreSingle
<1>8. PeriodKeepsARun'
  BY DEF ProcessesAreSane, Control, OneComputes, CreatorIsAlone, CleanupsAreSingle,
         PeriodKeepsARun
<1> QED
  BY <1>3, <1>4, <1>5, <1>6, <1>7, <1>8 DEF PayrollInvariant

\* A cleanup without a run to delete.
LEMMA NothingToDeleteKeeps ==
  ASSUME PayrollInvariant, NEW p \in Procs, NothingToDelete(p)
  PROVE  PayrollInvariant'
<1>1. ProcessesAreSane
  BY DEF Control
<1>2. /\ proc[p].at = "cleanup"
      /\ ProcBecomes(p, IF proc[p].via = "async" THEN "enqueue" ELSE "check",
                     proc[p].via, proc[p].run, NoRun, proc[p].inserted)
      /\ lock' = NoProc
      /\ UNCHANGED <<runs, items, jobs, abandoned, doubled, crossed, erased>>
  BY <1>1, GoesOnWith DEF NothingToDelete, CleanedUp, At, Places, Computing
<1> USE <1>1, <1>2 DEF ProcBecomes, RunBecomes, JobBecomes
<1>3. PayrollTypeOK'
  BY DEF Process, Run
<1>4. Control'
  <2>1. ProcessesAreSane'
    BY NoRunAssumption DEF ProcessesAreSane, Process
  <2>2. OwnersAreActive' /\ AbsentRunsAreUnknown'
    BY NoRunAssumption
       DEF Control, OwnersAreActive, CreatorIsAlone, AbsentRunsAreUnknown,
           ProcessesAreSane
  <2>3. CreatorIsAlone' /\ OneComputes'
    BY NoRunAssumption
       DEF Control, ProcessesAreSane, CreatorIsAlone, OwnersAreActive,
           AbsentRunsAreUnknown, OneComputes
  <2>4. WorkersOwnTheirJobs' /\ InlineBeforeTheJob'
    BY NoRunAssumption, NoProcAssumption
       DEF Control, ProcessesAreSane, WorkersOwnTheirJobs, OneComputes, CreatorIsAlone,
           OwnersAreActive, InlineBeforeTheJob
  <2> QED
    BY <2>1, <2>2, <2>3, <2>4 DEF Control
<1>5. CompletedRunsAreComplete' /\ ItemsAreWhatWasInserted'
  BY DEF CompletedRunsAreComplete, ItemsAreWhatWasInserted, ProcessesAreSane, Control,
         OneComputes, CreatorIsAlone
<1>6. UnfinishedRunsWillBeEnded'
  BY DEF ProcessesAreSane, Control, OneComputes, CreatorIsAlone, UnfinishedRunsWillBeEnded,
         WillBeEnded, WorkersOwnTheirJobs
<1>7. CleanupsAreSingle'
  BY DEF ProcessesAreSane, Control, OneComputes, CreatorIsAlone, CleanupsAreSingle
<1>8. PeriodKeepsARun'
  BY DEF ProcessesAreSane, Control, OneComputes, CreatorIsAlone, CleanupsAreSingle,
         PeriodKeepsARun
<1> QED
  BY <1>3, <1>4, <1>5, <1>6, <1>7, <1>8 DEF PayrollInvariant

\* The run to delete is read again.
LEMMA CheckOldKeeps ==
  ASSUME PayrollInvariant, NEW p \in Procs, CheckOld(p)
  PROVE  PayrollInvariant'
<1>1. ProcessesAreSane
  BY DEF Control
<1>2. /\ proc[p].at = "cleanup" /\ proc[p].old # NoRun
      /\ ProcBecomes(p, "deleting", proc[p].via, proc[p].run, proc[p].old, proc[p].inserted)
      /\ UNCHANGED <<runs, items, lock, jobs, abandoned, doubled, crossed, erased>>
  BY <1>1, GoesOn DEF CheckOld, At, Places, CleaningUp
<1> USE <1>1, <1>2 DEF ProcBecomes, RunBecomes, JobBecomes
<1>3. PayrollTypeOK'
  BY DEF Process, Run
<1>4. Control'
  <2>1. ProcessesAreSane'
    BY NoRunAssumption DEF ProcessesAreSane, Process
  <2>2. OwnersAreActive' /\ AbsentRunsAreUnknown'
    BY NoRunAssumption
       DEF Control, OwnersAreActive, CreatorIsAlone, AbsentRunsAreUnknown,
           ProcessesAreSane
  <2>3. CreatorIsAlone' /\ OneComputes'
    BY NoRunAssumption
       DEF Control, ProcessesAreSane, CreatorIsAlone, OwnersAreActive,
           AbsentRunsAreUnknown, OneComputes
  <2>4. WorkersOwnTheirJobs' /\ InlineBeforeTheJob'
    BY NoRunAssumption, NoProcAssumption
       DEF Control, ProcessesAreSane, WorkersOwnTheirJobs, OneComputes, CreatorIsAlone,
           OwnersAreActive, InlineBeforeTheJob
  <2> QED
    BY <2>1, <2>2, <2>3, <2>4 DEF Control
<1>5. CompletedRunsAreComplete' /\ ItemsAreWhatWasInserted'
  BY DEF CompletedRunsAreComplete, ItemsAreWhatWasInserted, ProcessesAreSane, Control,
         OneComputes, CreatorIsAlone
<1>6. UnfinishedRunsWillBeEnded'
  BY DEF ProcessesAreSane, Control, OneComputes, CreatorIsAlone, UnfinishedRunsWillBeEnded,
         WillBeEnded, WorkersOwnTheirJobs
<1>7. CleanupsAreSingle'
  BY DEF ProcessesAreSane, Control, OneComputes, CreatorIsAlone, CleanupsAreSingle
<1>8. PeriodKeepsARun'
  BY DEF ProcessesAreSane, Control, OneComputes, CreatorIsAlone, CleanupsAreSingle,
         PeriodKeepsARun
<1> QED
  BY <1>3, <1>4, <1>5, <1>6, <1>7, <1>8 DEF PayrollInvariant

\* The other run is deleted.
LEMMA DeleteOldKeeps ==
  ASSUME PayrollInvariant, NEW p \in Procs, DeleteOld(p)
  PROVE  PayrollInvariant'
<1>1. ProcessesAreSane
  BY DEF Control
<1>2. /\ proc[p].at = "deleting" /\ Exists(proc[p].old)
      /\ ProcBecomes(p, IF proc[p].via = "async" THEN "enqueue" ELSE "check",
                     proc[p].via, proc[p].run, NoRun, proc[p].inserted)
      /\ RunBecomes(proc[p].old, "deleted")
      /\ items' \in [Runs -> SUBSET (1..NumBatches)]
      /\ \A s \in Runs \ {proc[p].old} : items'[s] = items[s]
      /\ lock' = NoProc
      /\ UNCHANGED <<jobs, abandoned, doubled, crossed, erased>>
  BY <1>1, GoesOnWith, RunDeleted
     DEF DeleteOld, CleanedUp, At, Places, Computing, ProcessesAreSane
<1> USE <1>1, <1>2 DEF ProcBecomes, RunBecomes, JobBecomes
<1>3. PayrollTypeOK'
  BY DEF Process, Run
<1>4. Control'
  <2>1. ProcessesAreSane'
    BY NoRunAssumption DEF ProcessesAreSane, Process
  <2>2. OwnersAreActive' /\ AbsentRunsAreUnknown'
    BY NoRunAssumption
       DEF Control, OwnersAreActive, CreatorIsAlone, AbsentRunsAreUnknown,
           ProcessesAreSane
  <2>3. CreatorIsAlone' /\ OneComputes'
    BY NoRunAssumption
       DEF Control, ProcessesAreSane, CreatorIsAlone, OwnersAreActive,
           AbsentRunsAreUnknown, OneComputes
  <2>4. WorkersOwnTheirJobs' /\ InlineBeforeTheJob'
    BY NoRunAssumption, NoProcAssumption
       DEF Control, ProcessesAreSane, WorkersOwnTheirJobs, OneComputes, CreatorIsAlone,
           OwnersAreActive, InlineBeforeTheJob
  <2> QED
    BY <2>1, <2>2, <2>3, <2>4 DEF Control
<1>5. CompletedRunsAreComplete' /\ ItemsAreWhatWasInserted'
  BY DEF CompletedRunsAreComplete, ItemsAreWhatWasInserted, ProcessesAreSane, Control,
         OneComputes, CreatorIsAlone
<1>6. UnfinishedRunsWillBeEnded'
  BY DEF ProcessesAreSane, Control, OneComputes, CreatorIsAlone, UnfinishedRunsWillBeEnded,
         WillBeEnded, WorkersOwnTheirJobs
<1>7. CleanupsAreSingle'
  BY DEF ProcessesAreSane, Control, OneComputes, CreatorIsAlone, CleanupsAreSingle
<1>8. PeriodKeepsARun'
  BY DEF ProcessesAreSane, Control, OneComputes, CreatorIsAlone, CleanupsAreSingle,
         PeriodKeepsARun
<1> QED
  BY <1>3, <1>4, <1>5, <1>6, <1>7, <1>8 DEF PayrollInvariant

\* A cleanup that throws.
LEMMA CleanupThrowsKeeps ==
  ASSUME PayrollInvariant, NEW p \in Procs, CleanupThrows(p)
  PROVE  PayrollInvariant'
<1>1. ProcessesAreSane
  BY DEF Control
<1>2. /\ proc[p].at \in CleaningUp
      /\ ProcBecomes(p, "idle", "delete", NoRun, NoRun, 0)
      /\ lock' \in {lock, NoProc} /\ abandoned' = abandoned \cup {proc[p].run}
      /\ UNCHANGED <<runs, items, jobs, doubled, crossed, erased>>
  BY <1>1, EndsFree DEF CleanupThrows, Abandons
<1> USE <1>1, <1>2 DEF ProcBecomes, RunBecomes, JobBecomes
<1>3. PayrollTypeOK'
  BY DEF ProcessesAreSane
<1>4. Control'
  <2>1. ProcessesAreSane'
    BY NoRunAssumption DEF ProcessesAreSane, Process
  <2>2. OwnersAreActive' /\ AbsentRunsAreUnknown'
    BY NoRunAssumption
       DEF Control, OwnersAreActive, CreatorIsAlone, AbsentRunsAreUnknown,
           ProcessesAreSane
  <2>3. CreatorIsAlone' /\ OneComputes'
    BY NoRunAssumption
       DEF Control, ProcessesAreSane, CreatorIsAlone, OwnersAreActive,
           AbsentRunsAreUnknown, OneComputes
  <2>4. WorkersOwnTheirJobs' /\ InlineBeforeTheJob'
    BY NoRunAssumption, NoProcAssumption
       DEF Control, ProcessesAreSane, WorkersOwnTheirJobs, OneComputes, CreatorIsAlone,
           OwnersAreActive, InlineBeforeTheJob
  <2> QED
    BY <2>1, <2>2, <2>3, <2>4 DEF Control
<1>5. CompletedRunsAreComplete' /\ ItemsAreWhatWasInserted'
  BY DEF CompletedRunsAreComplete, ItemsAreWhatWasInserted, ProcessesAreSane, Control,
         OneComputes, CreatorIsAlone
<1>6. UnfinishedRunsWillBeEnded'
  BY DEF ProcessesAreSane, Control, OneComputes, CreatorIsAlone, UnfinishedRunsWillBeEnded,
         WillBeEnded, WorkersOwnTheirJobs
<1>7. CleanupsAreSingle'
  BY DEF ProcessesAreSane, Control, OneComputes, CreatorIsAlone, CleanupsAreSingle
<1>8. PeriodKeepsARun'
  BY DEF ProcessesAreSane, Control, OneComputes, CreatorIsAlone, CleanupsAreSingle,
         PeriodKeepsARun
<1> QED
  BY <1>3, <1>4, <1>5, <1>6, <1>7, <1>8 DEF PayrollInvariant

\* The queue takes the job.
LEMMA EnqueueKeeps ==
  ASSUME PayrollInvariant, NEW p \in Procs, Enqueue(p)
  PROVE  PayrollInvariant'
<1>1. ProcessesAreSane
  BY DEF Control
<1>2. /\ proc[p].at = "enqueue"
      /\ ProcBecomes(p, "idle", "delete", NoRun, NoRun, 0)
      /\ JobBecomes(proc[p].run, "waiting", jobs[proc[p].run].owner)
      /\ UNCHANGED <<runs, items, lock, abandoned, doubled, crossed, erased>>
  BY <1>1, EndsFree, JobWaits DEF Enqueue, At, ProcessesAreSane
<1> USE <1>1, <1>2 DEF ProcBecomes, RunBecomes, JobBecomes
<1>3. PayrollTypeOK'
  BY DEF Process, Run
<1>4. Control'
  <2>1. ProcessesAreSane'
    BY NoRunAssumption DEF ProcessesAreSane, Process
  <2>2. OwnersAreActive' /\ AbsentRunsAreUnknown'
    BY NoRunAssumption
       DEF Control, OwnersAreActive, CreatorIsAlone, AbsentRunsAreUnknown,
           ProcessesAreSane
  <2>3. CreatorIsAlone' /\ OneComputes'
    BY NoRunAssumption
       DEF Control, ProcessesAreSane, CreatorIsAlone, OwnersAreActive,
           AbsentRunsAreUnknown, OneComputes
  <2>4. WorkersOwnTheirJobs' /\ InlineBeforeTheJob'
    BY NoRunAssumption, NoProcAssumption
       DEF Control, ProcessesAreSane, WorkersOwnTheirJobs, OneComputes, CreatorIsAlone,
           OwnersAreActive, InlineBeforeTheJob
  <2> QED
    BY <2>1, <2>2, <2>3, <2>4 DEF Control
<1>5. CompletedRunsAreComplete' /\ ItemsAreWhatWasInserted'
  BY DEF CompletedRunsAreComplete, ItemsAreWhatWasInserted, ProcessesAreSane, Control,
         OneComputes, CreatorIsAlone
<1>6. UnfinishedRunsWillBeEnded'
  BY DEF ProcessesAreSane, Control, OneComputes, CreatorIsAlone, UnfinishedRunsWillBeEnded,
         WillBeEnded, WorkersOwnTheirJobs
<1>7. CleanupsAreSingle'
  BY DEF ProcessesAreSane, Control, OneComputes, CreatorIsAlone, CleanupsAreSingle
<1>8. PeriodKeepsARun'
  BY DEF ProcessesAreSane, Control, OneComputes, CreatorIsAlone, CleanupsAreSingle,
         PeriodKeepsARun
<1> QED
  BY <1>3, <1>4, <1>5, <1>6, <1>7, <1>8 DEF PayrollInvariant

\* The queue does not, or seems not to.
LEMMA RunInlineKeeps ==
  ASSUME PayrollInvariant, NEW p \in Procs, RunInline(p)
  PROVE  PayrollInvariant'
<1>1. ProcessesAreSane
  BY DEF Control
<1>2. /\ proc[p].at = "enqueue"
      /\ ProcBecomes(p, "check", proc[p].via, proc[p].run, proc[p].old, proc[p].inserted)
      /\ \/ UNCHANGED jobs
         \/ JobBecomes(proc[p].run, "waiting", jobs[proc[p].run].owner)
      /\ UNCHANGED <<runs, items, lock, abandoned, doubled, crossed, erased>>
  BY <1>1, GoesOn, JobWaits DEF RunInline, At, ProcessesAreSane, Places, Computing
<1> USE <1>1, <1>2 DEF ProcBecomes, RunBecomes, JobBecomes
<1>3. PayrollTypeOK'
  BY DEF Process, Run
<1>4. Control'
  <2>1. ProcessesAreSane'
    BY NoRunAssumption DEF ProcessesAreSane, Process
  <2>2. OwnersAreActive' /\ AbsentRunsAreUnknown'
    BY NoRunAssumption
       DEF Control, OwnersAreActive, CreatorIsAlone, AbsentRunsAreUnknown,
           ProcessesAreSane
  <2>3. CreatorIsAlone' /\ OneComputes'
    BY NoRunAssumption
       DEF Control, ProcessesAreSane, CreatorIsAlone, OwnersAreActive,
           AbsentRunsAreUnknown, OneComputes
  <2>4. WorkersOwnTheirJobs' /\ InlineBeforeTheJob'
    BY NoRunAssumption, NoProcAssumption
       DEF Control, ProcessesAreSane, WorkersOwnTheirJobs, OneComputes, CreatorIsAlone,
           OwnersAreActive, InlineBeforeTheJob
  <2> QED
    BY <2>1, <2>2, <2>3, <2>4 DEF Control
<1>5. CompletedRunsAreComplete' /\ ItemsAreWhatWasInserted'
  BY DEF CompletedRunsAreComplete, ItemsAreWhatWasInserted, ProcessesAreSane, Control,
         OneComputes, CreatorIsAlone
<1>6. UnfinishedRunsWillBeEnded'
  BY DEF ProcessesAreSane, Control, OneComputes, CreatorIsAlone, UnfinishedRunsWillBeEnded,
         WillBeEnded, WorkersOwnTheirJobs
<1>7. CleanupsAreSingle'
  BY DEF ProcessesAreSane, Control, OneComputes, CreatorIsAlone, CleanupsAreSingle
<1>8. PeriodKeepsARun'
  BY DEF ProcessesAreSane, Control, OneComputes, CreatorIsAlone, CleanupsAreSingle,
         PeriodKeepsARun
<1> QED
  BY <1>3, <1>4, <1>5, <1>6, <1>7, <1>8 DEF PayrollInvariant

\* A computation finds its run.
LEMMA CheckKeeps ==
  ASSUME PayrollInvariant, NEW p \in Procs, Check(p)
  PROVE  PayrollInvariant'
<1>1. ProcessesAreSane
  BY DEF Control
<1>2. /\ proc[p].at = "check"
      /\ ProcBecomes(p, "start", proc[p].via, proc[p].run, proc[p].old, proc[p].inserted)
      /\ UNCHANGED <<runs, items, lock, jobs, abandoned, doubled, crossed, erased>>
  BY <1>1, GoesOn DEF Check, At, Places, Computing
<1> USE <1>1, <1>2 DEF ProcBecomes, RunBecomes, JobBecomes
<1>3. PayrollTypeOK'
  BY DEF Process, Run
<1>4. Control'
  <2>1. ProcessesAreSane'
    BY NoRunAssumption DEF ProcessesAreSane, Process
  <2>2. OwnersAreActive' /\ AbsentRunsAreUnknown'
    BY NoRunAssumption
       DEF Control, OwnersAreActive, CreatorIsAlone, AbsentRunsAreUnknown,
           ProcessesAreSane
  <2>3. CreatorIsAlone' /\ OneComputes'
    BY NoRunAssumption
       DEF Control, ProcessesAreSane, CreatorIsAlone, OwnersAreActive,
           AbsentRunsAreUnknown, OneComputes
  <2>4. WorkersOwnTheirJobs' /\ InlineBeforeTheJob'
    BY NoRunAssumption, NoProcAssumption
       DEF Control, ProcessesAreSane, WorkersOwnTheirJobs, OneComputes, CreatorIsAlone,
           OwnersAreActive, InlineBeforeTheJob
  <2> QED
    BY <2>1, <2>2, <2>3, <2>4 DEF Control
<1>5. CompletedRunsAreComplete' /\ ItemsAreWhatWasInserted'
  BY DEF CompletedRunsAreComplete, ItemsAreWhatWasInserted, ProcessesAreSane, Control,
         OneComputes, CreatorIsAlone
<1>6. UnfinishedRunsWillBeEnded'
  BY DEF ProcessesAreSane, Control, OneComputes, CreatorIsAlone, UnfinishedRunsWillBeEnded,
         WillBeEnded, WorkersOwnTheirJobs
<1>7. CleanupsAreSingle'
  BY DEF ProcessesAreSane, Control, OneComputes, CreatorIsAlone, CleanupsAreSingle
<1>8. PeriodKeepsARun'
  BY DEF ProcessesAreSane, Control, OneComputes, CreatorIsAlone, CleanupsAreSingle,
         PeriodKeepsARun
<1> QED
  BY <1>3, <1>4, <1>5, <1>6, <1>7, <1>8 DEF PayrollInvariant

\* It says that it processes it.
LEMMA BeginKeeps ==
  ASSUME PayrollInvariant, NEW p \in Procs, Begin(p)
  PROVE  PayrollInvariant'
<1>1. ProcessesAreSane
  BY DEF Control
<1>2. /\ proc[p].at = "start" /\ Exists(proc[p].run)
      /\ ProcBecomes(p, "clear", proc[p].via, proc[p].run, proc[p].old, proc[p].inserted)
      /\ RunBecomes(proc[p].run, "processing")
      /\ UNCHANGED <<items, lock, jobs, abandoned, doubled, crossed, erased>>
  BY <1>1, GoesOn, StatusSet DEF Begin, At, Places, Computing, Statuses, ProcessesAreSane
<1> USE <1>1, <1>2 DEF ProcBecomes, RunBecomes, JobBecomes
<1>3. PayrollTypeOK'
  BY DEF Process, Run
<1>4. Control'
  <2>1. ProcessesAreSane'
    BY NoRunAssumption DEF ProcessesAreSane, Process
  <2>2. OwnersAreActive' /\ AbsentRunsAreUnknown'
    BY NoRunAssumption
       DEF Control, OwnersAreActive, CreatorIsAlone, AbsentRunsAreUnknown,
           ProcessesAreSane
  <2>3. CreatorIsAlone' /\ OneComputes'
    BY NoRunAssumption
       DEF Control, ProcessesAreSane, CreatorIsAlone, OwnersAreActive,
           AbsentRunsAreUnknown, OneComputes
  <2>4. WorkersOwnTheirJobs' /\ InlineBeforeTheJob'
    BY NoRunAssumption, NoProcAssumption
       DEF Control, ProcessesAreSane, WorkersOwnTheirJobs, OneComputes, CreatorIsAlone,
           OwnersAreActive, InlineBeforeTheJob
  <2> QED
    BY <2>1, <2>2, <2>3, <2>4 DEF Control
<1>5. /\ CompletedRunsAreComplete' /\ ItemsAreWhatWasInserted' /\ CleanupsAreSingle'
      /\ PeriodKeepsARun'
  BY DEF CompletedRunsAreComplete, ItemsAreWhatWasInserted, ProcessesAreSane, Control,
         OneComputes, CreatorIsAlone, CleanupsAreSingle, PeriodKeepsARun
<1>6. UnfinishedRunsWillBeEnded'
  <2> SUFFICES ASSUME NEW r \in Runs \ (abandoned \cup doubled),
                      runs'[r].status \in {"queued", "processing"}
               PROVE  WillBeEnded(r)'
    BY DEF UnfinishedRunsWillBeEnded
  <2>1. CASE r = proc[p].run
    <3>1. CASE proc[p].via = "job"
      <4>1. jobs[r].state = "waiting" \/ jobs[r].owner = p
        BY <2>1, <3>1 DEF Control, WorkersOwnTheirJobs
      <4>2. jobs[r].state \in {"waiting", "active"}
        BY <4>1, NoProcAssumption DEF Control, OwnersAreActive
      <4> QED
        BY <4>2 DEF WillBeEnded
    <3>2. CASE proc[p].via # "job"
      <4>1. proc'[p].run = r /\ proc'[p].via \in {"calculate", "async"} /\ proc'[p].at = "clear"
        BY <2>1, <3>2 DEF Process, ProcessesAreSane
      <4> QED
        BY <4>1 DEF WillBeEnded
    <3> QED
      BY <3>1, <3>2
  <2>2. CASE r # proc[p].run
    <3>1. WillBeEnded(r)
      BY <2>2 DEF UnfinishedRunsWillBeEnded
    <3> QED
      BY <3>1, <2>2 DEF WillBeEnded
  <2> QED
    BY <2>1, <2>2
<1> QED
  BY <1>3, <1>4, <1>5, <1>6 DEF PayrollInvariant

\* It deletes the items of earlier attempts.
LEMMA ClearKeeps ==
  ASSUME PayrollInvariant, NEW p \in Procs, Clear(p)
  PROVE  PayrollInvariant'
<1>1. ProcessesAreSane
  BY DEF Control
<1>2. /\ proc[p].at = "clear"
      /\ ProcBecomes(p, "insert", proc[p].via, proc[p].run, proc[p].old, proc[p].inserted)
      /\ items' = [items EXCEPT ![proc[p].run] = {}]
      /\ UNCHANGED <<runs, lock, jobs, abandoned, doubled, crossed, erased>>
  BY <1>1, GoesOn DEF Clear, At, Places, Computing
<1> USE <1>1, <1>2 DEF ProcBecomes, RunBecomes, JobBecomes
<1>3. PayrollTypeOK'
  BY DEF Process, Run
<1>4. Control'
  <2>1. ProcessesAreSane'
    BY NoRunAssumption DEF ProcessesAreSane, Process
  <2>2. OwnersAreActive' /\ AbsentRunsAreUnknown'
    BY NoRunAssumption
       DEF Control, OwnersAreActive, CreatorIsAlone, AbsentRunsAreUnknown,
           ProcessesAreSane
  <2>3. CreatorIsAlone' /\ OneComputes'
    BY NoRunAssumption
       DEF Control, ProcessesAreSane, CreatorIsAlone, OwnersAreActive,
           AbsentRunsAreUnknown, OneComputes
  <2>4. WorkersOwnTheirJobs' /\ InlineBeforeTheJob'
    BY NoRunAssumption, NoProcAssumption
       DEF Control, ProcessesAreSane, WorkersOwnTheirJobs, OneComputes, CreatorIsAlone,
           OwnersAreActive, InlineBeforeTheJob
  <2> QED
    BY <2>1, <2>2, <2>3, <2>4 DEF Control
<1>5. CompletedRunsAreComplete' /\ ItemsAreWhatWasInserted'
  BY DEF CompletedRunsAreComplete, ItemsAreWhatWasInserted, ProcessesAreSane, Control,
         OneComputes, CreatorIsAlone
<1>6. UnfinishedRunsWillBeEnded'
  BY DEF ProcessesAreSane, Control, OneComputes, CreatorIsAlone, UnfinishedRunsWillBeEnded,
         WillBeEnded, WorkersOwnTheirJobs
<1>7. CleanupsAreSingle'
  BY DEF ProcessesAreSane, Control, OneComputes, CreatorIsAlone, CleanupsAreSingle
<1>8. PeriodKeepsARun'
  BY DEF ProcessesAreSane, Control, OneComputes, CreatorIsAlone, CleanupsAreSingle,
         PeriodKeepsARun
<1> QED
  BY <1>3, <1>4, <1>5, <1>6, <1>7, <1>8 DEF PayrollInvariant

\* It inserts a batch.
LEMMA InsertKeeps ==
  ASSUME PayrollInvariant, NEW p \in Procs, Insert(p)
  PROVE  PayrollInvariant'
<1>1. ProcessesAreSane
  BY DEF Control
<1>2. /\ /\ proc[p].at = "insert" /\ proc[p].inserted + 1 <= NumBatches
      /\ proc[p].run \in Runs
      /\ ProcBecomes(p, proc[p].at, proc[p].via, proc[p].run, proc[p].old, proc[p].inserted + 1)
      /\ items' = [items EXCEPT ![proc[p].run] = @ \cup {proc[p].inserted + 1}]
      /\ UNCHANGED <<runs, lock, jobs, abandoned, doubled, crossed, erased>>
  BY <1>1, InsertsOne DEF Insert, At, ProcessesAreSane
<1> USE <1>1, <1>2 DEF ProcBecomes, RunBecomes, JobBecomes
<1>3. PayrollTypeOK'
  <2>1. proc[p].inserted + 1 \in 1..NumBatches
    BY BoundsAssumption DEF Process
  <2> QED
    BY <2>1
<1>4. Control'
  <2>1. ProcessesAreSane'
    BY NoRunAssumption DEF ProcessesAreSane, Process
  <2>2. OwnersAreActive' /\ AbsentRunsAreUnknown'
    BY NoRunAssumption
       DEF Control, OwnersAreActive, CreatorIsAlone, AbsentRunsAreUnknown,
           ProcessesAreSane
  <2>3. CreatorIsAlone' /\ OneComputes'
    BY NoRunAssumption
       DEF Control, ProcessesAreSane, CreatorIsAlone, OwnersAreActive,
           AbsentRunsAreUnknown, OneComputes
  <2>4. WorkersOwnTheirJobs' /\ InlineBeforeTheJob'
    BY NoRunAssumption, NoProcAssumption
       DEF Control, ProcessesAreSane, WorkersOwnTheirJobs, OneComputes, CreatorIsAlone,
           OwnersAreActive, InlineBeforeTheJob
  <2> QED
    BY <2>1, <2>2, <2>3, <2>4 DEF Control
<1>5. /\ CompletedRunsAreComplete' /\ UnfinishedRunsWillBeEnded' /\ CleanupsAreSingle'
      /\ PeriodKeepsARun'
  BY DEF CompletedRunsAreComplete, ItemsAreWhatWasInserted, ProcessesAreSane,
         UnfinishedRunsWillBeEnded, WillBeEnded, Control, WorkersOwnTheirJobs,
         CleanupsAreSingle, PeriodKeepsARun
<1>6. ItemsAreWhatWasInserted'
  <2>1. proc[p].inserted \in Nat
    BY DEF Process
  <2>2. (1..proc[p].inserted) \cup {proc[p].inserted + 1} = 1..(proc[p].inserted + 1)
    BY <2>1, OneMoreBatch
  <2>3. \A q \in Procs : Computes(q, proc[p].run) /\ proc[p].run \notin doubled => q = p
    BY DEF Control, OneComputes
  <2>4. ASSUME NEW r \in Runs \ doubled, NEW q \in Procs, r # proc[p].run
        PROVE  proc'[q].run = r => proc'[q] = proc[q] /\ items'[r] = items[r]
    BY <2>4
  <2>5. items'[proc[p].run] = items[proc[p].run] \cup {proc[p].inserted + 1}
    OBVIOUS
  <2>6. ASSUME NEW r \in Runs \ doubled, NEW q \in Procs, proc'[q].run = r,
               proc'[q].at \in {"clear", "insert"}
        PROVE  /\ runs'[r].status # "completed"
               /\ proc'[q].at = "insert" /\ Exists(r)' => items'[r] = 1..proc'[q].inserted
    <3>1. CASE r = proc[p].run
      <4>1. q = p
        BY <2>3, <2>6, <3>1
      <4>2. /\ runs[r].status # "completed"
            /\ Exists(r) => items[r] = 1..proc[p].inserted
        BY <3>1 DEF ItemsAreWhatWasInserted
      <4> QED
        BY <2>2, <2>5, <2>6, <3>1, <4>1, <4>2
    <3>2. CASE r # proc[p].run
      <4>1. proc'[q] = proc[q] /\ items'[r] = items[r]
        BY <2>4, <2>6, <3>2
      <4> QED
        BY <2>6, <3>2, <4>1 DEF ItemsAreWhatWasInserted
    <3> QED
      BY <3>1, <3>2
  <2>7. doubled' = doubled
    OBVIOUS
  <2> QED
    BY ONLY <2>6, <2>7, Zenon DEF ItemsAreWhatWasInserted, Computes
<1> QED
  BY <1>3, <1>4, <1>5, <1>6 DEF PayrollInvariant

\* It completes its run, and the job that it was.
LEMMA FinishKeeps ==
  ASSUME PayrollInvariant, NEW p \in Procs, Finish(p)
  PROVE  PayrollInvariant'
<1>1. ProcessesAreSane
  BY DEF Control
<1>2. /\ proc[p].at = "insert" /\ proc[p].inserted = NumBatches /\ Exists(proc[p].run)
      /\ ProcBecomes(p, "idle", "delete", NoRun, NoRun, 0)
      /\ RunBecomes(proc[p].run, "completed")
      /\ \/ UNCHANGED jobs
         \/ JobBecomes(proc[p].run, "done", NoProc) /\ jobs[proc[p].run].owner = p
      /\ UNCHANGED <<items, lock, abandoned, doubled, crossed, erased>>
  BY <1>1, EndsFree, StatusSet, JobHandedTo
     DEF Finish, JobDone, At, Statuses, ProcessesAreSane
<1> USE <1>1, <1>2 DEF ProcBecomes, RunBecomes, JobBecomes
<1>3. PayrollTypeOK'
  BY DEF Process, Run
<1>4. Control'
  <2>1. ProcessesAreSane'
    BY NoRunAssumption DEF ProcessesAreSane, Process
  <2>2. OwnersAreActive' /\ AbsentRunsAreUnknown'
    BY NoRunAssumption
       DEF Control, OwnersAreActive, CreatorIsAlone, AbsentRunsAreUnknown,
           ProcessesAreSane
  <2>3. CreatorIsAlone' /\ OneComputes'
    BY NoRunAssumption
       DEF Control, ProcessesAreSane, CreatorIsAlone, OwnersAreActive,
           AbsentRunsAreUnknown, OneComputes
  <2>4. WorkersOwnTheirJobs' /\ InlineBeforeTheJob'
    BY NoRunAssumption, NoProcAssumption
       DEF Control, ProcessesAreSane, WorkersOwnTheirJobs, OneComputes, CreatorIsAlone,
           OwnersAreActive, InlineBeforeTheJob
  <2> QED
    BY <2>1, <2>2, <2>3, <2>4 DEF Control
<1>5. CompletedRunsAreComplete' /\ ItemsAreWhatWasInserted'
  BY DEF CompletedRunsAreComplete, ItemsAreWhatWasInserted, ProcessesAreSane, Control,
         OneComputes, CreatorIsAlone
<1>6. UnfinishedRunsWillBeEnded'
  BY DEF ProcessesAreSane, Control, OneComputes, CreatorIsAlone, UnfinishedRunsWillBeEnded,
         WillBeEnded, WorkersOwnTheirJobs
<1>7. CleanupsAreSingle'
  BY DEF ProcessesAreSane, Control, OneComputes, CreatorIsAlone, CleanupsAreSingle
<1>8. PeriodKeepsARun'
  BY DEF ProcessesAreSane, Control, OneComputes, CreatorIsAlone, CleanupsAreSingle,
         PeriodKeepsARun
<1> QED
  BY <1>3, <1>4, <1>5, <1>6, <1>7, <1>8 DEF PayrollInvariant

\* It throws.
LEMMA ThrowKeeps ==
  ASSUME PayrollInvariant, NEW p \in Procs, Throw(p)
  PROVE  PayrollInvariant'
<1>1. ProcessesAreSane
  BY DEF Control
<1>2. /\ proc[p].at \in Computing
      /\ ProcBecomes(p, "fail", proc[p].via, proc[p].run, proc[p].old, proc[p].inserted)
      /\ UNCHANGED <<runs, items, lock, jobs, abandoned, doubled, crossed, erased>>
  BY <1>1, GoesOn DEF Throw, Places, Marking
<1> USE <1>1, <1>2 DEF ProcBecomes, RunBecomes, JobBecomes
<1>3. PayrollTypeOK'
  BY DEF Process, Run
<1>4. Control'
  <2>1. ProcessesAreSane'
    BY NoRunAssumption DEF ProcessesAreSane, Process
  <2>2. OwnersAreActive' /\ AbsentRunsAreUnknown'
    BY NoRunAssumption
       DEF Control, OwnersAreActive, CreatorIsAlone, AbsentRunsAreUnknown,
           ProcessesAreSane
  <2>3. CreatorIsAlone' /\ OneComputes'
    BY NoRunAssumption
       DEF Control, ProcessesAreSane, CreatorIsAlone, OwnersAreActive,
           AbsentRunsAreUnknown, OneComputes
  <2>4. WorkersOwnTheirJobs' /\ InlineBeforeTheJob'
    BY NoRunAssumption, NoProcAssumption
       DEF Control, ProcessesAreSane, WorkersOwnTheirJobs, OneComputes, CreatorIsAlone,
           OwnersAreActive, InlineBeforeTheJob
  <2> QED
    BY <2>1, <2>2, <2>3, <2>4 DEF Control
<1>5. CompletedRunsAreComplete' /\ ItemsAreWhatWasInserted'
  BY DEF CompletedRunsAreComplete, ItemsAreWhatWasInserted, ProcessesAreSane, Control,
         OneComputes, CreatorIsAlone
<1>6. UnfinishedRunsWillBeEnded'
  BY DEF ProcessesAreSane, Control, OneComputes, CreatorIsAlone, UnfinishedRunsWillBeEnded,
         WillBeEnded, WorkersOwnTheirJobs
<1>7. CleanupsAreSingle'
  BY DEF ProcessesAreSane, Control, OneComputes, CreatorIsAlone, CleanupsAreSingle
<1>8. PeriodKeepsARun'
  BY DEF ProcessesAreSane, Control, OneComputes, CreatorIsAlone, CleanupsAreSingle,
         PeriodKeepsARun
<1> QED
  BY <1>3, <1>4, <1>5, <1>6, <1>7, <1>8 DEF PayrollInvariant

\* calculate, or the handler that marks again, marks the run as failed.
LEMMA MarkFailedKeeps ==
  ASSUME PayrollInvariant, NEW p \in Procs, MarkFailed(p) \/ MarkAgain(p)
  PROVE  PayrollInvariant'
<1>1. ProcessesAreSane
  BY DEF Control
<1>a. proc[p].at # "idle" /\ Mark(proc[p].run, TRUE)
  BY DEF MarkFailed, MarkAgain, At
<1>b. Ends(p)
  BY DEF MarkFailed, MarkAgain
<1>c. proc[p].at = "failAgain" \/ (proc[p].at = "fail" /\ proc[p].via = "calculate")
  BY DEF MarkFailed, MarkAgain, At
<1>d. ProcBecomes(p, "idle", "delete", NoRun, NoRun, 0)
  BY <1>1, <1>b, EndsFree
<1>e. MarkEnds(proc[p].run, TRUE)
  BY <1>1, <1>a, MarkingEnds
<1>f. UNCHANGED <<items, lock, jobs, doubled, crossed, erased>>
  BY DEF MarkFailed, MarkAgain
<1>2. /\ proc[p].at = "failAgain" \/ (proc[p].at = "fail" /\ proc[p].via = "calculate")
      /\ ProcBecomes(p, "idle", "delete", NoRun, NoRun, 0)
      /\ \/ UNCHANGED <<runs, abandoned>> /\ ~Exists(proc[p].run)
         \/ RunBecomes(proc[p].run, "failed") /\ Exists(proc[p].run) /\ UNCHANGED abandoned
         \/ UNCHANGED runs /\ abandoned' = abandoned \cup {proc[p].run}
      /\ UNCHANGED <<items, lock, jobs, doubled, crossed, erased>>
  BY <1>c, <1>d, <1>e, <1>f DEF MarkEnds
<1> USE <1>1, <1>2 DEF ProcBecomes, RunBecomes, JobBecomes
<1>3. PayrollTypeOK'
  BY DEF ProcessesAreSane, Process, Run
<1>4. Control'
  <2>1. ProcessesAreSane'
    BY NoRunAssumption DEF ProcessesAreSane, Process
  <2>2. OwnersAreActive' /\ AbsentRunsAreUnknown'
    BY NoRunAssumption
       DEF Control, OwnersAreActive, CreatorIsAlone, AbsentRunsAreUnknown,
           ProcessesAreSane
  <2>3. CreatorIsAlone' /\ OneComputes'
    BY NoRunAssumption
       DEF Control, ProcessesAreSane, CreatorIsAlone, OwnersAreActive,
           AbsentRunsAreUnknown, OneComputes
  <2>4. WorkersOwnTheirJobs' /\ InlineBeforeTheJob'
    BY NoRunAssumption, NoProcAssumption
       DEF Control, ProcessesAreSane, WorkersOwnTheirJobs, OneComputes, CreatorIsAlone,
           OwnersAreActive, InlineBeforeTheJob
  <2> QED
    BY <2>1, <2>2, <2>3, <2>4 DEF Control
<1>5. CompletedRunsAreComplete' /\ ItemsAreWhatWasInserted'
  BY DEF CompletedRunsAreComplete, ItemsAreWhatWasInserted, ProcessesAreSane, Control,
         OneComputes, CreatorIsAlone
<1>6. UnfinishedRunsWillBeEnded'
  BY DEF ProcessesAreSane, Control, OneComputes, CreatorIsAlone, UnfinishedRunsWillBeEnded,
         WillBeEnded, WorkersOwnTheirJobs
<1>7. CleanupsAreSingle'
  BY DEF ProcessesAreSane, Control, OneComputes, CreatorIsAlone, CleanupsAreSingle
<1>8. PeriodKeepsARun'
  BY DEF ProcessesAreSane, Control, OneComputes, CreatorIsAlone, CleanupsAreSingle,
         PeriodKeepsARun
<1> QED
  BY <1>3, <1>4, <1>5, <1>6, <1>7, <1>8 DEF PayrollInvariant

\* A failed attempt marks the run; the queue tries again or gives up.
LEMMA MarkJobFailedKeeps ==
  ASSUME PayrollInvariant, NEW p \in Procs, MarkJobFailed(p)
  PROVE  PayrollInvariant'
<1>1. ProcessesAreSane
  BY DEF Control
<1> DEFINE r == proc[p].run
           Again == ProcBecomes(p, "failAgain", proc[p].via, r, proc[p].old, proc[p].inserted)
           Over == ProcBecomes(p, "idle", "delete", NoRun, NoRun, 0)
           Hands(state) == jobs[r].owner = p /\ JobBecomes(r, state, NoProc)
<1>a. /\ proc[p].at = "fail" /\ proc[p].via \in {"async", "job"} /\ r \in Runs
      /\ MarkEnds(r, FALSE)
      /\ UNCHANGED <<items, lock, doubled, crossed, erased>>
  BY <1>1, MarkingEnds DEF MarkJobFailed, At, ProcessesAreSane, Marking
<1>b. (Goes(p, "failAgain") => Again) /\ (Ends(p) => Over)
  BY <1>1, <1>a, EndsFree, GoesOn DEF Places, Marking
<1>c. ASSUME NEW state \in {"waiting", "done"},
             jobs' = [jobs EXCEPT ![r].state = state, ![r].owner = NoProc, ![r].attempts = @ + 1]
      PROVE  JobBecomes(r, state, NoProc)
  BY <1>1, <1>a, <1>c, JobTried
<1>d. \/ UNCHANGED jobs /\ (Again \/ (proc[p].via = "job" /\ Over))
      \/ Hands("done") /\ Again
      \/ Hands("waiting") /\ Over
  <2> DEFINE owned == proc[p].via = "job" /\ jobs[r].owner = p
             last == jobs[r].attempts + 1 = MaxAttempts
             Tried(state) ==
               jobs' = [jobs EXCEPT ![r].state = state, ![r].owner = NoProc, ![r].attempts = @ + 1]
  <2>1. /\ owned /\ last => Tried("done") /\ Goes(p, "failAgain")
        /\ owned /\ ~last => Tried("waiting") /\ (Goes(p, "failAgain") \/ Ends(p))
        /\ ~owned => UNCHANGED jobs
        /\ proc[p].via = "async" => Goes(p, "failAgain")
        /\ proc[p].via # "async" /\ ~(owned /\ last) => Ends(p)
    BY DEF MarkJobFailed
  <2>2. (Tried("done") => JobBecomes(r, "done", NoProc))
        /\ (Tried("waiting") => JobBecomes(r, "waiting", NoProc))
    BY <1>c
  <2>3. (owned => jobs[r].owner = p /\ proc[p].via # "async") /\ proc[p].via \in {"async", "job"}
    BY <1>a
  <2> HIDE DEF owned, last, Tried, Again, Over
  <2> QED
    BY <1>b, <2>1, <2>2, <2>3
<1>2. /\ proc[p].at = "fail" /\ proc[p].via \in {"async", "job"}
      /\ \/ UNCHANGED <<runs, abandoned>>
         \/ RunBecomes(r, "failed") /\ Exists(r) /\ UNCHANGED abandoned
         \/ UNCHANGED runs /\ abandoned' = abandoned \cup {r}
      /\ \/ UNCHANGED jobs /\ (Again \/ (proc[p].via = "job" /\ Over))
         \/ Hands("done") /\ Again
         \/ Hands("waiting") /\ Over
      /\ UNCHANGED <<items, lock, doubled, crossed, erased>>
  BY <1>a, <1>d DEF MarkEnds
<1> USE <1>1, <1>2 DEF ProcBecomes, RunBecomes, JobBecomes
<1>3. PayrollTypeOK'
  BY DEF ProcessesAreSane, Process, Run
<1>4. Control'
  <2>1. ProcessesAreSane'
    BY NoRunAssumption DEF ProcessesAreSane, Process
  <2>2. OwnersAreActive' /\ AbsentRunsAreUnknown'
    BY NoRunAssumption
       DEF Control, OwnersAreActive, CreatorIsAlone, AbsentRunsAreUnknown,
           ProcessesAreSane
  <2>3. CreatorIsAlone' /\ OneComputes'
    BY NoRunAssumption
       DEF Control, ProcessesAreSane, CreatorIsAlone, OwnersAreActive,
           AbsentRunsAreUnknown, OneComputes
  <2>4. WorkersOwnTheirJobs' /\ InlineBeforeTheJob'
    BY NoRunAssumption, NoProcAssumption
       DEF Control, ProcessesAreSane, WorkersOwnTheirJobs, OneComputes, CreatorIsAlone,
           OwnersAreActive, InlineBeforeTheJob
  <2> QED
    BY <2>1, <2>2, <2>3, <2>4 DEF Control
<1>5. CompletedRunsAreComplete' /\ ItemsAreWhatWasInserted'
  BY DEF CompletedRunsAreComplete, ItemsAreWhatWasInserted, ProcessesAreSane, Control,
         OneComputes, CreatorIsAlone
<1>6. UnfinishedRunsWillBeEnded'
  BY DEF ProcessesAreSane, Control, OneComputes, CreatorIsAlone, UnfinishedRunsWillBeEnded,
         WillBeEnded, WorkersOwnTheirJobs
<1>7. CleanupsAreSingle'
  BY DEF ProcessesAreSane, Control, OneComputes, CreatorIsAlone, CleanupsAreSingle
<1>8. PeriodKeepsARun'
  BY DEF ProcessesAreSane, Control, OneComputes, CreatorIsAlone, CleanupsAreSingle,
         PeriodKeepsARun
<1> QED
  BY <1>3, <1>4, <1>5, <1>6, <1>7, <1>8 DEF PayrollInvariant

\* A worker takes a job.
LEMMA TakeJobKeeps ==
  ASSUME PayrollInvariant, NEW p \in Procs, NEW r \in Runs, TakeJob(p, r)
  PROVE  PayrollInvariant'
<1>1. ProcessesAreSane
  BY DEF Control
<1>2. /\ proc[p].at = "idle" /\ jobs[r].state = "waiting"
      /\ ProcBecomes(p, "check", "job", r, NoRun, 0)
      /\ JobBecomes(r, "active", p)
      /\ doubled' = IF \E q \in Procs : Computes(q, r) THEN doubled \cup {r} ELSE doubled
      /\ UNCHANGED <<runs, items, lock, abandoned, crossed, erased>>
  BY <1>1, TakesUp, JobHandedTo DEF TakeJob, At, Places, Computing, Computes
<1> USE <1>1, <1>2 DEF ProcBecomes, RunBecomes, JobBecomes
<1>3. PayrollTypeOK'
  BY DEF ProcessesAreSane, Process, Run
<1>4. Control'
  <2>1. ProcessesAreSane'
    BY NoRunAssumption DEF ProcessesAreSane, Process
  <2>2. OwnersAreActive' /\ AbsentRunsAreUnknown'
    BY NoRunAssumption
       DEF Control, OwnersAreActive, CreatorIsAlone, AbsentRunsAreUnknown,
           ProcessesAreSane
  <2>3. CreatorIsAlone' /\ OneComputes'
    BY NoRunAssumption
       DEF Control, ProcessesAreSane, CreatorIsAlone, OwnersAreActive,
           AbsentRunsAreUnknown, OneComputes
  <2>4. WorkersOwnTheirJobs' /\ InlineBeforeTheJob'
    BY NoRunAssumption, NoProcAssumption
       DEF Control, ProcessesAreSane, WorkersOwnTheirJobs, OneComputes, CreatorIsAlone,
           OwnersAreActive, InlineBeforeTheJob
  <2> QED
    BY <2>1, <2>2, <2>3, <2>4 DEF Control
<1>5. CompletedRunsAreComplete' /\ ItemsAreWhatWasInserted'
  BY DEF CompletedRunsAreComplete, ItemsAreWhatWasInserted, ProcessesAreSane, Control,
         OneComputes, CreatorIsAlone
<1>6. UnfinishedRunsWillBeEnded'
  BY DEF ProcessesAreSane, Control, OneComputes, CreatorIsAlone, UnfinishedRunsWillBeEnded,
         WillBeEnded, WorkersOwnTheirJobs
<1>7. CleanupsAreSingle'
  BY DEF ProcessesAreSane, Control, OneComputes, CreatorIsAlone, CleanupsAreSingle
<1>8. PeriodKeepsARun'
  BY DEF ProcessesAreSane, Control, OneComputes, CreatorIsAlone, CleanupsAreSingle,
         PeriodKeepsARun
<1> QED
  BY <1>3, <1>4, <1>5, <1>6, <1>7, <1>8 DEF PayrollInvariant

\* The queue has not heard of the worker.
LEMMA StallKeeps ==
  ASSUME PayrollInvariant, NEW r \in Runs, Stall(r)
  PROVE  PayrollInvariant'
<1>1. ProcessesAreSane
  BY DEF Control
<1>2. /\ jobs[r].state = "active"
      /\ JobBecomes(r, "waiting", NoProc)
      /\ UNCHANGED <<runs, items, lock, proc, abandoned, doubled, crossed, erased>>
  BY <1>1, JobStalled DEF Stall
<1> USE <1>1, <1>2 DEF ProcBecomes, RunBecomes, JobBecomes
<1>3. PayrollTypeOK'
  BY DEF ProcessesAreSane, Process, Run
<1>4. Control'
  <2>1. ProcessesAreSane'
    BY NoRunAssumption DEF ProcessesAreSane, Process
  <2>2. OwnersAreActive' /\ AbsentRunsAreUnknown'
    BY NoRunAssumption
       DEF Control, OwnersAreActive, CreatorIsAlone, AbsentRunsAreUnknown,
           ProcessesAreSane
  <2>3. CreatorIsAlone' /\ OneComputes'
    BY NoRunAssumption
       DEF Control, ProcessesAreSane, CreatorIsAlone, OwnersAreActive,
           AbsentRunsAreUnknown, OneComputes
  <2>4. WorkersOwnTheirJobs' /\ InlineBeforeTheJob'
    BY NoRunAssumption, NoProcAssumption
       DEF Control, ProcessesAreSane, WorkersOwnTheirJobs, OneComputes, CreatorIsAlone,
           OwnersAreActive, InlineBeforeTheJob
  <2> QED
    BY <2>1, <2>2, <2>3, <2>4 DEF Control
<1>5. CompletedRunsAreComplete' /\ ItemsAreWhatWasInserted'
  BY DEF CompletedRunsAreComplete, ItemsAreWhatWasInserted, ProcessesAreSane, Control,
         OneComputes, CreatorIsAlone
<1>6. UnfinishedRunsWillBeEnded'
  BY DEF ProcessesAreSane, Control, OneComputes, CreatorIsAlone, UnfinishedRunsWillBeEnded,
         WillBeEnded, WorkersOwnTheirJobs
<1>7. CleanupsAreSingle'
  BY DEF ProcessesAreSane, Control, OneComputes, CreatorIsAlone, CleanupsAreSingle
<1>8. PeriodKeepsARun'
  BY DEF ProcessesAreSane, Control, OneComputes, CreatorIsAlone, CleanupsAreSingle,
         PeriodKeepsARun
<1> QED
  BY <1>3, <1>4, <1>5, <1>6, <1>7, <1>8 DEF PayrollInvariant

\* Too often.
LEMMA StallTooOftenKeeps ==
  ASSUME PayrollInvariant, NEW r \in Runs, StallTooOften(r)
  PROVE  PayrollInvariant'
<1>1. ProcessesAreSane
  BY DEF Control
<1>2. /\ jobs[r].state = "active"
      /\ JobBecomes(r, "done", NoProc)
      /\ abandoned' = abandoned \cup {r}
      /\ UNCHANGED <<runs, items, lock, proc, doubled, crossed, erased>>
  BY <1>1, JobHandedTo DEF StallTooOften
<1> USE <1>1, <1>2 DEF ProcBecomes, RunBecomes, JobBecomes
<1>3. PayrollTypeOK'
  BY DEF ProcessesAreSane, Process, Run
<1>4. Control'
  <2>1. ProcessesAreSane'
    BY NoRunAssumption DEF ProcessesAreSane, Process
  <2>2. OwnersAreActive' /\ AbsentRunsAreUnknown'
    BY NoRunAssumption
       DEF Control, OwnersAreActive, CreatorIsAlone, AbsentRunsAreUnknown,
           ProcessesAreSane
  <2>3. CreatorIsAlone' /\ OneComputes'
    BY NoRunAssumption
       DEF Control, ProcessesAreSane, CreatorIsAlone, OwnersAreActive,
           AbsentRunsAreUnknown, OneComputes
  <2>4. WorkersOwnTheirJobs' /\ InlineBeforeTheJob'
    BY NoRunAssumption, NoProcAssumption
       DEF Control, ProcessesAreSane, WorkersOwnTheirJobs, OneComputes, CreatorIsAlone,
           OwnersAreActive, InlineBeforeTheJob
  <2> QED
    BY <2>1, <2>2, <2>3, <2>4 DEF Control
<1>5. CompletedRunsAreComplete' /\ ItemsAreWhatWasInserted'
  BY DEF CompletedRunsAreComplete, ItemsAreWhatWasInserted, ProcessesAreSane, Control,
         OneComputes, CreatorIsAlone
<1>6. UnfinishedRunsWillBeEnded'
  BY DEF ProcessesAreSane, Control, OneComputes, CreatorIsAlone, UnfinishedRunsWillBeEnded,
         WillBeEnded, WorkersOwnTheirJobs
<1>7. CleanupsAreSingle'
  BY DEF ProcessesAreSane, Control, OneComputes, CreatorIsAlone, CleanupsAreSingle
<1>8. PeriodKeepsARun'
  BY DEF ProcessesAreSane, Control, OneComputes, CreatorIsAlone, CleanupsAreSingle,
         PeriodKeepsARun
<1> QED
  BY <1>3, <1>4, <1>5, <1>6, <1>7, <1>8 DEF PayrollInvariant

\* A process stops.
LEMMA CrashKeeps ==
  ASSUME PayrollInvariant, NEW p \in Procs, Crash(p)
  PROVE  PayrollInvariant'
<1>1. ProcessesAreSane
  BY DEF Control
<1>2. /\ proc[p].at # "idle"
      /\ ProcBecomes(p, "idle", "delete", NoRun, NoRun, 0)
      /\ lock' \in {lock, NoProc}
      /\ abandoned' = IF proc[p].via \in {"calculate", "async"} \/ proc[p].at = "failAgain"
                      THEN abandoned \cup {proc[p].run} ELSE abandoned
      /\ UNCHANGED <<runs, items, jobs, doubled, crossed, erased>>
  BY <1>1, EndsFree DEF Crash, At
<1> USE <1>1, <1>2 DEF ProcBecomes, RunBecomes, JobBecomes
<1>3. PayrollTypeOK'
  BY DEF ProcessesAreSane
<1>4. Control'
  <2>1. ProcessesAreSane'
    BY NoRunAssumption DEF ProcessesAreSane, Process
  <2>2. OwnersAreActive' /\ AbsentRunsAreUnknown'
    BY NoRunAssumption
       DEF Control, OwnersAreActive, CreatorIsAlone, AbsentRunsAreUnknown,
           ProcessesAreSane
  <2>3. CreatorIsAlone' /\ OneComputes'
    BY NoRunAssumption
       DEF Control, ProcessesAreSane, CreatorIsAlone, OwnersAreActive,
           AbsentRunsAreUnknown, OneComputes
  <2>4. WorkersOwnTheirJobs' /\ InlineBeforeTheJob'
    BY NoRunAssumption, NoProcAssumption
       DEF Control, ProcessesAreSane, WorkersOwnTheirJobs, OneComputes, CreatorIsAlone,
           OwnersAreActive, InlineBeforeTheJob
  <2> QED
    BY <2>1, <2>2, <2>3, <2>4 DEF Control
<1>5. CompletedRunsAreComplete' /\ ItemsAreWhatWasInserted'
  BY DEF CompletedRunsAreComplete, ItemsAreWhatWasInserted, ProcessesAreSane, Control,
         OneComputes, CreatorIsAlone
<1>6. UnfinishedRunsWillBeEnded'
  BY DEF ProcessesAreSane, Control, OneComputes, CreatorIsAlone, UnfinishedRunsWillBeEnded,
         WillBeEnded, WorkersOwnTheirJobs
<1>7. CleanupsAreSingle'
  BY DEF ProcessesAreSane, Control, OneComputes, CreatorIsAlone, CleanupsAreSingle
<1>8. PeriodKeepsARun'
  BY DEF ProcessesAreSane, Control, OneComputes, CreatorIsAlone, CleanupsAreSingle,
         PeriodKeepsARun
<1> QED
  BY <1>3, <1>4, <1>5, <1>6, <1>7, <1>8 DEF PayrollInvariant

\* A user approves or rejects a run.
LEMMA DecisionsKeep ==
  ASSUME PayrollInvariant, NEW r \in Runs, Approve(r) \/ Reject(r)
  PROVE  PayrollInvariant'
<1>1. ProcessesAreSane
  BY DEF Control
<1>2. /\ Exists(r) /\ \E status \in {"approved", "draft"} : RunBecomes(r, status)
      /\ UNCHANGED <<items, lock, jobs, proc, abandoned, doubled, crossed, erased>>
  BY <1>1, DecisionSet DEF Approve, Reject, Statuses
<1> USE <1>1, <1>2 DEF ProcBecomes, RunBecomes, JobBecomes
<1>3. PayrollTypeOK'
  BY DEF Process, Run
<1>4. Control'
  <2>1. ProcessesAreSane'
    BY NoRunAssumption DEF ProcessesAreSane, Process
  <2>2. OwnersAreActive' /\ AbsentRunsAreUnknown'
    BY NoRunAssumption
       DEF Control, OwnersAreActive, CreatorIsAlone, AbsentRunsAreUnknown,
           ProcessesAreSane
  <2>3. CreatorIsAlone' /\ OneComputes'
    BY NoRunAssumption
       DEF Control, ProcessesAreSane, CreatorIsAlone, OwnersAreActive,
           AbsentRunsAreUnknown, OneComputes
  <2>4. WorkersOwnTheirJobs' /\ InlineBeforeTheJob'
    BY NoRunAssumption, NoProcAssumption
       DEF Control, ProcessesAreSane, WorkersOwnTheirJobs, OneComputes, CreatorIsAlone,
           OwnersAreActive, InlineBeforeTheJob
  <2> QED
    BY <2>1, <2>2, <2>3, <2>4 DEF Control
<1>5. CompletedRunsAreComplete' /\ ItemsAreWhatWasInserted'
  BY DEF CompletedRunsAreComplete, ItemsAreWhatWasInserted, ProcessesAreSane, Control,
         OneComputes, CreatorIsAlone
<1>6. UnfinishedRunsWillBeEnded'
  BY DEF ProcessesAreSane, Control, OneComputes, CreatorIsAlone, UnfinishedRunsWillBeEnded,
         WillBeEnded, WorkersOwnTheirJobs
<1>7. CleanupsAreSingle'
  BY DEF ProcessesAreSane, Control, OneComputes, CreatorIsAlone, CleanupsAreSingle
<1>8. PeriodKeepsARun'
  BY DEF ProcessesAreSane, Control, OneComputes, CreatorIsAlone, CleanupsAreSingle,
         PeriodKeepsARun
<1> QED
  BY <1>3, <1>4, <1>5, <1>6, <1>7, <1>8 DEF PayrollInvariant

\* A user is about to delete a run.
LEMMA ReadForDeleteKeeps ==
  ASSUME PayrollInvariant, NEW p \in Procs, NEW r \in Runs, ReadForDelete(p, r)
  PROVE  PayrollInvariant'
<1>1. ProcessesAreSane
  BY DEF Control
<1>2. /\ proc[p].at = "idle" /\ Exists(r)
      /\ ProcBecomes(p, "delete", "delete", r, NoRun, 0)
      /\ UNCHANGED <<runs, items, lock, jobs, abandoned, doubled, crossed, erased>>
  BY <1>1, TakesUpForDelete DEF ReadForDelete, At
<1> USE <1>1, <1>2 DEF ProcBecomes, RunBecomes, JobBecomes
<1>3. PayrollTypeOK'
  BY DEF Process, Run
<1>4. Control'
  <2>1. ProcessesAreSane'
    BY NoRunAssumption DEF ProcessesAreSane, Process
  <2>2. OwnersAreActive' /\ AbsentRunsAreUnknown'
    BY NoRunAssumption
       DEF Control, OwnersAreActive, CreatorIsAlone, AbsentRunsAreUnknown,
           ProcessesAreSane
  <2>3. CreatorIsAlone' /\ OneComputes'
    BY NoRunAssumption
       DEF Control, ProcessesAreSane, CreatorIsAlone, OwnersAreActive,
           AbsentRunsAreUnknown, OneComputes
  <2>4. WorkersOwnTheirJobs' /\ InlineBeforeTheJob'
    BY NoRunAssumption, NoProcAssumption
       DEF Control, ProcessesAreSane, WorkersOwnTheirJobs, OneComputes, CreatorIsAlone,
           OwnersAreActive, InlineBeforeTheJob
  <2> QED
    BY <2>1, <2>2, <2>3, <2>4 DEF Control
<1>5. CompletedRunsAreComplete' /\ ItemsAreWhatWasInserted'
  BY DEF CompletedRunsAreComplete, ItemsAreWhatWasInserted, ProcessesAreSane, Control,
         OneComputes, CreatorIsAlone
<1>6. UnfinishedRunsWillBeEnded'
  BY DEF ProcessesAreSane, Control, OneComputes, CreatorIsAlone, UnfinishedRunsWillBeEnded,
         WillBeEnded, WorkersOwnTheirJobs
<1>7. CleanupsAreSingle'
  BY DEF ProcessesAreSane, Control, OneComputes, CreatorIsAlone, CleanupsAreSingle
<1>8. PeriodKeepsARun'
  BY DEF ProcessesAreSane, Control, OneComputes, CreatorIsAlone, CleanupsAreSingle,
         PeriodKeepsARun
<1> QED
  BY <1>3, <1>4, <1>5, <1>6, <1>7, <1>8 DEF PayrollInvariant

\* It is deleted by hand.
LEMMA DeletePayrollRunKeeps ==
  ASSUME PayrollInvariant, NEW p \in Procs, DeletePayrollRun(p)
  PROVE  PayrollInvariant'
<1>1. ProcessesAreSane
  BY DEF Control
<1>2. /\ proc[p].at = "delete" /\ Exists(proc[p].run)
      /\ ProcBecomes(p, "idle", "delete", NoRun, NoRun, 0)
      /\ RunBecomes(proc[p].run, "deleted")
      /\ items' \in [Runs -> SUBSET (1..NumBatches)]
      /\ \A s \in Runs \ {proc[p].run} : items'[s] = items[s]
      /\ erased' = TRUE
      /\ UNCHANGED <<lock, jobs, abandoned, doubled, crossed>>
  BY <1>1, EndsFree, RunDeleted DEF DeletePayrollRun, At, ProcessesAreSane
<1> USE <1>1, <1>2 DEF ProcBecomes, RunBecomes, JobBecomes
<1>3. PayrollTypeOK'
  BY DEF Process, Run
<1>4. Control'
  <2>1. ProcessesAreSane'
    BY NoRunAssumption DEF ProcessesAreSane, Process
  <2>2. OwnersAreActive' /\ AbsentRunsAreUnknown'
    BY NoRunAssumption
       DEF Control, OwnersAreActive, CreatorIsAlone, AbsentRunsAreUnknown,
           ProcessesAreSane
  <2>3. CreatorIsAlone' /\ OneComputes'
    BY NoRunAssumption
       DEF Control, ProcessesAreSane, CreatorIsAlone, OwnersAreActive,
           AbsentRunsAreUnknown, OneComputes
  <2>4. WorkersOwnTheirJobs' /\ InlineBeforeTheJob'
    BY NoRunAssumption, NoProcAssumption
       DEF Control, ProcessesAreSane, WorkersOwnTheirJobs, OneComputes, CreatorIsAlone,
           OwnersAreActive, InlineBeforeTheJob
  <2> QED
    BY <2>1, <2>2, <2>3, <2>4 DEF Control
<1>5. CompletedRunsAreComplete' /\ ItemsAreWhatWasInserted'
  BY DEF CompletedRunsAreComplete, ItemsAreWhatWasInserted, ProcessesAreSane, Control,
         OneComputes, CreatorIsAlone
<1>6. UnfinishedRunsWillBeEnded'
  BY DEF ProcessesAreSane, Control, OneComputes, CreatorIsAlone, UnfinishedRunsWillBeEnded,
         WillBeEnded, WorkersOwnTheirJobs
<1>7. CleanupsAreSingle'
  BY DEF ProcessesAreSane, Control, OneComputes, CreatorIsAlone, CleanupsAreSingle
<1>8. PeriodKeepsARun'
  BY DEF ProcessesAreSane, Control, OneComputes, CreatorIsAlone, CleanupsAreSingle,
         PeriodKeepsARun
<1> QED
  BY <1>3, <1>4, <1>5, <1>6, <1>7, <1>8 DEF PayrollInvariant

\* Or not.
LEMMA DeleteThrowsKeeps ==
  ASSUME PayrollInvariant, NEW p \in Procs, DeleteThrows(p)
  PROVE  PayrollInvariant'
<1>1. ProcessesAreSane
  BY DEF Control
<1>2. /\ proc[p].at = "delete"
      /\ ProcBecomes(p, "idle", "delete", NoRun, NoRun, 0)
      /\ UNCHANGED <<runs, items, lock, jobs, abandoned, doubled, crossed, erased>>
  BY <1>1, EndsFree DEF DeleteThrows, At
<1> USE <1>1, <1>2 DEF ProcBecomes, RunBecomes, JobBecomes
<1>3. PayrollTypeOK'
  BY DEF Process, Run
<1>4. Control'
  <2>1. ProcessesAreSane'
    BY NoRunAssumption DEF ProcessesAreSane, Process
  <2>2. OwnersAreActive' /\ AbsentRunsAreUnknown'
    BY NoRunAssumption
       DEF Control, OwnersAreActive, CreatorIsAlone, AbsentRunsAreUnknown,
           ProcessesAreSane
  <2>3. CreatorIsAlone' /\ OneComputes'
    BY NoRunAssumption
       DEF Control, ProcessesAreSane, CreatorIsAlone, OwnersAreActive,
           AbsentRunsAreUnknown, OneComputes
  <2>4. WorkersOwnTheirJobs' /\ InlineBeforeTheJob'
    BY NoRunAssumption, NoProcAssumption
       DEF Control, ProcessesAreSane, WorkersOwnTheirJobs, OneComputes, CreatorIsAlone,
           OwnersAreActive, InlineBeforeTheJob
  <2> QED
    BY <2>1, <2>2, <2>3, <2>4 DEF Control
<1>5. CompletedRunsAreComplete' /\ ItemsAreWhatWasInserted'
  BY DEF CompletedRunsAreComplete, ItemsAreWhatWasInserted, ProcessesAreSane, Control,
         OneComputes, CreatorIsAlone
<1>6. UnfinishedRunsWillBeEnded'
  BY DEF ProcessesAreSane, Control, OneComputes, CreatorIsAlone, UnfinishedRunsWillBeEnded,
         WillBeEnded, WorkersOwnTheirJobs
<1>7. CleanupsAreSingle'
  BY DEF ProcessesAreSane, Control, OneComputes, CreatorIsAlone, CleanupsAreSingle
<1>8. PeriodKeepsARun'
  BY DEF ProcessesAreSane, Control, OneComputes, CreatorIsAlone, CleanupsAreSingle,
         PeriodKeepsARun
<1> QED
  BY <1>3, <1>4, <1>5, <1>6, <1>7, <1>8 DEF PayrollInvariant

-----------------------------------------------------------------------------
(* Theorems about payroll runs *)

HIDE DEF PayrollInvariant, PayrollTypeOK, Creates, Computes, Creating, CleaningUp,
    Computing, Marking, Exists, Statuses

\* Every step keeps the invariant.
LEMMA RunsKeepTheInvariant == PayrollInvariant /\ [Next]_vars => PayrollInvariant'
<1> SUFFICES ASSUME PayrollInvariant, [Next]_vars
             PROVE  PayrollInvariant'
  OBVIOUS
<1>1. ASSUME NEW p \in Procs, NEW r \in Runs,
             \/ CreateRun(p, r, "calculate") \/ CreateRun(p, r, "async")
             \/ TakeJob(p, r) \/ ReadForDelete(p, r)
      PROVE  PayrollInvariant'
  BY <1>1, CreateRunKeeps, TakeJobKeeps, ReadForDeleteKeeps
<1>2. ASSUME NEW p \in Procs, Calculate(p)
      PROVE  PayrollInvariant'
  BY <1>2, FindOldKeeps, NothingToDeleteKeeps, CheckOldKeeps, DeleteOldKeeps,
     CleanupThrowsKeeps, EnqueueKeeps, RunInlineKeeps DEF Calculate
<1>3. ASSUME NEW p \in Procs, Compute(p)
      PROVE  PayrollInvariant'
  BY <1>3, CheckKeeps, BeginKeeps, ClearKeeps, InsertKeeps, FinishKeeps, ThrowKeeps,
     MarkFailedKeeps, MarkJobFailedKeeps DEF Compute
<1>4. ASSUME NEW p \in Procs, Delete(p) \/ Crash(p)
      PROVE  PayrollInvariant'
  BY <1>4, DeletePayrollRunKeeps, DeleteThrowsKeeps, CrashKeeps DEF Delete
<1>5. ASSUME NEW r \in Runs, Stall(r) \/ StallTooOften(r) \/ Approve(r) \/ Reject(r)
      PROVE  PayrollInvariant'
  BY <1>5, StallKeeps, StallTooOftenKeeps, DecisionsKeep
<1>6. CASE UNCHANGED vars
  BY <1>6 DEF vars, PayrollInvariant, PayrollTypeOK, Control, ProcessesAreSane,
     OwnersAreActive, AbsentRunsAreUnknown, CreatorIsAlone, OneComputes,
     WorkersOwnTheirJobs, InlineBeforeTheJob, CompletedRunsAreComplete,
     ItemsAreWhatWasInserted, UnfinishedRunsWillBeEnded, CleanupsAreSingle,
     PeriodKeepsARun, Creates, Computes, WillBeEnded, Exists
<1> QED
  BY <1>1, <1>2, <1>3, <1>4, <1>5, <1>6 DEF Next, Work, Disturb

\* The inductive invariant.
THEOREM PayrollIsSound == PayrollSpec => []PayrollInvariant
<1>1. PayrollInvariant /\ [Next]_vars => PayrollInvariant'
  BY RunsKeepTheInvariant
<1> QED
  BY <1>1, PayrollStarts, PTL DEF PayrollSpec

\* Type correctness.
THEOREM PayrollTypes == PayrollSpec => []PayrollTypeOK
<1>1. PayrollInvariant => PayrollTypeOK
  BY DEF PayrollInvariant
<1> QED
  BY <1>1, PayrollIsSound, PTL

\* processPayrollRun, retried after failures, stalls and crashes: a run that says
\* it is completed has every batch, and one that says it waits or is being
\* processed has somebody or a job that will end it, unless its calculation was cut
\* short unmarked or its last marking failed, which markPayrollRunFailed only logs; and
\* with the other exceptions that the properties name.
THEOREM RunsEnd == PayrollSpec => []RunsEndComplete
<1>1. PayrollInvariant => RunsEndComplete
  BY DEF PayrollInvariant, RunsEndComplete, NoRunIsStuck, UnfinishedRunsWillBeEnded,
         WillBeEnded, Attended
<1> QED
  BY <1>1, PayrollIsSound, PTL

\* calculate and calculateAsync create their run before they delete the old one:
\* calculations that do not overlap leave the period with a run.
THEOREM PeriodsKeepARun == PayrollSpec => []PeriodKeepsARun
<1>1. PayrollInvariant => PeriodKeepsARun
  BY DEF PayrollInvariant
<1> QED
  BY <1>1, PayrollIsSound, PTL

-----------------------------------------------------------------------------
(* Salaries *)

\* An employee's record of a salary, and an entry of the bin.
Record == [there : BOOLEAN, base : Nat]
BinEntry == [who : Employees, base : Nat, state : {"open", "restored", "gone"}]

\* What a request has read: nothing, all records, or an employee.
Readings == {<< >>} \cup [Employees -> Record] \cup [record : Record, column : Nat]

Sheet ==
  [op : {"none", "mirror", "bin", "return", "purge", "raise", "change"}, who : SUBSET Employees,
   read : Readings, amount : Nat, stale : SUBSET Employees]

\* Types.
RowsAreTyped ==
  /\ pay \in [Employees -> Record]
  /\ mirror \in [Employees -> Nat]
  /\ due \in [Employees -> Nat]
  /\ bin \in Seq(BinEntry)
  /\ split \subseteq Employees /\ questioned \subseteq Employees

SheetsAreTyped ==
  /\ sheet \in [Desks -> Sheet]
  /\ \A p \in Desks : sheet[p].stale \subseteq sheet[p].who

\* What request r has read is what there is, but for the employees others have
\* written about since.
Sane(r) ==
  /\ r.op = "mirror" => /\ \E e \in Employees : r.who = {e}
                        /\ \A e \in r.who \ r.stale : pay[e] = Paying(r.amount)
  /\ r.op \in {"bin", "raise"} => r.read \in [Employees -> Record]
  /\ r.op = "raise" => \A e \in r.who \ r.stale : pay[e] = r.read[e]
  /\ r.op = "change" =>
       /\ r.read \in [record : Record, column : Nat]
       /\ \A e \in r.who \ r.stale : pay[e] = r.read.record /\ mirror[e] = r.read.column
  /\ r.op \in {"return", "purge"} => r.amount \in DOMAIN bin
  /\ r.op = "return" => r.who = {bin[r.amount].who}

SheetsAreSane == \A p \in Desks : Sane(sheet[p])

\* The inductive invariant.
SalariesInvariant == RowsAreTyped /\ SheetsAreTyped /\ SheetsAreSane /\ SalariesAddUp

-----------------------------------------------------------------------------
(* Sheets *)

\* A blank sheet is one, and a record of an amount is one.
LEMMA BlankIsSheet ==
  /\ Blank \in Sheet /\ Blank.op = "none" /\ Blank.who = {} /\ Blank.stale = {}
  /\ NoRecord \in Record /\ ~NoRecord.there
  /\ \A a \in Nat : Paying(a) \in Record /\ Paying(a).there /\ Paying(a).base = a
BY DEF Blank, Sheet, Readings, NoRecord, Record, Paying

\* Entries of the bin are typed, and have numbers.
LEMMA BinIsTyped ==
  ASSUME bin \in Seq(BinEntry)
  PROVE  \A h \in DOMAIN bin :
           h \in Nat /\ bin[h] \in BinEntry /\ bin[h].who \in Employees /\ bin[h].base \in Nat
<1>1. DOMAIN bin = 1 .. Len(bin) /\ Len(bin) \in Nat /\ bin \in [1 .. Len(bin) -> BinEntry]
  OBVIOUS
<1>2. \A h \in DOMAIN bin : h \in Nat /\ bin[h] \in BinEntry
  BY <1>1
<1> QED
  BY <1>2 DEF BinEntry

\* A sheet that more employees are stale in is one.
LEMMA StaleIsSheet ==
  ASSUME NEW r \in Sheet, NEW S \in SUBSET Employees
  PROVE  LET t == [r EXCEPT !.stale = S]
         IN  /\ t \in Sheet /\ t.stale = S
             /\ t.op = r.op /\ t.who = r.who /\ t.read = r.read /\ t.amount = r.amount
BY DEF Sheet

\* What a write does to the sheets: its own is the next one, and in the others
\* those it wrote about are stale.
LEMMA WritingSheets ==
  ASSUME SheetsAreTyped, NEW p \in Desks, NEW E \in SUBSET Employees, NEW next \in Sheet,
         next.stale \subseteq next.who, Writes(p, E, next)
  PROVE  /\ SheetsAreTyped'
         /\ sheet'[p] = next
         /\ \A q \in Desks \ {p} :
              /\ sheet'[q].op = sheet[q].op /\ sheet'[q].who = sheet[q].who
              /\ sheet'[q].read = sheet[q].read /\ sheet'[q].amount = sheet[q].amount
              /\ sheet'[q].stale = sheet[q].stale \cup (E \cap sheet[q].who)
<1>1. sheet'[p] = next
  BY DEF Writes
<1>2. ASSUME NEW q \in Desks \ {p}
      PROVE  /\ sheet'[q] \in Sheet
             /\ sheet'[q].op = sheet[q].op /\ sheet'[q].who = sheet[q].who
             /\ sheet'[q].read = sheet[q].read /\ sheet'[q].amount = sheet[q].amount
             /\ sheet'[q].stale = sheet[q].stale \cup (E \cap sheet[q].who)
             /\ sheet[q].stale \subseteq sheet[q].who
  <2> DEFINE S == sheet[q].stale \cup (E \cap sheet[q].who)
  <2>1. sheet[q] \in Sheet /\ sheet[q].stale \subseteq sheet[q].who
    BY DEF SheetsAreTyped
  <2>2. S \in SUBSET Employees
    BY <2>1 DEF Sheet
  <2>3. sheet'[q] = [sheet[q] EXCEPT !.stale = S]
    BY DEF Writes
  <2> HIDE DEF S
  <2>4. /\ sheet'[q] \in Sheet /\ sheet'[q].stale = S
        /\ sheet'[q].op = sheet[q].op /\ sheet'[q].who = sheet[q].who
        /\ sheet'[q].read = sheet[q].read /\ sheet'[q].amount = sheet[q].amount
    BY <2>1, <2>2, <2>3, StaleIsSheet
  <2> QED
    BY <2>1, <2>4 DEF S
<1>3. sheet' \in [Desks -> Sheet]
  <2>1. \A q \in Desks : sheet'[q] \in Sheet
    BY <1>1, <1>2
  <2> QED
    BY <2>1 DEF Writes
<1>4. \A q \in Desks : sheet'[q].stale \subseteq sheet'[q].who
  BY <1>1, <1>2
<1> QED
  BY <1>1, <1>2, <1>3, <1>4 DEF SheetsAreTyped

\* The bin keeps its entries, and whose they are.
BinKeepsEntries ==
  /\ DOMAIN bin \subseteq DOMAIN bin'
  /\ \A h \in DOMAIN bin : bin'[h].who = bin[h].who

\* Whoever writes about E alone and says so leaves the other sheets sane.
LEMMA OthersStaySane ==
  ASSUME SheetsAreTyped, SheetsAreSane, NEW p \in Desks, NEW E \in SUBSET Employees,
         NEW next \in Sheet, next.stale \subseteq next.who, Writes(p, E, next),
         \A e \in Employees \ E : pay'[e] = pay[e] /\ mirror'[e] = mirror[e],
         BinKeepsEntries
  PROVE  /\ SheetsAreTyped' /\ sheet'[p] = next
         /\ Sane(next)' => SheetsAreSane'
         /\ \A e \in Employees : HalfSaved(e)' <=>
              \/ next.op = "mirror" /\ e \in next.who
              \/ \E q \in Desks \ {p} : sheet[q].op = "mirror" /\ e \in sheet[q].who
<1>1. /\ SheetsAreTyped' /\ sheet'[p] = next
      /\ \A q \in Desks \ {p} :
           /\ sheet'[q].op = sheet[q].op /\ sheet'[q].who = sheet[q].who
           /\ sheet'[q].read = sheet[q].read /\ sheet'[q].amount = sheet[q].amount
           /\ sheet'[q].stale = sheet[q].stale \cup (E \cap sheet[q].who)
  BY WritingSheets
<1>2. ASSUME NEW q \in Desks \ {p} PROVE Sane(sheet[q])'
  <2> DEFINE r == sheet[q]
             t == sheet'[q]
  <2>1. /\ r \in Sheet /\ r.who \subseteq Employees /\ Sane(r)
        /\ t.op = r.op /\ t.who = r.who /\ t.read = r.read /\ t.amount = r.amount
        /\ t.stale = r.stale \cup (E \cap r.who)
    BY <1>1 DEF SheetsAreTyped, SheetsAreSane, Sheet
  <2>2. \A e \in t.who \ t.stale :
          e \in r.who \ r.stale /\ pay'[e] = pay[e] /\ mirror'[e] = mirror[e]
    BY <2>1
  <2> HIDE DEF r, t
  <2>3. /\ t.op = "mirror" => /\ \E e \in Employees : t.who = {e}
                              /\ \A e \in t.who \ t.stale : pay'[e] = Paying(t.amount)
        /\ t.op \in {"bin", "raise"} => t.read \in [Employees -> Record]
        /\ t.op = "raise" => \A e \in t.who \ t.stale : pay'[e] = t.read[e]
    BY <2>1, <2>2 DEF Sane
  <2>4. t.op = "change" =>
          /\ t.read \in [record : Record, column : Nat]
          /\ \A e \in t.who \ t.stale : pay'[e] = t.read.record /\ mirror'[e] = t.read.column
    BY <2>1, <2>2 DEF Sane
  <2>5. /\ t.op \in {"return", "purge"} => t.amount \in DOMAIN bin'
        /\ t.op = "return" => t.who = {bin'[t.amount].who}
    BY <2>1 DEF Sane, BinKeepsEntries
  <2> QED
    BY <2>3, <2>4, <2>5 DEF Sane, t, Record, Paying
<1>3. Sane(next)' => SheetsAreSane'
  BY <1>1, <1>2 DEF SheetsAreSane
<1>4. \A e \in Employees : HalfSaved(e)' <=>
        \/ next.op = "mirror" /\ e \in next.who
        \/ \E q \in Desks \ {p} : sheet[q].op = "mirror" /\ e \in sheet[q].who
  BY <1>1 DEF HalfSaved
<1> QED
  BY <1>1, <1>3, <1>4

\* A blank sheet says nothing that could be wrong.
LEMMA BlankIsSane == Sane(Blank)'
BY BlankIsSheet DEF Sane, Blank

-----------------------------------------------------------------------------
(* Requests that read *)

\* Whoever only looks leaves everything else, with its own sheet sane.
LEMMA LookingKeepsTheInvariant ==
  ASSUME SalariesInvariant, NEW p \in Desks, NEW next \in Sheet, next.stale = {},
         next.op # "mirror", Sane(next), Looks(p, next), InRecords
  PROVE  SalariesInvariant'
<1>1. /\ sheet \in [Desks -> Sheet] /\ sheet' = [sheet EXCEPT ![p] = next]
      /\ sheet[p].op = "none"
  BY DEF SalariesInvariant, SheetsAreTyped, Looks
<1>2. /\ sheet' \in [Desks -> Sheet] /\ sheet'[p] = next
      /\ \A q \in Desks \ {p} : sheet'[q] = sheet[q]
  BY <1>1
<1>3. SheetsAreTyped'
  <2>1. \A q \in Desks : sheet'[q].stale \subseteq sheet'[q].who
    BY <1>2 DEF SalariesInvariant, SheetsAreTyped
  <2> QED
    BY <1>2, <2>1 DEF SheetsAreTyped
<1>4. SheetsAreSane'
  <2>1. ASSUME NEW q \in Desks PROVE Sane(sheet'[q])
    BY <1>2 DEF SalariesInvariant, SheetsAreSane
  <2> QED
    BY <2>1 DEF SheetsAreSane, Sane, InRecords, Record, Paying
<1>5. \A e \in Employees : MirrorMayLag(e)' <=> MirrorMayLag(e)
  BY <1>1, <1>2 DEF MirrorMayLag, HalfSaved, InRecords
<1>6. SalariesAddUp'
  BY <1>5 DEF SalariesInvariant, SalariesAddUp, MirrorFollowsRecord, PayIsWhatIsDue, Resolved,
              InRecords
<1> QED
  BY <1>3, <1>4, <1>6 DEF SalariesInvariant, RowsAreTyped, InRecords

\* remove, restoreSalary, bulkRaise and update read.
LEMMA ReadingKeepsTheInvariant ==
  ASSUME SalariesInvariant, NEW p \in Desks,
         \/ ReadForBin(p) \/ ReadForReturn(p) \/ ReadForChange(p)
         \/ \E e \in Employees : ReadForRaise(p, {e})
  PROVE  SalariesInvariant'
<1>0. /\ pay \in [Employees -> Record] /\ mirror \in [Employees -> Nat]
      /\ \A h \in DOMAIN bin : h \in Nat /\ bin[h].who \in Employees
      /\ Blank \in Sheet
  BY BinIsTyped, BlankIsSheet DEF SalariesInvariant, RowsAreTyped
<1>1. ASSUME ReadForBin(p) PROVE SalariesInvariant'
  <2>1. PICK e \in Employees :
          /\ Looks(p, [Blank EXCEPT !.op = "bin", !.who = {e}, !.read = pay])
          /\ InRecords
    BY <1>1 DEF ReadForBin
  <2> DEFINE next == [Blank EXCEPT !.op = "bin", !.who = {e}, !.read = pay]
  <2>2. /\ next \in Sheet /\ next.op = "bin" /\ next.read = pay /\ next.stale = {}
    <3>1. pay \in Readings /\ {e} \in SUBSET Employees /\ Blank.stale = {}
      BY <1>0, BlankIsSheet DEF Readings
    <3> QED
      BY <3>1, <1>0 DEF Sheet
  <2>3. Looks(p, next) /\ InRecords
    BY <2>1
  <2> HIDE DEF next
  <2>4. Sane(next)
    BY <1>0, <2>2 DEF Sane
  <2> QED
    BY <2>2, <2>3, <2>4, LookingKeepsTheInvariant
<1>2. ASSUME ReadForReturn(p) PROVE SalariesInvariant'
  <2>1. PICK h \in DOMAIN bin :
          /\ Looks(p, [Blank EXCEPT !.op = "return", !.who = {bin[h].who}, !.amount = h])
          /\ InRecords
    BY <1>2 DEF ReadForReturn
  <2> DEFINE next == [Blank EXCEPT !.op = "return", !.who = {bin[h].who}, !.amount = h]
  <2>2. /\ next \in Sheet /\ next.op = "return" /\ next.amount = h
        /\ next.who = {bin[h].who} /\ next.stale = {}
    <3>1. h \in Nat /\ {bin[h].who} \in SUBSET Employees /\ Blank.stale = {}
      BY <1>0, BlankIsSheet
    <3> QED
      BY <3>1, <1>0 DEF Sheet
  <2>3. Looks(p, next) /\ InRecords
    BY <2>1
  <2> HIDE DEF next
  <2>4. Sane(next)
    BY <2>2 DEF Sane
  <2> QED
    BY <2>2, <2>3, <2>4, LookingKeepsTheInvariant
<1>3. ASSUME ReadForChange(p) PROVE SalariesInvariant'
  <2>1. PICK e \in Employees, a \in Amounts \cup {Unchanged} :
          /\ Looks(p, [Blank EXCEPT !.op = "change", !.who = {e}, !.amount = a,
                                    !.read = [record |-> pay[e], column |-> mirror[e]]])
          /\ InRecords
    BY <1>3 DEF ReadForChange
  <2> DEFINE seen == [record |-> pay[e], column |-> mirror[e]]
             next == [Blank EXCEPT !.op = "change", !.who = {e}, !.amount = a, !.read = seen]
  <2>2. a \in Nat
    BY AmountsAssumption DEF Unchanged
  <2>3. seen \in [record : Record, column : Nat] /\ seen.record = pay[e] /\ seen.column = mirror[e]
    BY <1>0
  <2>4. Looks(p, next) /\ InRecords
    BY <2>1
  <2> HIDE DEF seen
  <2>5. /\ next \in Sheet /\ next.op = "change" /\ next.who = {e} /\ next.read = seen
        /\ next.stale = {}
    <3>1. seen \in Readings /\ {e} \in SUBSET Employees /\ Blank.stale = {}
      BY <2>3, BlankIsSheet DEF Readings
    <3> QED
      BY <2>2, <3>1, <1>0 DEF Sheet
  <2> HIDE DEF next
  <2>6. Sane(next)
    BY <2>3, <2>5 DEF Sane
  <2> QED
    BY <2>4, <2>5, <2>6, LookingKeepsTheInvariant
<1>4. ASSUME NEW e \in Employees, ReadForRaise(p, {e}) PROVE SalariesInvariant'
  <2> DEFINE paid == {f \in {e} : pay[f].there}
             next == [Blank EXCEPT !.op = "raise", !.who = paid, !.read = pay]
  <2>1. /\ next \in Sheet /\ next.op = "raise" /\ next.who = paid /\ next.read = pay
        /\ next.stale = {}
    <3>1. pay \in Readings /\ paid \in SUBSET Employees /\ Blank.stale = {}
      BY <1>0, BlankIsSheet DEF Readings
    <3> HIDE DEF paid
    <3> QED
      BY <3>1, <1>0 DEF Sheet
  <2>2. Looks(p, next) /\ InRecords
    BY <1>4 DEF ReadForRaise
  <2> HIDE DEF next
  <2>3. Sane(next)
    BY <1>0, <2>1 DEF Sane
  <2> QED
    BY <2>1, <2>2, <2>3, LookingKeepsTheInvariant
<1> QED
  BY <1>1, <1>2, <1>3, <1>4

-----------------------------------------------------------------------------
(* Requests that write *)

\* upsert saves the record: until the mirror follows, it may lag.
LEMMA SavingASalary ==
  ASSUME SalariesInvariant, NEW p \in Desks, SaveSalary(p)
  PROVE  SalariesInvariant'
<1>0. PICK e \in Employees, a \in Amounts :
        /\ sheet[p].op = "none"
        /\ pay' = [pay EXCEPT ![e] = Paying(a)]
        /\ due' = [due EXCEPT ![e] = a]
        /\ questioned' = questioned \ {e}
        /\ Writes(p, {e}, [Blank EXCEPT !.op = "mirror", !.who = {e}, !.amount = a])
        /\ UNCHANGED <<mirror, bin, split>>
  BY DEF SaveSalary
<1> DEFINE next == [Blank EXCEPT !.op = "mirror", !.who = {e}, !.amount = a]
<1>1. a \in Nat /\ Paying(a) \in Record /\ Paying(a).there /\ Paying(a).base = a
  BY AmountsAssumption, BlankIsSheet
<1>2. RowsAreTyped'
  BY <1>0, <1>1 DEF SalariesInvariant, RowsAreTyped
<1>3. /\ next \in Sheet /\ Writes(p, {e}, next)
      /\ next.op = "mirror" /\ next.who = {e} /\ next.amount = a /\ next.stale = {}
  <2>1. Blank \in Sheet /\ Blank.stale = {} /\ {e} \in SUBSET Employees
    BY BlankIsSheet
  <2>2. Writes(p, {e}, next)
    BY <1>0
  <2> QED
    BY <1>1, <2>1, <2>2 DEF Sheet
<1> HIDE DEF next
<1>4. /\ pay'[e] = Paying(a) /\ due'[e] = a
      /\ \A f \in Employees \ {e} : pay'[f] = pay[f] /\ due'[f] = due[f]
  BY <1>0, <1>1 DEF SalariesInvariant, RowsAreTyped
<1>5. BinKeepsEntries
  BY <1>0 DEF BinKeepsEntries
<1>6. /\ SheetsAreTyped' /\ (Sane(next)' => SheetsAreSane')
      /\ \A f \in Employees : HalfSaved(f)' <=>
           \/ f = e
           \/ \E q \in Desks \ {p} : sheet[q].op = "mirror" /\ f \in sheet[q].who
  <2>1. \A f \in Employees \ {e} : pay'[f] = pay[f] /\ mirror'[f] = mirror[f]
    BY <1>0, <1>4
  <2>2. /\ SheetsAreTyped' /\ (Sane(next)' => SheetsAreSane')
        /\ \A f \in Employees : HalfSaved(f)' <=>
             \/ next.op = "mirror" /\ f \in next.who
             \/ \E q \in Desks \ {p} : sheet[q].op = "mirror" /\ f \in sheet[q].who
    <3>1. SheetsAreTyped /\ SheetsAreSane /\ {e} \in SUBSET Employees
      BY DEF SalariesInvariant
    <3>2. next.stale \subseteq next.who
      BY <1>3
    <3> QED
      BY <1>3, <1>5, <2>1, <3>1, <3>2, OthersStaySane
  <2> QED
    BY <1>3, <2>2
<1>7. Sane(next)'
  BY <1>3, <1>4 DEF Sane, Paying
<1>8. \A f \in Employees : f # e => (MirrorMayLag(f)' <=> MirrorMayLag(f))
  BY <1>0, <1>6 DEF MirrorMayLag, HalfSaved
<1>9. MirrorMayLag(e)'
  BY <1>6 DEF MirrorMayLag
<1>10. SalariesAddUp'
  BY <1>0, <1>1, <1>4, <1>8, <1>9
     DEF SalariesInvariant, SalariesAddUp, MirrorFollowsRecord, PayIsWhatIsDue, Resolved
<1> QED
  BY <1>2, <1>6, <1>7, <1>10 DEF SalariesInvariant

\* What all the other writes have in common: they end their request and write
\* about E alone.
LEMMA WritingTheRest ==
  ASSUME SalariesInvariant, NEW p \in Desks, NEW E \in SUBSET Employees, Writes(p, E, Blank),
         \A e \in Employees \ E : pay'[e] = pay[e] /\ mirror'[e] = mirror[e],
         BinKeepsEntries
  PROVE  /\ SheetsAreTyped' /\ SheetsAreSane'
         /\ \A e \in Employees : HalfSaved(e)' <=>
              \E q \in Desks \ {p} : sheet[q].op = "mirror" /\ e \in sheet[q].who
         /\ \A e \in Employees : HalfSaved(e)' => HalfSaved(e)
         /\ \A e \in Employees : HalfSaved(e) => HalfSaved(e)' \/ (sheet[p].op = "mirror" /\ e \in sheet[p].who)
<1>1. Blank \in Sheet /\ Blank.stale \subseteq Blank.who /\ Blank.op = "none"
  BY BlankIsSheet
<1>2. /\ SheetsAreTyped' /\ SheetsAreSane'
      /\ \A e \in Employees : HalfSaved(e)' <=>
           \E q \in Desks \ {p} : sheet[q].op = "mirror" /\ e \in sheet[q].who
  BY <1>1, BlankIsSane, OthersStaySane DEF SalariesInvariant
<1> QED
  BY <1>2 DEF HalfSaved

\* upsert saves the mirror: it is the record's, unless the request was overtaken.
LEMMA SavingAMirror ==
  ASSUME SalariesInvariant, NEW p \in Desks, SaveMirror(p)
  PROVE  SalariesInvariant'
<1>0. PICK e \in sheet[p].who :
        /\ sheet[p].op = "mirror"
        /\ mirror' = [mirror EXCEPT ![e] = sheet[p].amount]
        /\ split' = IF e \in sheet[p].stale THEN split \cup {e} ELSE split \ {e}
        /\ questioned' = IF e \in sheet[p].stale THEN questioned \cup {e} ELSE questioned
        /\ Writes(p, {e}, Blank)
        /\ UNCHANGED <<pay, bin, due>>
  BY DEF SaveMirror
<1>1. /\ e \in Employees /\ sheet[p].who = {e} /\ sheet[p].amount \in Nat
      /\ e \notin sheet[p].stale => pay[e] = Paying(sheet[p].amount)
  BY <1>0 DEF SalariesInvariant, SheetsAreTyped, SheetsAreSane, Sane, Sheet
<1>2. RowsAreTyped'
  BY <1>0, <1>1 DEF SalariesInvariant, RowsAreTyped
<1>3. mirror'[e] = sheet[p].amount /\ \A f \in Employees \ {e} : mirror'[f] = mirror[f]
  BY <1>0, <1>1 DEF SalariesInvariant, RowsAreTyped
<1>4. /\ SheetsAreTyped' /\ SheetsAreSane'
      /\ \A f \in Employees : HalfSaved(f) => HalfSaved(f)' \/ f = e
  <2>1. BinKeepsEntries
    BY <1>0 DEF BinKeepsEntries
  <2> QED
    BY <1>0, <1>1, <1>3, <2>1, WritingTheRest
<1>5. \A f \in Employees \ {e} : MirrorMayLag(f) => MirrorMayLag(f)'
  BY <1>0, <1>4 DEF MirrorMayLag
<1>6. MirrorFollowsRecord'
  <2> SUFFICES ASSUME NEW f \in Employees, pay'[f].there, ~MirrorMayLag(f)'
               PROVE  mirror'[f] = pay'[f].base
    BY DEF MirrorFollowsRecord
  <2>1. CASE f = e
    <3>1. e \notin sheet[p].stale
      BY <2>1, <1>0 DEF MirrorMayLag
    <3> QED
      BY <3>1, <2>1, <1>0, <1>1, <1>3, BlankIsSheet
  <2>2. CASE f # e
    BY <2>2, <1>0, <1>3, <1>5 DEF SalariesInvariant, SalariesAddUp, MirrorFollowsRecord
  <2> QED
    BY <2>1, <2>2
<1>7. PayIsWhatIsDue'
  <2> SUFFICES ASSUME NEW f \in Employees, f \notin questioned'
               PROVE  Resolved(f)' = due'[f]
    BY DEF PayIsWhatIsDue
  <2>0. f \notin questioned /\ Resolved(f) = due[f]
    BY <1>0 DEF SalariesInvariant, SalariesAddUp, PayIsWhatIsDue
  <2>1. CASE f = e
    <3>1. e \notin sheet[p].stale
      BY <2>1, <1>0
    <3>2. pay[e].there
      BY <3>1, <1>1, BlankIsSheet
    <3> QED
      BY <3>2, <2>0, <2>1, <1>0 DEF Resolved
  <2>2. CASE f # e
    BY <2>0, <2>2, <1>0, <1>3 DEF Resolved
  <2> QED
    BY <2>1, <2>2
<1> QED
  BY <1>2, <1>4, <1>6, <1>7 DEF SalariesInvariant, SalariesAddUp

\* What a deletion of an employee's record does to what is paid: nothing, or the
\* employee is questioned.
LEMMA UnrecordedIsPaid ==
  ASSUME SalariesInvariant, NEW e \in Employees, Unrecorded(e), UNCHANGED <<mirror, due, split>>,
         \A f \in Employees \ {e} : MirrorMayLag(f) => MirrorMayLag(f)'
  PROVE  /\ SalariesAddUp'
         /\ pay' \in [Employees -> Record] /\ questioned' \subseteq Employees
         /\ \A f \in Employees \ {e} : pay'[f] = pay[f]
<1>1. /\ pay' = [pay EXCEPT ![e] = NoRecord]
      /\ pay \in [Employees -> Record] /\ NoRecord \in Record /\ ~NoRecord.there
      /\ questioned \subseteq Employees
  BY BlankIsSheet DEF Unrecorded, SalariesInvariant, RowsAreTyped
<1>2. /\ pay' \in [Employees -> Record] /\ ~pay'[e].there
      /\ \A f \in Employees \ {e} : pay'[f] = pay[f]
  BY <1>1
<1>3. /\ questioned' \subseteq Employees /\ questioned \subseteq questioned'
      /\ MirrorMayLag(e) /\ pay[e].there => e \in questioned'
  BY <1>1 DEF Unrecorded
<1>4. MirrorFollowsRecord'
  BY <1>2 DEF MirrorFollowsRecord, SalariesInvariant, SalariesAddUp
<1>5. PayIsWhatIsDue'
  <2> SUFFICES ASSUME NEW f \in Employees, f \notin questioned'
               PROVE  Resolved(f)' = due'[f]
    BY DEF PayIsWhatIsDue
  <2>0. Resolved(f) = due[f]
    BY <1>3 DEF SalariesInvariant, SalariesAddUp, PayIsWhatIsDue
  <2>1. CASE f = e
    BY <2>0, <2>1, <1>2, <1>3 DEF SalariesInvariant, SalariesAddUp, MirrorFollowsRecord, Resolved
  <2>2. CASE f # e
    BY <2>0, <2>2, <1>2 DEF Resolved
  <2> QED
    BY <2>1, <2>2
<1> QED
  BY <1>2, <1>3, <1>4, <1>5 DEF SalariesAddUp

\* The bin with one more entry, or one in another state.
LEMMA BinChanges ==
  ASSUME bin \in Seq(BinEntry)
  PROVE  /\ \A x \in BinEntry : bin' = Append(bin, x) => bin' \in Seq(BinEntry) /\ BinKeepsEntries
         /\ \A h \in DOMAIN bin, s \in {"restored", "gone"} :
              bin' = [bin EXCEPT ![h].state = s] => bin' \in Seq(BinEntry) /\ BinKeepsEntries
<1>1. ASSUME NEW x \in BinEntry, bin' = Append(bin, x)
      PROVE  bin' \in Seq(BinEntry) /\ BinKeepsEntries
  BY <1>1 DEF BinKeepsEntries
<1>2. ASSUME NEW h \in DOMAIN bin, NEW s \in {"restored", "gone"}, bin' = [bin EXCEPT ![h].state = s]
      PROVE  bin' \in Seq(BinEntry) /\ BinKeepsEntries
  <2>1. bin[h] \in BinEntry
    OBVIOUS
  <2> DEFINE x == [bin[h] EXCEPT !.state = s]
  <2>2. x \in BinEntry /\ x.who = bin[h].who
    BY <2>1 DEF BinEntry
  <2>3. bin' = [bin EXCEPT ![h] = x]
    BY <1>2
  <2> HIDE DEF x
  <2> QED
    BY <2>2, <2>3 DEF BinKeepsEntries
<1> QED
  BY <1>1, <1>2

\* remove: the record goes, and the bin gets what was read of it.
LEMMA BinningASalary ==
  ASSUME SalariesInvariant, NEW p \in Desks, BinSalary(p)
  PROVE  SalariesInvariant'
<1>0. PICK e \in sheet[p].who :
        /\ sheet[p].op = "bin"
        /\ Unrecorded(e)
        /\ bin' = Append(bin, [who |-> e, base |-> sheet[p].read[e].base, state |-> "open"])
        /\ Writes(p, {e}, Blank)
        /\ UNCHANGED <<mirror, due, split>>
  BY DEF BinSalary
<1>1. e \in Employees /\ sheet[p].read[e] \in Record
  BY <1>0 DEF SalariesInvariant, SheetsAreTyped, SheetsAreSane, Sane, Sheet
<1>2. bin' \in Seq(BinEntry) /\ BinKeepsEntries
  <2> DEFINE x == [who |-> e, base |-> sheet[p].read[e].base, state |-> "open"]
  <2>1. x \in BinEntry
    BY <1>1 DEF BinEntry, Record
  <2> QED
    BY <1>0, <2>1, BinChanges DEF SalariesInvariant, RowsAreTyped
<1>3. \A f \in Employees \ {e} : pay'[f] = pay[f]
  BY <1>0, <1>1 DEF Unrecorded, SalariesInvariant, RowsAreTyped
<1>4. /\ SheetsAreTyped' /\ SheetsAreSane'
      /\ \A f \in Employees : HalfSaved(f) => HalfSaved(f)'
  BY <1>0, <1>1, <1>2, <1>3, WritingTheRest
<1>5. \A f \in Employees \ {e} : MirrorMayLag(f) => MirrorMayLag(f)'
  BY <1>0, <1>4 DEF MirrorMayLag
<1>6. SalariesAddUp' /\ pay' \in [Employees -> Record] /\ questioned' \subseteq Employees
  BY <1>0, <1>1, <1>5, UnrecordedIsPaid
<1> QED
  BY <1>0, <1>2, <1>4, <1>6 DEF SalariesInvariant, RowsAreTyped

\* permanentDelete deletes the record of whom its entry names.
LEMMA PurgingARecord ==
  ASSUME SalariesInvariant, NEW p \in Desks, PurgeRecord(p)
  PROVE  SalariesInvariant'
<1>0. PICK h \in DOMAIN bin :
        /\ sheet[p].op = "none"
        /\ Unrecorded(bin[h].who)
        /\ Writes(p, {bin[h].who}, [Blank EXCEPT !.op = "purge", !.amount = h])
        /\ UNCHANGED <<mirror, bin, due, split>>
  BY DEF PurgeRecord
<1> DEFINE e == bin[h].who
           next == [Blank EXCEPT !.op = "purge", !.amount = h]
<1>1. e \in Employees /\ h \in Nat
  BY BinIsTyped DEF SalariesInvariant, RowsAreTyped
<1>2. /\ next \in Sheet /\ Writes(p, {e}, next)
      /\ next.op = "purge" /\ next.who = {} /\ next.amount = h /\ next.stale = {}
  <2>1. Blank \in Sheet /\ Blank.stale = {} /\ Blank.who = {}
    BY BlankIsSheet
  <2>2. Writes(p, {e}, next)
    BY <1>0
  <2> QED
    BY <1>1, <2>1, <2>2 DEF Sheet
<1> HIDE DEF next
<1>3. \A f \in Employees \ {e} : pay'[f] = pay[f]
  BY <1>0, <1>1 DEF Unrecorded, SalariesInvariant, RowsAreTyped
<1>4. BinKeepsEntries
  BY <1>0 DEF BinKeepsEntries
<1>5. Sane(next)'
  BY <1>0, <1>2 DEF Sane
<1>6. /\ SheetsAreTyped' /\ SheetsAreSane'
      /\ \A f \in Employees : HalfSaved(f)' <=>
           \E q \in Desks \ {p} : sheet[q].op = "mirror" /\ f \in sheet[q].who
  <2>1. next.stale \subseteq next.who /\ next.op # "mirror"
    BY <1>2
  <2>2. SheetsAreTyped /\ SheetsAreSane /\ {e} \in SUBSET Employees
    BY <1>1 DEF SalariesInvariant
  <2>3. \A f \in Employees \ {e} : pay'[f] = pay[f] /\ mirror'[f] = mirror[f]
    BY <1>0, <1>3
  <2> HIDE DEF e
  <2>4. /\ SheetsAreTyped' /\ (Sane(next)' => SheetsAreSane')
        /\ \A f \in Employees : HalfSaved(f)' <=>
             \/ next.op = "mirror" /\ f \in next.who
             \/ \E q \in Desks \ {p} : sheet[q].op = "mirror" /\ f \in sheet[q].who
    BY <2>1, <2>2, <2>3, <1>2, <1>4, OthersStaySane
  <2> QED
    BY <2>1, <2>4, <1>5
<1>7. \A f \in Employees \ {e} : MirrorMayLag(f) => MirrorMayLag(f)'
  BY <1>0, <1>6 DEF MirrorMayLag, HalfSaved
<1>8. SalariesAddUp' /\ pay' \in [Employees -> Record] /\ questioned' \subseteq Employees
  BY <1>0, <1>1, <1>7, UnrecordedIsPaid
<1> QED
  BY <1>0, <1>6, <1>8 DEF SalariesInvariant, RowsAreTyped

\* restoreSalary: what the bin had is what is due, and the mirror is not told.
LEMMA ReturningASalary ==
  ASSUME SalariesInvariant, NEW p \in Desks, ReturnSalary(p)
  PROVE  SalariesInvariant'
<1> DEFINE h == sheet[p].amount
           e == bin[h].who
<1>0. /\ sheet[p].op = "return"
      /\ pay' = [pay EXCEPT ![e] = Paying(bin[h].base)]
      /\ due' = [due EXCEPT ![e] = bin[h].base]
      /\ bin' = [bin EXCEPT ![h].state = "restored"]
      /\ split' = split \cup {e}
      /\ questioned' = questioned \ {e}
      /\ Writes(p, {e}, Blank)
      /\ UNCHANGED mirror
  BY DEF ReturnSalary
<1>1. h \in DOMAIN bin /\ e \in Employees /\ bin[h].base \in Nat
  <2>1. h \in DOMAIN bin
    BY <1>0 DEF SalariesInvariant, SheetsAreSane, Sane
  <2> QED
    BY <2>1, BinIsTyped DEF SalariesInvariant, RowsAreTyped
<1> DEFINE n == bin[h].base
<1> HIDE DEF h, e, n
<1>2. bin' \in Seq(BinEntry) /\ BinKeepsEntries
  BY <1>0, <1>1, BinChanges DEF SalariesInvariant, RowsAreTyped
<1>3. /\ Paying(n) \in Record /\ Paying(n).there /\ Paying(n).base = n /\ n \in Nat
  BY <1>1, BlankIsSheet DEF n
<1>4. /\ pay' \in [Employees -> Record] /\ pay'[e] = Paying(n)
      /\ due' \in [Employees -> Nat] /\ due'[e] = n
      /\ \A f \in Employees \ {e} : pay'[f] = pay[f] /\ due'[f] = due[f]
  <2>1. pay' = [pay EXCEPT ![e] = Paying(n)] /\ due' = [due EXCEPT ![e] = n]
    BY <1>0 DEF n
  <2> QED
    BY <2>1, <1>1, <1>3 DEF SalariesInvariant, RowsAreTyped
<1>5. /\ SheetsAreTyped' /\ SheetsAreSane'
      /\ \A f \in Employees : HalfSaved(f) => HalfSaved(f)'
  BY <1>0, <1>1, <1>2, <1>4, WritingTheRest
<1>6. MirrorFollowsRecord'
  <2> SUFFICES ASSUME NEW f \in Employees, pay'[f].there, ~MirrorMayLag(f)'
               PROVE  mirror'[f] = pay'[f].base
    BY DEF MirrorFollowsRecord
  <2>1. f # e /\ ~MirrorMayLag(f)
    BY <1>0, <1>5 DEF MirrorMayLag
  <2> QED
    BY <2>1, <1>0, <1>4 DEF SalariesInvariant, SalariesAddUp, MirrorFollowsRecord
<1>7. PayIsWhatIsDue'
  BY <1>0, <1>3, <1>4 DEF SalariesInvariant, SalariesAddUp, PayIsWhatIsDue, Resolved
<1> QED
  BY <1>0, <1>1, <1>2, <1>4, <1>5, <1>6, <1>7 DEF SalariesInvariant, SalariesAddUp, RowsAreTyped

\* permanentDelete deletes the entry.
LEMMA PurgingAnEntry ==
  ASSUME SalariesInvariant, NEW p \in Desks, PurgeEntry(p)
  PROVE  SalariesInvariant'
<1>0. /\ sheet[p].op = "purge" /\ Writes(p, {}, Blank)
      /\ bin' = [bin EXCEPT ![sheet[p].amount].state = "gone"]
      /\ UNCHANGED <<pay, mirror, due, split, questioned>>
  BY DEF PurgeEntry
<1>1. sheet[p].amount \in DOMAIN bin
  BY <1>0 DEF SalariesInvariant, SheetsAreSane, Sane
<1>2. bin' \in Seq(BinEntry) /\ BinKeepsEntries
  BY <1>0, <1>1, BinChanges DEF SalariesInvariant, RowsAreTyped
<1>3. /\ SheetsAreTyped' /\ SheetsAreSane'
      /\ \A f \in Employees : HalfSaved(f) => HalfSaved(f)'
  BY <1>0, <1>2, WritingTheRest
<1>4. \A f \in Employees : MirrorMayLag(f) => MirrorMayLag(f)'
  BY <1>0, <1>3 DEF MirrorMayLag
<1>5. SalariesAddUp'
  BY <1>0, <1>4 DEF SalariesInvariant, SalariesAddUp, MirrorFollowsRecord, PayIsWhatIsDue, Resolved
<1> QED
  BY <1>0, <1>2, <1>3, <1>5 DEF SalariesInvariant, RowsAreTyped

\* bulkRaise: who was raised from a stale reading is questioned; the others get
\* the raise on what is due.
LEMMA RaisingSalaries ==
  ASSUME SalariesInvariant, NEW p \in Desks, RaiseSalaries(p)
  PROVE  SalariesInvariant'
<1> DEFINE who == sheet[p].who
           raised == Raised(p)
<1>0. /\ sheet[p].op = "raise"
      /\ \A e \in who : pay[e].there
      /\ pay' = [e \in Employees |-> IF e \in who THEN Paying(raised[e]) ELSE pay[e]]
      /\ mirror' = [e \in Employees |-> IF e \in who THEN raised[e] ELSE mirror[e]]
      /\ due' = [e \in Employees |-> IF e \in who THEN due[e] + Raise ELSE due[e]]
      /\ split' = split \ who
      /\ questioned' = questioned \cup sheet[p].stale
      /\ Writes(p, who, Blank)
      /\ UNCHANGED bin
  BY DEF RaiseSalaries
<1>1. /\ who \subseteq Employees /\ sheet[p].stale \subseteq who
      /\ \A e \in who : sheet[p].read[e] \in Record
      /\ \A e \in who \ sheet[p].stale : pay[e] = sheet[p].read[e]
  BY <1>0 DEF SalariesInvariant, SheetsAreTyped, SheetsAreSane, Sane, Sheet
<1>2. \A e \in who : raised[e] \in Nat /\ raised[e] = sheet[p].read[e].base + Raise
  BY <1>1, AmountsAssumption DEF Raised, Record
<1> HIDE DEF who, raised
<1>3. /\ pay' \in [Employees -> Record] /\ mirror' \in [Employees -> Nat]
      /\ due' \in [Employees -> Nat]
  BY <1>0, <1>2, AmountsAssumption, BlankIsSheet DEF SalariesInvariant, RowsAreTyped
<1>4. /\ SheetsAreTyped' /\ SheetsAreSane'
      /\ \A f \in Employees : HalfSaved(f) => HalfSaved(f)'
  <2>1. BinKeepsEntries
    BY <1>0 DEF BinKeepsEntries
  <2> QED
    BY <1>0, <1>1, <2>1, WritingTheRest
<1>5. MirrorFollowsRecord'
  <2> SUFFICES ASSUME NEW f \in Employees, pay'[f].there, ~MirrorMayLag(f)'
               PROVE  mirror'[f] = pay'[f].base
    BY DEF MirrorFollowsRecord
  <2>1. CASE f \in who
    BY <2>1, <1>0, <1>2, BlankIsSheet
  <2>2. CASE f \notin who
    <3>1. ~MirrorMayLag(f)
      BY <2>2, <1>0, <1>4 DEF MirrorMayLag
    <3> QED
      BY <2>2, <3>1, <1>0 DEF SalariesInvariant, SalariesAddUp, MirrorFollowsRecord
  <2> QED
    BY <2>1, <2>2
<1>6. PayIsWhatIsDue'
  <2> SUFFICES ASSUME NEW f \in Employees, f \notin questioned'
               PROVE  Resolved(f)' = due'[f]
    BY DEF PayIsWhatIsDue
  <2>0. f \notin sheet[p].stale /\ Resolved(f) = due[f]
    BY <1>0 DEF SalariesInvariant, SalariesAddUp, PayIsWhatIsDue
  <2>1. CASE f \in who
    <3>1. raised[f] = pay[f].base + Raise /\ raised[f] \in Nat /\ pay[f].there
      BY <2>0, <2>1, <1>0, <1>1, <1>2
    <3>2. pay'[f].there /\ pay'[f].base = raised[f]
      BY <2>1, <3>1, <1>0, BlankIsSheet
    <3> QED
      BY <2>0, <2>1, <3>1, <3>2, <1>0 DEF Resolved
  <2>2. CASE f \notin who
    BY <2>0, <2>2, <1>0 DEF Resolved
  <2> QED
    BY <2>1, <2>2
<1>7. RowsAreTyped'
  BY <1>0, <1>1, <1>3 DEF SalariesInvariant, RowsAreTyped
<1> QED
  BY <1>4, <1>5, <1>6, <1>7 DEF SalariesInvariant, SalariesAddUp

\* The salary increase among the bonuses, in the mirror alone.
LEMMA IncreasingASalary ==
  ASSUME SalariesInvariant, NEW p \in Desks, IncreaseSalary(p)
  PROVE  SalariesInvariant'
<1>0. PICK e \in Employees :
        /\ sheet[p].op = "none"
        /\ mirror' = [mirror EXCEPT ![e] = @ + Raise]
        /\ due' = [due EXCEPT ![e] = @ + Raise]
        /\ split' = (IF pay[e].there THEN split \cup {e} ELSE split)
        /\ questioned' = (IF pay[e].there THEN questioned \cup {e} ELSE questioned)
        /\ Writes(p, {e}, Blank)
        /\ UNCHANGED <<pay, bin>>
  BY DEF IncreaseSalary
<1>1. /\ mirror' \in [Employees -> Nat] /\ mirror'[e] = mirror[e] + Raise
      /\ due' \in [Employees -> Nat] /\ due'[e] = due[e] + Raise
      /\ \A f \in Employees \ {e} : mirror'[f] = mirror[f] /\ due'[f] = due[f]
  BY <1>0, AmountsAssumption DEF SalariesInvariant, RowsAreTyped
<1>2. /\ SheetsAreTyped' /\ SheetsAreSane'
      /\ \A f \in Employees : HalfSaved(f) => HalfSaved(f)'
  <2>1. BinKeepsEntries
    BY <1>0 DEF BinKeepsEntries
  <2> QED
    BY <1>0, <1>1, <2>1, WritingTheRest
<1>3. \A f \in Employees : MirrorMayLag(f) => MirrorMayLag(f)'
  BY <1>0, <1>2 DEF MirrorMayLag
<1>4. pay[e].there => MirrorMayLag(e)'
  BY <1>0 DEF MirrorMayLag
<1>5. MirrorFollowsRecord'
  BY <1>0, <1>1, <1>3, <1>4 DEF SalariesInvariant, SalariesAddUp, MirrorFollowsRecord
<1>6. PayIsWhatIsDue'
  BY <1>0, <1>1 DEF SalariesInvariant, SalariesAddUp, PayIsWhatIsDue, Resolved
<1>7. RowsAreTyped'
  BY <1>0, <1>1 DEF SalariesInvariant, RowsAreTyped
<1> QED
  BY <1>2, <1>5, <1>6, <1>7 DEF SalariesInvariant, SalariesAddUp

\* update: record and mirror get one salary, the entered one or the one that was
\* read; from a stale reading the employee is questioned.
LEMMA ChangingAnEmployee ==
  ASSUME SalariesInvariant, NEW p \in Desks, ChangeEmployee(p)
  PROVE  SalariesInvariant'
<1>0. PICK e \in sheet[p].who :
        /\ sheet[p].op = "change"
        /\ pay' = [pay EXCEPT ![e] = Paying(Entered(p, e))]
        /\ mirror' = [mirror EXCEPT ![e] = Entered(p, e)]
        /\ due' = (IF sheet[p].amount # Unchanged THEN [due EXCEPT ![e] = sheet[p].amount] ELSE due)
        /\ split' = split \ {e}
        /\ questioned' = (IF sheet[p].amount # Unchanged THEN questioned \ {e}
                                                         ELSE questioned \cup sheet[p].stale)
        /\ Writes(p, {e}, Blank)
        /\ UNCHANGED bin
  BY DEF ChangeEmployee
<1> DEFINE n == Entered(p, e)
           a == sheet[p].amount
           read == sheet[p].read
<1>1. /\ e \in Employees /\ a \in Nat /\ sheet[p].stale \subseteq Employees
      /\ read.record \in Record /\ read.column \in Nat
      /\ e \notin sheet[p].stale => pay[e] = read.record /\ mirror[e] = read.column
  <2>1. sheet[p] \in Sheet /\ Sane(sheet[p])
    BY DEF SalariesInvariant, SheetsAreTyped, SheetsAreSane
  <2>2. read \in [record : Record, column : Nat]
    BY <2>1, <1>0 DEF Sane
  <2> QED
    BY <2>1, <2>2, <1>0 DEF Sane, Sheet
<1>2. /\ n \in Nat
      /\ a # Unchanged => n = a
      /\ a = Unchanged => n = IF read.record.there THEN read.record.base ELSE read.column
  BY <1>1 DEF Entered, Record
<1> HIDE DEF n
<1>3. Paying(n) \in Record /\ Paying(n).there /\ Paying(n).base = n
  BY <1>2, BlankIsSheet
<1>4. /\ pay' \in [Employees -> Record] /\ pay'[e] = Paying(n)
      /\ mirror' \in [Employees -> Nat] /\ mirror'[e] = n
      /\ due' \in [Employees -> Nat]
      /\ \A f \in Employees \ {e} : pay'[f] = pay[f] /\ mirror'[f] = mirror[f] /\ due'[f] = due[f]
  <2>1. pay' = [pay EXCEPT ![e] = Paying(n)] /\ mirror' = [mirror EXCEPT ![e] = n]
    BY <1>0 DEF n
  <2> QED
    BY <2>1, <1>0, <1>1, <1>2, <1>3 DEF SalariesInvariant, RowsAreTyped
<1>5. /\ SheetsAreTyped' /\ SheetsAreSane'
      /\ \A f \in Employees : HalfSaved(f) => HalfSaved(f)'
  <2>1. BinKeepsEntries
    BY <1>0 DEF BinKeepsEntries
  <2> QED
    BY <1>0, <1>1, <1>4, <2>1, WritingTheRest
<1>6. MirrorFollowsRecord'
  <2> SUFFICES ASSUME NEW f \in Employees, pay'[f].there, ~MirrorMayLag(f)'
               PROVE  mirror'[f] = pay'[f].base
    BY DEF MirrorFollowsRecord
  <2>1. CASE f = e
    BY <2>1, <1>3, <1>4
  <2>2. CASE f # e
    <3>1. ~MirrorMayLag(f)
      BY <2>2, <1>0, <1>5 DEF MirrorMayLag
    <3> QED
      BY <2>2, <3>1, <1>4 DEF SalariesInvariant, SalariesAddUp, MirrorFollowsRecord
  <2> QED
    BY <2>1, <2>2
<1>7. PayIsWhatIsDue'
  <2> SUFFICES ASSUME NEW f \in Employees, f \notin questioned'
               PROVE  Resolved(f)' = due'[f]
    BY DEF PayIsWhatIsDue
  <2>1. CASE f = e /\ a # Unchanged
    <3>1. due'[e] = a
      BY <2>1, <1>0, <1>1 DEF SalariesInvariant, RowsAreTyped
    <3> QED
      BY <2>1, <3>1, <1>2, <1>3, <1>4 DEF Resolved
  <2>2. CASE f = e /\ a = Unchanged
    <3>1. e \notin questioned /\ e \notin sheet[p].stale /\ due' = due
      BY <2>2, <1>0
    <3>2. Resolved(e) = due[e]
      BY <3>1, <1>1 DEF SalariesInvariant, SalariesAddUp, PayIsWhatIsDue
    <3>3. n = Resolved(e)
      BY <2>2, <3>1, <1>1, <1>2 DEF Resolved
    <3> QED
      BY <2>2, <3>1, <3>2, <3>3, <1>3, <1>4 DEF Resolved
  <2>3. CASE f # e
    BY <2>3, <1>0, <1>4 DEF SalariesInvariant, SalariesAddUp, PayIsWhatIsDue, Resolved
  <2> QED
    BY <2>1, <2>2, <2>3
<1>8. RowsAreTyped'
  BY <1>0, <1>1, <1>4 DEF SalariesInvariant, RowsAreTyped
<1> QED
  BY <1>5, <1>6, <1>7, <1>8 DEF SalariesInvariant, SalariesAddUp

\* A handler that fails between the record and the mirror leaves them split.
LEMMA AbandoningASalary ==
  ASSUME SalariesInvariant, NEW p \in Desks, AbandonSalary(p)
  PROVE  SalariesInvariant'
<1>0. /\ split' = (IF sheet[p].op = "mirror" THEN split \cup sheet[p].who ELSE split)
      /\ Writes(p, {}, Blank)
      /\ UNCHANGED <<pay, mirror, bin, due, questioned>>
      /\ sheet[p].who \subseteq Employees
  BY DEF AbandonSalary, SalariesInvariant, SheetsAreTyped, Sheet
<1>1. BinKeepsEntries
  BY <1>0 DEF BinKeepsEntries
<1>2. /\ SheetsAreTyped' /\ SheetsAreSane'
      /\ \A f \in Employees : HalfSaved(f) =>
           HalfSaved(f)' \/ (sheet[p].op = "mirror" /\ f \in sheet[p].who)
  BY <1>0, <1>1, WritingTheRest
<1>3. \A f \in Employees : MirrorMayLag(f) => MirrorMayLag(f)'
  BY <1>0, <1>2 DEF MirrorMayLag
<1>4. SalariesAddUp'
  BY <1>0, <1>3 DEF SalariesInvariant, SalariesAddUp, MirrorFollowsRecord, PayIsWhatIsDue, Resolved
<1>5. RowsAreTyped'
  BY <1>0 DEF SalariesInvariant, RowsAreTyped
<1> QED
  BY <1>2, <1>4, <1>5 DEF SalariesInvariant

-----------------------------------------------------------------------------
(* The theorems *)

\* Everybody starts with a record and a mirror of it.
LEMMA SalariesStart == SalariesInit => SalariesInvariant
<1> SUFFICES ASSUME SalariesInit PROVE SalariesInvariant
  OBVIOUS
<1>1. PICK start \in [Employees -> Amounts] :
        /\ pay = [e \in Employees |-> Paying(start[e])]
        /\ mirror = start /\ due = start /\ bin = << >>
        /\ sheet = [p \in Desks |-> Blank] /\ split = {} /\ questioned = {}
  BY DEF SalariesInit
<1>2. /\ \A e \in Employees : start[e] \in Nat
      /\ \A e \in Employees : pay[e] \in Record /\ pay[e].there /\ pay[e].base = start[e]
  BY <1>1, AmountsAssumption, BlankIsSheet
<1>3. RowsAreTyped
  BY <1>1, <1>2 DEF RowsAreTyped
<1>4. SheetsAreTyped /\ SheetsAreSane
  BY <1>1, BlankIsSheet DEF SheetsAreTyped, SheetsAreSane, Sane
<1>5. SalariesAddUp
  BY <1>1, <1>2 DEF SalariesAddUp, MirrorFollowsRecord, PayIsWhatIsDue, Resolved
<1> QED
  BY <1>3, <1>4, <1>5 DEF SalariesInvariant

\* Every step keeps the invariant.
LEMMA StepsKeepTheInvariant ==
  SalariesInvariant /\ [SalariesNext]_salaryVars => SalariesInvariant'
<1> SUFFICES ASSUME SalariesInvariant, [SalariesNext]_salaryVars PROVE SalariesInvariant'
  OBVIOUS
<1>1. CASE UNCHANGED salaryVars
  BY <1>1 DEF salaryVars, SalariesInvariant, RowsAreTyped, SheetsAreTyped, SheetsAreSane, Sane,
     SalariesAddUp, MirrorFollowsRecord, PayIsWhatIsDue, Resolved, MirrorMayLag, HalfSaved
<1>2. ASSUME NEW p \in Desks, StartSalary(p) PROVE SalariesInvariant'
  BY <1>2, ReadingKeepsTheInvariant, SavingASalary, PurgingARecord, IncreasingASalary DEF StartSalary
<1>3. ASSUME NEW p \in Desks, ContinueSalary(p) PROVE SalariesInvariant'
  BY <1>3, SavingAMirror, BinningASalary, ReturningASalary, PurgingAnEntry, RaisingSalaries,
     ChangingAnEmployee, AbandoningASalary DEF ContinueSalary
<1> QED
  BY <1>1, <1>2, <1>3 DEF SalariesNext

\* The inductive invariant.
THEOREM SalariesAreSound == SalariesSpec => []SalariesInvariant
BY SalariesStart, StepsKeepTheInvariant, PTL DEF SalariesSpec

\* The mirror follows the record, and payroll pays what was last entered with
\* the raises since, whatever upserts, raises, edits, deletions and
\* restorations overlap or stop half way; with the exceptions the property names.
THEOREM SalariesAlwaysAddUp == SalariesSpec => []SalariesAddUp
<1>1. SalariesInvariant => SalariesAddUp
  BY DEF SalariesInvariant
<1> QED
  BY <1>1, SalariesAreSound, PTL

-----------------------------------------------------------------------------
(* Employment *)

StaffMonths == 0 .. LastMonth

EmployeeRow == [active : BOOLEAN, completed : BOOLEAN, settled : BOOLEAN, left : StaffMonths]
BusRow == [there : BOOLEAN, active : BOOLEAN, capacity : Nat]
SeatRow == [state : {"none", "active", "inactive"}, ended : StaffMonths]
Archived == [who : Employees, open : BOOLEAN]

Errand ==
  [op : {"none", "terminate", "bulk", "archive", "settle", "rehire", "reinstate", "seat", "unseat"},
   who : SUBSET Employees, on : SUBSET Buses, size : Nat, riders : Nat,
   marks : SUBSET {"status", "settled", "paid", "seat", "capacity", "approved"}]

\* Types.
StaffIsTyped ==
  /\ employee \in [Employees -> EmployeeRow]
  /\ paidOut \in [Employees -> Nat]
  /\ archive \in Seq(Archived)
  /\ office \in [Desks -> Errand]

BusesAreTyped ==
  /\ bus \in [Buses -> BusRow]
  /\ seat \in [Buses -> [Employees -> SeatRow]]
  /\ month \in 1 .. LastMonth
  /\ approved \in BOOLEAN

\* Who is employed has not left, and nobody leaves, nor a seat ends, in months to come.
DatesArePast ==
  /\ \A e \in Employees : /\ employee[e].left <= month
                          /\ Active(e) <=> employee[e].left = Never
  /\ \A b \in Buses, e \in Employees : seat[b][e].ended <= month

\* Nobody is paid out while employed.
EmployedAreNotPaidOut == \A e \in Employees \ irregular : Active(e) => paidOut[e] = 0

\* What request r has read of an employee is so, or others have marked it.
StaffErrandIsSane(r) ==
  /\ r.op = "archive" => r.size <= month
  /\ r.op = "archive" /\ "status" \notin r.marks => \A e \in r.who : r.size = employee[e].left
  /\ r.op = "settle" /\ r.marks \cap {"status", "paid"} = {} =>
       \A e \in r.who : ~Active(e) /\ ~employee[e].completed
  /\ r.op = "reinstate" => r.size \in DOMAIN archive

\* And what it has read of a bus and the month.
BusErrandIsSane(r) ==
  /\ r.op \in {"seat", "unseat"} =>
       r.who # {} /\ r.on # {} /\ ("approved" \notin r.marks => ~approved)
  /\ r.op = "seat" =>
       /\ "seat" \notin r.marks =>
            \A e \in r.who, b \in r.on : \A c \in Buses \ {b} : e \notin Riders(c)
       /\ "capacity" \notin r.marks =>
            \A b \in r.on : bus[b].there => r.size = bus[b].capacity

ErrandsAreSane ==
  \A p \in Desks : StaffErrandIsSane(office[p]) /\ BusErrandIsSane(office[p])

\* A leaver's seat has ended in the month in which he left, or before.
SeatsEndWithEmployment ==
  \A e \in Employees \ (swept \cup irregular), b \in Buses :
    ~Active(e) /\ seat[b][e].ended = month => employee[e].left = month

OneBusEach ==
  \A e \in Employees \ seatedTwice, b, c \in Buses : e \in Riders(b) /\ e \in Riders(c) => b = c

\* The inductive invariant: about the staff...
StaffInvariant ==
  /\ StaffIsTyped /\ EmployedAreNotPaidOut /\ SettledOnce /\ LeaversArePaid

\* ...the buses...
BusInvariant ==
  /\ BusesAreTyped /\ SeatsWithinCapacity /\ OneBusEach /\ ApprovedSeatsStay

\* ...and both.
EmploymentInvariant ==
  /\ StaffInvariant /\ BusInvariant
  /\ DatesArePast /\ SeatsEndWithEmployment /\ ErrandsAreSane

-----------------------------------------------------------------------------
(* Errands *)

\* No errand is one, it names nobody, and nothing it says could be wrong.
LEMMA NobodyIsAsked ==
  /\ Unoccupied \in Errand /\ Unoccupied.op = "none" /\ Unoccupied.who = {}
  /\ StaffErrandIsSane(Unoccupied)' /\ BusErrandIsSane(Unoccupied)'
BY DEF Unoccupied, Errand, StaffErrandIsSane, BusErrandIsSane

\* One place of a table is written, and nothing else.
LEMMA OneCellIsWritten ==
  ASSUME NEW A, NEW B, NEW C, NEW f \in [A -> [B -> C]], NEW a \in A, NEW b \in B, NEW c \in C,
         NEW g, g = [f EXCEPT ![a] = [f[a] EXCEPT ![b] = c]]
  PROVE  /\ g \in [A -> [B -> C]]
         /\ g[a][b] = c
         /\ \A x \in A, y \in B : x # a \/ y # b => g[x][y] = f[x][y]
OBVIOUS

\* Request q has what it had, and a mark if it concerns E and B.
Carried(q, mark, E, B) ==
  /\ office'[q].op = office[q].op /\ office'[q].who = office[q].who
  /\ office'[q].on = office[q].on /\ office'[q].size = office[q].size
  /\ office[q].marks \subseteq office'[q].marks
  /\ office[q].who \cap E # {} /\ (office[q].on = {} \/ office[q].on \cap B # {}) =>
       mark \in office'[q].marks

MarkNames == {"status", "settled", "paid", "seat", "capacity", "approved"}

\* A marked errand is one.
LEMMA MarkedIsErrand ==
  ASSUME NEW r \in Errand, NEW mark \in MarkNames
  PROVE  LET t == [r EXCEPT !.marks = r.marks \cup {mark}]
         IN  /\ t \in Errand /\ t.marks = r.marks \cup {mark}
             /\ t.op = r.op /\ t.who = r.who /\ t.on = r.on /\ t.size = r.size
BY DEF Errand, MarkNames

\* What Marks does to the errands.
LEMMA MarkingErrands ==
  ASSUME office \in [Desks -> Errand], NEW p \in Desks, NEW mark \in MarkNames,
         NEW E, NEW B, office' = Marks(p, mark, E, B)
  PROVE  /\ office' \in [Desks -> Errand]
         /\ office'[p] = Unoccupied
         /\ \A q \in Desks \ {p} : Carried(q, mark, E, B)
<1>1. office'[p] = Unoccupied
  BY DEF Marks
<1>2. ASSUME NEW q \in Desks \ {p}
      PROVE  office'[q] \in Errand /\ Carried(q, mark, E, B)
  <2> DEFINE t == [office[q] EXCEPT !.marks = office[q].marks \cup {mark}]
             hit == office[q].who \cap E # {} /\ (office[q].on = {} \/ office[q].on \cap B # {})
  <2>1. office[q] \in Errand
    OBVIOUS
  <2>2. /\ t \in Errand /\ t.marks = office[q].marks \cup {mark}
        /\ t.op = office[q].op /\ t.who = office[q].who /\ t.on = office[q].on
        /\ t.size = office[q].size
    BY <2>1, MarkedIsErrand
  <2>3. office'[q] = IF hit THEN t ELSE office[q]
    BY DEF Marks
  <2> HIDE DEF t
  <2>4. office'[q] \in Errand
    BY <2>1, <2>2, <2>3
  <2>5. Carried(q, mark, E, B)
    BY <2>2, <2>3 DEF Carried
  <2> QED
    BY <2>4, <2>5
<1>3. office' \in [Desks -> Errand]
  <2>1. \A q \in Desks : office'[q] \in Errand
    BY <1>1, <1>2, NobodyIsAsked
  <2> QED
    BY <2>1 DEF Marks
<1> QED
  BY <1>1, <1>2, <1>3

\* What others have been told of the employees that change: their employment, or
\* that they have been paid out.
StaffChange(mark, E, B) ==
  \A f \in Employees :
    \/ /\ employee'[f].active = employee[f].active /\ employee'[f].left = employee[f].left
       /\ employee'[f].completed = employee[f].completed
    \/ mark = "status" /\ f \in E /\ B = Buses
    \/ mark = "paid" /\ f \in E /\ B = Buses /\ employee'[f].left = employee[f].left

\* And of the buses, the seats and the month.
BusChange(mark, E, B) ==
  /\ approved' => approved \/ (mark = "approved" /\ E = Employees /\ B = Buses)
  /\ \A b \in Buses :
       \/ bus'[b] = bus[b]
       \/ ~bus'[b].there
       \/ mark = "capacity" /\ E = Employees /\ b \in B
  /\ \A b \in Buses, f \in Employees :
       f \in Riders(b)' => f \in Riders(b) \/ (mark = "seat" /\ f \in E /\ B = Buses)

\* What a request about employees has read still holds, or the request is marked.
LEMMA StaffErrandStaysSane ==
  ASSUME NEW q \in Desks, office[q] \in Errand, StaffErrandIsSane(office[q]),
         NEW mark, NEW E, NEW B, Carried(q, mark, E, B), StaffChange(mark, E, B),
         month \in Nat, month' \in Nat, month <= month', DOMAIN archive \subseteq DOMAIN archive'
  PROVE  StaffErrandIsSane(office[q])'
<1> DEFINE r == office[q]
           t == office'[q]
<1>1. /\ r.who \subseteq Employees /\ r.on \subseteq Buses /\ r.size \in Nat
      /\ t.op = r.op /\ t.who = r.who /\ t.size = r.size /\ r.marks \subseteq t.marks
  BY DEF Errand, Carried
<1>2. \A f \in r.who : f \in E /\ B = Buses => mark \in t.marks
  BY <1>1 DEF Carried
<1>3. /\ r.op = "archive" => r.size <= month
      /\ r.op = "archive" /\ "status" \notin r.marks => \A e \in r.who : r.size = employee[e].left
      /\ r.op = "settle" /\ r.marks \cap {"status", "paid"} = {} =>
           \A e \in r.who : ~employee[e].active /\ ~employee[e].completed
      /\ r.op = "reinstate" => r.size \in DOMAIN archive
  BY DEF StaffErrandIsSane, Active
<1> HIDE DEF r, t
<1>4. t.op = "archive" => t.size <= month'
  BY <1>1, <1>3
<1>5. ASSUME t.op = "archive", "status" \notin t.marks, NEW e \in t.who
      PROVE  t.size = employee'[e].left
  <2>1. e \in Employees /\ "status" \notin r.marks /\ ~(mark = "status" /\ e \in E /\ B = Buses)
    BY <1>1, <1>2, <1>5
  <2>2. employee'[e].left = employee[e].left
    BY <2>1 DEF StaffChange
  <2> QED
    BY <1>1, <1>3, <1>5, <2>1, <2>2
<1>6. ASSUME t.op = "settle", t.marks \cap {"status", "paid"} = {}, NEW e \in t.who
      PROVE  ~employee'[e].active /\ ~employee'[e].completed
  <2>1. /\ e \in Employees /\ r.marks \cap {"status", "paid"} = {}
        /\ ~(mark \in {"status", "paid"} /\ e \in E /\ B = Buses)
    BY <1>1, <1>2, <1>6
  <2>2. employee'[e].active = employee[e].active /\ employee'[e].completed = employee[e].completed
    BY <2>1 DEF StaffChange
  <2> QED
    BY <1>1, <1>3, <1>6, <2>1, <2>2
<1>7. t.op = "reinstate" => t.size \in DOMAIN archive'
  BY <1>1, <1>3
<1> QED
  BY <1>4, <1>5, <1>6, <1>7 DEF StaffErrandIsSane, Active, t

\* ...and what a request about buses has read.
LEMMA BusErrandStaysSane ==
  ASSUME NEW q \in Desks, office[q] \in Errand, BusErrandIsSane(office[q]),
         NEW mark, NEW E, NEW B, Carried(q, mark, E, B), BusChange(mark, E, B)
  PROVE  BusErrandIsSane(office[q])'
<1> DEFINE r == office[q]
           t == office'[q]
<1>1. /\ r.who \subseteq Employees /\ r.on \subseteq Buses
      /\ t.op = r.op /\ t.who = r.who /\ t.on = r.on /\ t.size = r.size /\ r.marks \subseteq t.marks
  BY DEF Errand, Carried
<1>2. r.who \cap E # {} /\ (r.on = {} \/ r.on \cap B # {}) => mark \in t.marks
  BY DEF Carried
<1>3. /\ r.op \in {"seat", "unseat"} =>
           r.who # {} /\ r.on # {} /\ ("approved" \notin r.marks => ~approved)
      /\ r.op = "seat" /\ "seat" \notin r.marks =>
           \A e \in r.who, b \in r.on : \A c \in Buses \ {b} : e \notin Riders(c)
      /\ r.op = "seat" /\ "capacity" \notin r.marks =>
           \A b \in r.on : bus[b].there => r.size = bus[b].capacity
  BY DEF BusErrandIsSane
<1> HIDE DEF r, t
<1>4. t.op \in {"seat", "unseat"} =>
        t.who # {} /\ t.on # {} /\ ("approved" \notin t.marks => ~approved')
  BY <1>1, <1>2, <1>3 DEF BusChange
<1>5. ASSUME t.op = "seat", "seat" \notin t.marks, NEW e \in t.who, NEW b \in t.on,
             NEW c \in Buses \ {b}
      PROVE  e \notin Riders(c)'
  <2>1. e \in Employees /\ "seat" \notin r.marks /\ ~(mark = "seat" /\ e \in E /\ B = Buses)
    BY <1>1, <1>2, <1>5
  <2>2. e \notin Riders(c)
    BY <1>1, <1>3, <1>5, <2>1
  <2> QED
    BY <2>1, <2>2 DEF BusChange
<1>6. ASSUME t.op = "seat", "capacity" \notin t.marks, NEW b \in t.on, bus'[b].there
      PROVE  t.size = bus'[b].capacity
  <2>1. b \in Buses /\ "capacity" \notin r.marks /\ r.who # {}
    BY <1>1, <1>3, <1>6
  <2>2. ~(mark = "capacity" /\ E = Employees /\ b \in B)
    BY <1>1, <1>2, <1>6, <2>1
  <2>3. bus'[b] = bus[b]
    BY <1>6, <2>1, <2>2 DEF BusChange
  <2> QED
    BY <1>1, <1>3, <1>6, <2>1, <2>3
<1> QED
  BY <1>4, <1>5, <1>6 DEF BusErrandIsSane, t

\* All errands stay sane, if p's does.
LEMMA ErrandsStaySane ==
  ASSUME StaffIsTyped, BusesAreTyped, ErrandsAreSane, NEW mark, NEW E, NEW B,
         \A q \in Desks : \/ Carried(q, mark, E, B)
                          \/ StaffErrandIsSane(office[q])' /\ BusErrandIsSane(office[q])',
         StaffChange(mark, E, B), BusChange(mark, E, B),
         month' \in Nat, month <= month', DOMAIN archive \subseteq DOMAIN archive'
  PROVE  ErrandsAreSane'
<1>1. month \in Nat /\ \A q \in Desks : office[q] \in Errand
  BY EmploymentAssumption DEF StaffIsTyped, BusesAreTyped
<1>2. ASSUME NEW q \in Desks
      PROVE  StaffErrandIsSane(office[q])' /\ BusErrandIsSane(office[q])'
  BY <1>1, StaffErrandStaysSane, BusErrandStaysSane DEF ErrandsAreSane
<1> QED
  BY <1>2 DEF ErrandsAreSane

-----------------------------------------------------------------------------
(* What stays as it is *)

\* Steps that leave the staff leave what is said of it...
LEMMA StaffStays ==
  ASSUME StaffInvariant, office' \in [Desks -> Errand],
         UNCHANGED <<employee, archive, paidOut, closed, irregular>>
  PROVE  StaffInvariant'
BY DEF StaffInvariant, StaffIsTyped, EmployedAreNotPaidOut, SettledOnce, LeaversArePaid, OnPayroll,
       Active

\* ...as those that leave the buses do...
LEMMA BusesStay ==
  ASSUME BusInvariant,
         UNCHANGED <<bus, seat, month, approved, sealed, seatedTwice, squeezed, excused>>
  PROVE  BusInvariant'
BY DEF BusInvariant, BusesAreTyped, SeatsWithinCapacity, OneBusEach, ApprovedSeatsStay,
       Subscriptions, Riders

\* ...and those that leave both, of their dates.
LEMMA DatesStay ==
  ASSUME DatesArePast, SeatsEndWithEmployment,
         UNCHANGED <<employee, seat, month, swept, irregular>>
  PROVE  DatesArePast' /\ SeatsEndWithEmployment'
BY DEF DatesArePast, SeatsEndWithEmployment, Active

\* A step that leaves the employees changes none of them...
LEMMA StaffDoesNotChange ==
  ASSUME NEW mark, NEW E, NEW B, UNCHANGED employee
  PROVE  StaffChange(mark, E, B)
BY DEF StaffChange

\* ...nor does one that leaves buses and seats.
LEMMA BusesDoNotChange ==
  ASSUME NEW mark, NEW E, NEW B, UNCHANGED <<approved, bus, seat>>
  PROVE  BusChange(mark, E, B)
BY DEF BusChange, Riders

\* Whoever only asks, or gives up, leaves everything else.
LEMMA AskingKeeps ==
  ASSUME EmploymentInvariant, NEW p \in Desks, NEW next \in Errand,
         office' = [office EXCEPT ![p] = next],
         StaffErrandIsSane(next), BusErrandIsSane(next),
         UNCHANGED <<employee, archive, bus, seat, month, approved, paidOut, closed, sealed,
                     irregular, seatedTwice, squeezed, swept, excused>>
  PROVE  EmploymentInvariant'
<1>1. /\ office' \in [Desks -> Errand] /\ office'[p] = next
      /\ \A q \in Desks \ {p} : office'[q] = office[q]
  BY DEF EmploymentInvariant, StaffInvariant, StaffIsTyped
<1>2. StaffErrandIsSane(next)' /\ BusErrandIsSane(next)'
  BY DEF StaffErrandIsSane, BusErrandIsSane, Active, Riders
<1>3. ASSUME NEW q \in Desks
      PROVE  StaffErrandIsSane(office[q])' /\ BusErrandIsSane(office[q])'
  <2>1. CASE q = p
    <3>1. office'[q] = next
      BY <1>1, <2>1
    <3>2. StaffErrandIsSane(office[q])'
      BY <1>2, <3>1 DEF StaffErrandIsSane, Active
    <3> QED
      BY <1>2, <3>1, <3>2 DEF BusErrandIsSane, Riders
  <2>2. CASE q # p
    <3>1. office'[q] = office[q] /\ StaffErrandIsSane(office[q]) /\ BusErrandIsSane(office[q])
      BY <1>1, <2>2 DEF EmploymentInvariant, ErrandsAreSane
    <3>2. StaffErrandIsSane(office[q])'
      BY <3>1 DEF StaffErrandIsSane, Active
    <3> QED
      BY <3>1, <3>2 DEF BusErrandIsSane, Riders
  <2> QED
    BY <2>1, <2>2
<1> QED
  BY <1>1, <1>3, StaffStays, BusesStay, DatesStay DEF EmploymentInvariant, ErrandsAreSane

-----------------------------------------------------------------------------
(* Requests that read, and those that are given up *)

\* A request about employees reads.
LEMMA ReadingAboutStaffKeeps ==
  ASSUME EmploymentInvariant, NEW p \in Desks,
         \/ ReadForTermination(p) \/ ReadForDepartment(p) \/ ReadForArchive(p)
         \/ ReadForSettlement(p) \/ ReadForRehire(p) \/ ReadForReinstatement(p)
  PROVE  EmploymentInvariant'
<1>0. /\ employee \in [Employees -> EmployeeRow] /\ archive \in Seq(Archived) /\ month \in Nat
      /\ \A e \in Employees : employee[e].left \in Nat /\ employee[e].left <= month
  BY EmploymentAssumption DEF EmploymentInvariant, StaffInvariant, StaffIsTyped, BusInvariant,
     BusesAreTyped, DatesArePast, EmployeeRow, StaffMonths
<1>1. ASSUME NEW next \in Errand, Asking(p, next), OnlyAsked,
             next.op \in {"terminate", "bulk", "archive", "settle", "rehire", "reinstate"},
             next.op = "archive" =>
               next.size <= month /\ \A e \in next.who : next.size = employee[e].left,
             next.op = "settle" => \A e \in next.who : ~Active(e) /\ ~employee[e].completed,
             next.op = "reinstate" => next.size \in DOMAIN archive
      PROVE  EmploymentInvariant'
  <2>1. StaffErrandIsSane(next) /\ BusErrandIsSane(next)
    BY <1>1 DEF StaffErrandIsSane, BusErrandIsSane
  <2> QED
    BY <1>1, <2>1, AskingKeeps DEF OnlyAsked, Asking
<1>2. ASSUME ReadForTermination(p) PROVE EmploymentInvariant'
  <2>1. PICK e \in Employees :
          /\ Asking(p, [Unoccupied EXCEPT !.op = "terminate", !.who = {e}])
          /\ OnlyAsked
    BY <1>2 DEF ReadForTermination
  <2> DEFINE next == [Unoccupied EXCEPT !.op = "terminate", !.who = {e}]
  <2>2. next \in Errand /\ next.op = "terminate" /\ next.who = {e}
    BY NobodyIsAsked DEF Errand
  <2>3. Asking(p, next)
    BY <2>1
  <2> HIDE DEF next
  <2> QED
    BY <1>0, <1>1, <2>1, <2>2, <2>3
<1>3. ASSUME ReadForDepartment(p) PROVE EmploymentInvariant'
  <2>1. /\ Asking(p, [Unoccupied EXCEPT !.op = "bulk", !.who = {e \in Employees : Active(e)}])
        /\ OnlyAsked
    BY <1>3 DEF ReadForDepartment
  <2> DEFINE next == [Unoccupied EXCEPT !.op = "bulk", !.who = {e \in Employees : Active(e)}]
  <2>2. next \in Errand /\ next.op = "bulk" /\ next.who = {e \in Employees : Active(e)}
    BY NobodyIsAsked DEF Errand
  <2>3. Asking(p, next)
    BY <2>1
  <2> HIDE DEF next
  <2> QED
    BY <1>0, <1>1, <2>1, <2>2, <2>3
<1>4. ASSUME ReadForArchive(p) PROVE EmploymentInvariant'
  <2>1. PICK e \in Employees :
          /\ Asking(p, [Unoccupied EXCEPT !.op = "archive", !.who = {e}, !.size = employee[e].left])
          /\ OnlyAsked
    BY <1>4 DEF ReadForArchive
  <2> DEFINE next == [Unoccupied EXCEPT !.op = "archive", !.who = {e}, !.size = employee[e].left]
  <2>2. next \in Errand /\ next.op = "archive" /\ next.who = {e} /\ next.size = employee[e].left
    BY <1>0, NobodyIsAsked DEF Errand
  <2>3. Asking(p, next)
    BY <2>1
  <2> HIDE DEF next
  <2> QED
    BY <1>0, <1>1, <2>1, <2>2, <2>3
<1>5. ASSUME ReadForSettlement(p) PROVE EmploymentInvariant'
  <2>1. PICK e \in Employees :
          /\ MayBeSettled(e)
          /\ Asking(p, [Unoccupied EXCEPT !.op = "settle", !.who = {e}])
          /\ OnlyAsked
    BY <1>5 DEF ReadForSettlement
  <2> DEFINE next == [Unoccupied EXCEPT !.op = "settle", !.who = {e}]
  <2>2. next \in Errand /\ next.op = "settle" /\ next.who = {e}
    BY NobodyIsAsked DEF Errand
  <2>3. Asking(p, next)
    BY <2>1
  <2> HIDE DEF next
  <2> QED
    BY <1>0, <1>1, <2>1, <2>2, <2>3 DEF MayBeSettled
<1>6. ASSUME ReadForRehire(p) PROVE EmploymentInvariant'
  <2>1. PICK e \in Employees, fresh \in {0, 1} :
          /\ Asking(p, [Unoccupied EXCEPT !.op = "rehire", !.who = {e}, !.size = fresh])
          /\ OnlyAsked
    BY <1>6 DEF ReadForRehire
  <2> DEFINE next == [Unoccupied EXCEPT !.op = "rehire", !.who = {e}, !.size = fresh]
  <2>4. fresh \in Nat /\ {e} \in SUBSET Employees
    OBVIOUS
  <2>2. next \in Errand /\ next.op = "rehire" /\ next.who = {e}
    BY <2>4, NobodyIsAsked DEF Errand
  <2>3. Asking(p, next)
    BY <2>1
  <2> HIDE DEF next
  <2> QED
    BY <1>0, <1>1, <2>1, <2>2, <2>3
<1>7. ASSUME ReadForReinstatement(p) PROVE EmploymentInvariant'
  <2>1. PICK h \in DOMAIN archive :
          /\ Asking(p, [Unoccupied EXCEPT !.op = "reinstate", !.who = {archive[h].who}, !.size = h])
          /\ OnlyAsked
    BY <1>7 DEF ReadForReinstatement
  <2>4. h \in Nat /\ archive[h].who \in Employees
    <3>1. h \in Nat /\ archive[h] \in Archived
      BY <1>0
    <3> QED
      BY <3>1 DEF Archived
  <2> DEFINE next == [Unoccupied EXCEPT !.op = "reinstate", !.who = {archive[h].who}, !.size = h]
  <2>2. next \in Errand /\ next.op = "reinstate" /\ next.who = {archive[h].who} /\ next.size = h
    BY <2>4, NobodyIsAsked DEF Errand
  <2>3. Asking(p, next)
    BY <2>1
  <2> HIDE DEF next
  <2> QED
    BY <1>0, <1>1, <2>1, <2>2, <2>3
<1> QED
  BY <1>2, <1>3, <1>4, <1>5, <1>6, <1>7

\* A request about a seat reads.
LEMMA ReadingAboutBusesKeeps ==
  ASSUME EmploymentInvariant, NEW p \in Desks, ReadForSeat(p) \/ ReadForLeavingBus(p)
  PROVE  EmploymentInvariant'
<1>1. ASSUME ReadForSeat(p) PROVE EmploymentInvariant'
  <2>1. PICK e \in Employees, b \in Buses :
          /\ bus[b].there /\ SeatsAreOpen
          /\ \A c \in Buses \ {b} : e \notin Riders(c)
          /\ Asking(p, [Unoccupied EXCEPT !.op = "seat", !.who = {e}, !.on = {b},
                          !.size = bus[b].capacity, !.riders = Cardinality(Riders(b))])
          /\ OnlyAsked
    BY <1>1 DEF ReadForSeat
  <2>2. Cardinality(Riders(b)) \in Nat
    <3>1. Riders(b) \in SUBSET Employees
      BY DEF Riders
    <3> QED
      BY <3>1, EmployeesAssumption, FS_Subset, FS_CardinalityType
  <2>3. bus[b].capacity \in Nat
    BY DEF EmploymentInvariant, BusInvariant, BusesAreTyped, BusRow
  <2> DEFINE next == [Unoccupied EXCEPT !.op = "seat", !.who = {e}, !.on = {b},
                        !.size = bus[b].capacity, !.riders = Cardinality(Riders(b))]
  <2>4. /\ next \in Errand
        /\ next.op = "seat" /\ next.who = {e} /\ next.on = {b} /\ next.size = bus[b].capacity
    BY <2>2, <2>3, NobodyIsAsked DEF Errand
  <2>5. Asking(p, next)
    BY <2>1
  <2> HIDE DEF next
  <2>6. StaffErrandIsSane(next) /\ BusErrandIsSane(next)
    BY <2>1, <2>4 DEF StaffErrandIsSane, BusErrandIsSane, SeatsAreOpen
  <2> QED
    BY <2>1, <2>4, <2>5, <2>6, AskingKeeps DEF OnlyAsked, Asking
<1>2. ASSUME ReadForLeavingBus(p) PROVE EmploymentInvariant'
  <2>1. PICK e \in Employees, b \in Buses :
          /\ SeatsAreOpen
          /\ Asking(p, [Unoccupied EXCEPT !.op = "unseat", !.who = {e}, !.on = {b}])
          /\ OnlyAsked
    BY <1>2 DEF ReadForLeavingBus
  <2> DEFINE next == [Unoccupied EXCEPT !.op = "unseat", !.who = {e}, !.on = {b}]
  <2>2. next \in Errand /\ next.op = "unseat" /\ next.who = {e} /\ next.on = {b}
    BY NobodyIsAsked DEF Errand
  <2>3. Asking(p, next)
    BY <2>1
  <2> HIDE DEF next
  <2>4. StaffErrandIsSane(next) /\ BusErrandIsSane(next)
    BY <2>1, <2>2 DEF StaffErrandIsSane, BusErrandIsSane, SeatsAreOpen
  <2> QED
    BY <2>1, <2>2, <2>3, <2>4, AskingKeeps DEF OnlyAsked, Asking
<1> QED
  BY <1>1, <1>2

\* A request fails, or is refused.
LEMMA AbandoningKeeps ==
  ASSUME EmploymentInvariant, NEW p \in Desks, AbandonOffice(p)
  PROVE  EmploymentInvariant'
<1>1. StaffErrandIsSane(Unoccupied) /\ BusErrandIsSane(Unoccupied)
  BY NobodyIsAsked DEF StaffErrandIsSane, BusErrandIsSane, Unoccupied
<1> QED
  BY <1>1, NobodyIsAsked, AskingKeeps DEF AbandonOffice, OnlyAsked

-----------------------------------------------------------------------------
(* Leaving *)

\* What a request does that marks the others: they stay sane.
LEMMA MarkingKeepsErrandsSane ==
  ASSUME EmploymentInvariant, NEW p \in Desks, NEW mark \in MarkNames, NEW E, NEW B,
         office' = Marks(p, mark, E, B), StaffChange(mark, E, B), BusChange(mark, E, B),
         UNCHANGED month, DOMAIN archive \subseteq DOMAIN archive'
  PROVE  office' \in [Desks -> Errand] /\ ErrandsAreSane'
<1>1. StaffIsTyped /\ BusesAreTyped /\ ErrandsAreSane /\ month \in Nat
  BY EmploymentAssumption DEF EmploymentInvariant, StaffInvariant, BusInvariant, BusesAreTyped
<1>2. /\ office' \in [Desks -> Errand] /\ office'[p] = Unoccupied
      /\ \A q \in Desks \ {p} : Carried(q, mark, E, B)
  BY <1>1, MarkingErrands DEF StaffIsTyped
<1>3. StaffErrandIsSane(office[p])' /\ BusErrandIsSane(office[p])'
  BY <1>2, NobodyIsAsked DEF StaffErrandIsSane, BusErrandIsSane, Unoccupied
<1>4. ErrandsAreSane'
  BY <1>1, <1>2, <1>3, ErrandsStaySane
<1> QED
  BY <1>2, <1>4

\* Seats that are only given up, by employees who are excused.
LEMMA GivingUpSeats ==
  ASSUME BusInvariant, SameBuses, seat' \in [Buses -> [Employees -> SeatRow]],
         excused \subseteq excused',
         \A b \in Buses, e \in Employees :
           seat'[b][e] = seat[b][e] \/ (seat'[b][e] = NoSeat /\ e \in excused')
  PROVE  /\ BusInvariant'
         /\ \A b \in Buses : Riders(b)' \subseteq Riders(b)
<1>1. \A b \in Buses, e \in Employees :
        /\ e \in Riders(b)' => e \in Riders(b)
        /\ e \in Riders(b) /\ e \notin excused' => e \in Riders(b)'
  BY DEF Riders, NoSeat
<1>2. \A b \in Buses : Riders(b)' \subseteq Riders(b)
  BY <1>1 DEF Riders
<1>3. SeatsWithinCapacity'
  <2>1. ASSUME NEW b \in Buses
        PROVE  /\ Cardinality(Riders(b)') <= Cardinality(Riders(b))
               /\ Cardinality(Riders(b)') \in Nat /\ Cardinality(Riders(b)) \in Nat
    <3>1. IsFiniteSet(Riders(b))
      BY EmployeesAssumption, FS_Subset DEF Riders
    <3> QED
      BY <1>2, <3>1, FS_Subset, FS_CardinalityType
  <2>2. ASSUME NEW b \in Buses \ squeezed', bus'[b].there
        PROVE  Cardinality(Riders(b)') <= bus'[b].capacity
    <3>1. bus'[b] = bus[b] /\ b \notin squeezed /\ bus[b].capacity \in Nat
      BY <2>2 DEF BusInvariant, BusesAreTyped, BusRow, SameBuses
    <3>2. Cardinality(Riders(b)) <= bus[b].capacity
      BY <2>2, <3>1 DEF BusInvariant, SeatsWithinCapacity
    <3> QED
      BY <2>1, <3>1, <3>2
  <2> QED
    BY <2>2 DEF SeatsWithinCapacity
<1>4. OneBusEach'
  BY <1>1 DEF BusInvariant, OneBusEach, SameBuses
<1>5. ApprovedSeatsStay'
  <2>1. ASSUME approved', NEW s \in Buses \X Employees, (s \in Subscriptions') # (s \in sealed'),
               s[2] \notin excused'
        PROVE  FALSE
    <3>1. s[1] \in Buses /\ s[2] \in Employees /\ s[2] \notin excused
      BY <2>1
    <3>2. s \in Subscriptions' <=> s \in Subscriptions
      BY <1>1, <2>1, <3>1 DEF Subscriptions
    <3> QED
      BY <2>1, <3>1, <3>2 DEF BusInvariant, ApprovedSeatsStay, SameBuses
  <2> QED
    BY <2>1 DEF ApprovedSeatsStay
<1> QED
  BY <1>2, <1>3, <1>4, <1>5 DEF BusInvariant, BusesAreTyped, SameBuses

\* A termination, with or without the seats.
LEMMA LeavingKeeps ==
  ASSUME EmploymentInvariant, NEW p \in Desks, NEW E \in SUBSET Employees, Leave(E),
         office' = Marks(p, "status", E, Buses), SameBuses, UNCHANGED <<archive, paidOut, swept>>,
         seat' \in [Buses -> [Employees -> SeatRow]], excused \subseteq excused',
         \A b \in Buses, e \in Employees :
           seat'[b][e] = seat[b][e] \/ (seat'[b][e] = NoSeat /\ e \in excused')
  PROVE  EmploymentInvariant'
<1>0. /\ month \in 1 .. LastMonth /\ month \in StaffMonths /\ month # Never
      /\ employee \in [Employees -> EmployeeRow]
  BY EmploymentAssumption DEF EmploymentInvariant, BusInvariant, BusesAreTyped, StaffInvariant,
     StaffIsTyped, StaffMonths, Never
<1>1. /\ \A e \in E : /\ employee'[e] = Leaver(e) /\ Leaver(e) \in EmployeeRow
                      /\ ~employee'[e].active /\ ~employee'[e].completed /\ ~employee'[e].settled
                      /\ employee'[e].left = month
      /\ \A e \in Employees \ E : employee'[e] = employee[e]
  BY <1>0 DEF Leave, Leaver, EmployeeRow
<1>2. BusInvariant' /\ \A b \in Buses : Riders(b)' \subseteq Riders(b)
  BY GivingUpSeats DEF EmploymentInvariant
<1>3. StaffChange("status", E, Buses) /\ BusChange("status", E, Buses)
  BY <1>1, <1>2 DEF StaffChange, BusChange, SameBuses
<1>4. office' \in [Desks -> Errand] /\ ErrandsAreSane'
  BY <1>3, MarkingKeepsErrandsSane DEF SameBuses, MarkNames
<1>5. StaffIsTyped'
  BY <1>0, <1>1, <1>4 DEF EmploymentInvariant, StaffInvariant, StaffIsTyped, Leave
<1>6. EmployedAreNotPaidOut' /\ SettledOnce' /\ LeaversArePaid'
  <2>1. ASSUME NEW e \in E, e \notin irregular'
        PROVE  paidOut'[e] = 0
    BY <2>1 DEF EmploymentInvariant, StaffInvariant, EmployedAreNotPaidOut, Leave
  <2>2. irregular \subseteq irregular'
    BY DEF Leave
  <2>3. EmployedAreNotPaidOut'
    BY <1>1, <2>2 DEF EmploymentInvariant, StaffInvariant, EmployedAreNotPaidOut, Active
  <2>4. SettledOnce'
    BY <1>1, <2>1, <2>2 DEF EmploymentInvariant, StaffInvariant, SettledOnce, Active
  <2>5. LeaversArePaid'
    BY <1>1, <2>2 DEF EmploymentInvariant, StaffInvariant, LeaversArePaid, OnPayroll, Active, Leave
  <2> QED
    BY <2>3, <2>4, <2>5
<1>7. DatesArePast'
  <2>1. \A b \in Buses, e \in Employees : seat'[b][e].ended <= month'
    BY <1>0 DEF EmploymentInvariant, DatesArePast, SameBuses, NoSeat, Never
  <2>2. \A e \in Employees :
          employee'[e].left <= month' /\ (employee'[e].active <=> employee'[e].left = Never)
    BY <1>0, <1>1 DEF EmploymentInvariant, DatesArePast, SameBuses, Active
  <2> QED
    BY <2>1, <2>2 DEF DatesArePast, Active
<1>8. SeatsEndWithEmployment'
  <2>1. ASSUME NEW e \in Employees \ (swept' \cup irregular'), NEW b \in Buses,
               ~employee'[e].active, seat'[b][e].ended = month'
        PROVE  employee'[e].left = month'
    <3>1. month' = month /\ e \notin swept /\ e \notin irregular
      BY <2>1 DEF SameBuses, Leave
    <3>2. seat'[b][e] = seat[b][e]
      BY <1>0, <2>1, <3>1 DEF NoSeat
    <3>3. CASE e \in E
      BY <1>1, <3>1, <3>3
    <3>4. CASE e \notin E
      BY <1>1, <2>1, <3>1, <3>2, <3>4 DEF EmploymentInvariant, SeatsEndWithEmployment, Active
    <3> QED
      BY <3>3, <3>4
  <2> QED
    BY <2>1 DEF SeatsEndWithEmployment, Active
<1> QED
  BY <1>2, <1>4, <1>5, <1>6, <1>7, <1>8 DEF EmploymentInvariant, StaffInvariant

\* One seat is given up, if there is one.
LEMMA GivingUpASeat ==
  ASSUME seat \in [Buses -> [Employees -> SeatRow]], NEW e \in Employees, GiveUpSeat(e)
  PROVE  /\ seat' \in [Buses -> [Employees -> SeatRow]] /\ excused \subseteq excused'
         /\ \A b \in Buses, f \in Employees :
              seat'[b][f] = seat[b][f] \/ (seat'[b][f] = NoSeat /\ f \in excused')
<1>1. NoSeat \in SeatRow
  BY EmploymentAssumption DEF NoSeat, SeatRow, StaffMonths, Never
<1>2. CASE \E b \in Buses : e \in Riders(b)
  <2>1. PICK b \in Buses : seat' = [seat EXCEPT ![b][e] = NoSeat] /\ excused' = excused \cup {e}
    BY <1>2 DEF GiveUpSeat
  <2>2. seat' = [seat EXCEPT ![b] = [seat[b] EXCEPT ![e] = NoSeat]]
    BY <2>1
  <2>3. /\ seat' \in [Buses -> [Employees -> SeatRow]] /\ seat'[b][e] = NoSeat
        /\ \A x \in Buses, y \in Employees : x # b \/ y # e => seat'[x][y] = seat[x][y]
    BY <1>1, <2>2, OneCellIsWritten
  <2> QED
    BY <2>1, <2>3
<1>3. CASE ~\E b \in Buses : e \in Riders(b)
  BY <1>3 DEF GiveUpSeat
<1> QED
  BY <1>2, <1>3

\* Employees leave, and give up their seats or keep them, as the request has it.
LEMMA TerminationsKeep ==
  ASSUME EmploymentInvariant, NEW p \in Desks,
         TerminateSimply(p) \/ TerminateEmployee(p) \/ TerminateDepartment(p)
  PROVE  EmploymentInvariant'
<1>0. /\ seat \in [Buses -> [Employees -> SeatRow]]
      /\ office[p].who \in SUBSET Employees
  BY DEF EmploymentInvariant, BusInvariant, BusesAreTyped, StaffInvariant, StaffIsTyped, Errand
<1>1. ASSUME NEW e \in Employees, Leave({e}), GiveUpSeat(e),
             office' = Marks(p, "status", {e}, Buses), SameBuses,
             UNCHANGED <<archive, paidOut, swept>>
      PROVE  EmploymentInvariant'
  <2>1. /\ seat' \in [Buses -> [Employees -> SeatRow]] /\ excused \subseteq excused'
        /\ \A b \in Buses, f \in Employees :
             seat'[b][f] = seat[b][f] \/ (seat'[b][f] = NoSeat /\ f \in excused')
    BY <1>0, <1>1, GivingUpASeat
  <2>2. {e} \in SUBSET Employees
    OBVIOUS
  <2> QED
    BY <1>1, <2>1, <2>2, LeavingKeeps
<1>2. CASE TerminateSimply(p)
  BY <1>1, <1>2 DEF TerminateSimply
<1>3. CASE TerminateEmployee(p)
  BY <1>0, <1>1, <1>3 DEF TerminateEmployee
<1>4. CASE TerminateDepartment(p)
  <2> DEFINE E == office[p].who
  <2>1. /\ E \in SUBSET Employees /\ Leave(E) /\ office' = Marks(p, "status", E, Buses)
        /\ SameBuses /\ UNCHANGED <<seat, excused, archive, paidOut, swept>>
    BY <1>0, <1>4 DEF TerminateDepartment, SameSeats
  <2> HIDE DEF E
  <2>2. /\ seat' \in [Buses -> [Employees -> SeatRow]] /\ excused \subseteq excused'
        /\ \A b \in Buses, e \in Employees : seat'[b][e] = seat[b][e]
    BY <1>0, <2>1
  <2> QED
    BY <2>1, <2>2, LeavingKeeps
<1> QED
  BY <1>2, <1>3, <1>4

-----------------------------------------------------------------------------
(* Archiving, settling, coming back *)

\* What these requests have in common: they write about one employee and no seat.
LEMMA StaffStepKeeps ==
  ASSUME EmploymentInvariant, NEW p \in Desks, NEW e \in Employees, NEW mark \in MarkNames,
         office' = Marks(p, mark, {e}, Buses), SameSeats, StaffChange(mark, {e}, Buses),
         employee' \in [Employees -> EmployeeRow],
         \A f \in Employees \ {e} : employee'[f] = employee[f],
         paidOut' \in [Employees -> Nat], archive' \in Seq(Archived),
         DOMAIN archive \subseteq DOMAIN archive',
         employee'[e].left <= month, employee'[e].active <=> employee'[e].left = Never
  PROVE  /\ StaffIsTyped' /\ BusInvariant' /\ DatesArePast' /\ ErrandsAreSane'
         /\ month' = month /\ seat' = seat
<1>1. /\ UNCHANGED <<bus, seat, month, approved, sealed, seatedTwice, squeezed, excused>>
  BY DEF SameSeats, SameBuses
<1>2. BusInvariant'
  BY <1>1, BusesStay DEF EmploymentInvariant
<1>3. BusChange(mark, {e}, Buses)
  BY <1>1, BusesDoNotChange
<1>4. office' \in [Desks -> Errand] /\ ErrandsAreSane'
  BY <1>1, <1>3, MarkingKeepsErrandsSane
<1>5. DatesArePast'
  <2>1. \A f \in Employees :
          employee'[f].left <= month' /\ (employee'[f].active <=> employee'[f].left = Never)
    BY <1>1 DEF EmploymentInvariant, DatesArePast, Active
  <2> QED
    BY <1>1, <2>1 DEF EmploymentInvariant, DatesArePast, Active
<1> QED
  BY <1>1, <1>2, <1>4, <1>5 DEF StaffIsTyped

\* What one needs to know of an employee that a request p is about.
LEMMA AboutOneEmployee ==
  ASSUME EmploymentInvariant, NEW p \in Desks
  PROVE  /\ office[p] \in Errand /\ StaffErrandIsSane(office[p]) /\ BusErrandIsSane(office[p])
         /\ office[p].who \subseteq Employees /\ office[p].size \in Nat
         /\ month \in Nat /\ month \in StaffMonths /\ month # Never
         /\ employee \in [Employees -> EmployeeRow] /\ paidOut \in [Employees -> Nat]
         /\ archive \in Seq(Archived)
         /\ \A e \in Employees :
              /\ employee[e] \in EmployeeRow /\ employee[e].left \in Nat
              /\ employee[e].active \in BOOLEAN /\ employee[e].left <= month
              /\ employee[e].active <=> employee[e].left = Never
<1>1. /\ employee \in [Employees -> EmployeeRow] /\ paidOut \in [Employees -> Nat]
      /\ archive \in Seq(Archived) /\ office[p] \in Errand
      /\ month \in 1 .. LastMonth
  BY DEF EmploymentInvariant, StaffInvariant, StaffIsTyped, BusInvariant, BusesAreTyped
<1>2. month \in Nat /\ month \in StaffMonths /\ month # Never
  BY <1>1, EmploymentAssumption DEF StaffMonths, Never
<1>3. office[p].who \subseteq Employees /\ office[p].size \in Nat
  BY <1>1 DEF Errand
<1>4. \A e \in Employees :
        /\ employee[e] \in EmployeeRow /\ employee[e].left \in Nat
        /\ employee[e].active \in BOOLEAN
  BY <1>1, EmploymentAssumption DEF EmployeeRow, StaffMonths
<1> QED
  BY <1>1, <1>2, <1>3, <1>4 DEF EmploymentInvariant, DatesArePast, ErrandsAreSane, Active

\* remove archives with the date that was read.
LEMMA ArchivingKeeps ==
  ASSUME EmploymentInvariant, NEW p \in Desks, ArchiveEmployee(p)
  PROVE  EmploymentInvariant'
<1> DEFINE r == office[p]
           last == IF r.size = Never THEN month ELSE r.size
<1>0. /\ r.who \subseteq Employees /\ r.size \in Nat /\ StaffErrandIsSane(r)
      /\ month \in Nat /\ month \in StaffMonths /\ month # Never
      /\ employee \in [Employees -> EmployeeRow] /\ paidOut \in [Employees -> Nat]
      /\ archive \in Seq(Archived)
      /\ \A e \in Employees :
           /\ employee[e].left \in Nat /\ employee[e].left <= month
           /\ employee[e].active <=> employee[e].left = Never
  BY AboutOneEmployee
<1>1. PICK e \in r.who :
        /\ r.op = "archive"
        /\ archive' = Append(archive, [who |-> e, open |-> TRUE])
        /\ employee' = [employee EXCEPT ![e].active = FALSE, ![e].left = last]
        /\ closed' = IF employee[e].active THEN closed \ {e} ELSE closed
        /\ irregular' = IF \/ employee[e].active /\ (employee[e].settled \/ employee[e].completed)
                           \/ Marked(p, "status")
                        THEN irregular \cup {e} ELSE irregular
        /\ office' = Marks(p, "status", {e}, Buses)
        /\ SameSeats /\ UNCHANGED paidOut
  BY DEF ArchiveEmployee
<1>2. e \in Employees /\ r.size <= month /\ last \in StaffMonths /\ last <= month /\ last # Never
  BY <1>0, <1>1, EmploymentAssumption DEF StaffErrandIsSane, StaffMonths
<1> DEFINE row == [employee[e] EXCEPT !.active = FALSE, !.left = last]
<1>3. /\ row \in EmployeeRow /\ ~row.active /\ row.left = last
      /\ row.completed = employee[e].completed /\ row.settled = employee[e].settled
  BY <1>0, <1>2 DEF EmployeeRow
<1>4. employee' = [employee EXCEPT ![e] = row]
  BY <1>0, <1>1, <1>2
<1> HIDE DEF row, last
<1>5. /\ employee' \in [Employees -> EmployeeRow] /\ employee'[e] = row
      /\ \A f \in Employees \ {e} : employee'[f] = employee[f]
  BY <1>0, <1>2, <1>3, <1>4
<1>6. archive' \in Seq(Archived) /\ DOMAIN archive \subseteq DOMAIN archive'
  <2>1. [who |-> e, open |-> TRUE] \in Archived
    BY <1>2 DEF Archived
  <2> QED
    BY <1>0, <1>1, <2>1
<1>7. StaffChange("status", {e}, Buses)
  BY <1>5 DEF StaffChange
<1>8. /\ StaffIsTyped' /\ BusInvariant' /\ DatesArePast' /\ ErrandsAreSane'
      /\ month' = month /\ seat' = seat
  <2>1. employee'[e].left <= month /\ (employee'[e].active <=> employee'[e].left = Never)
    BY <1>2, <1>3, <1>5
  <2>2. paidOut' \in [Employees -> Nat]
    BY <1>0, <1>1
  <2>3. "status" \in MarkNames
    BY DEF MarkNames
  <2> QED
    BY <1>1, <1>2, <1>5, <1>6, <1>7, <2>1, <2>2, <2>3, StaffStepKeeps
<1>9. irregular \subseteq irregular'
  BY <1>1
<1>10. EmployedAreNotPaidOut'
  BY <1>1, <1>3, <1>5, <1>9 DEF EmploymentInvariant, StaffInvariant, EmployedAreNotPaidOut, Active
<1>11. SettledOnce'
  <2>1. ASSUME e \notin irregular'
        PROVE  paidOut[e] <= 1 /\ (row.completed <=> paidOut[e] = 1)
    BY <1>1, <1>2, <1>3, <2>1
       DEF EmploymentInvariant, StaffInvariant, EmployedAreNotPaidOut, SettledOnce, Active
  <2> QED
    BY <1>1, <1>3, <1>5, <1>9, <2>1 DEF EmploymentInvariant, StaffInvariant, SettledOnce, Active
<1>12. LeaversArePaid'
  <2>1. ASSUME e \notin irregular'
        PROVE  ~row.settled \/ e \in closed'
    BY <1>1, <1>2, <1>3, <2>1
       DEF EmploymentInvariant, StaffInvariant, LeaversArePaid, OnPayroll, Active
  <2>2. \A f \in Employees \ {e} : f \in closed => f \in closed'
    BY <1>1
  <2> QED
    BY <1>5, <1>9, <2>1, <2>2
       DEF EmploymentInvariant, StaffInvariant, LeaversArePaid, OnPayroll, Active
<1>13. SeatsEndWithEmployment'
  <2>1. swept' = swept
    BY <1>1 DEF SameSeats
  <2>2. ASSUME e \notin irregular', e \notin swept, NEW b \in Buses, seat[b][e].ended = month
        PROVE  row.left = month
    <3>1. r.size = employee[e].left
      BY <1>0, <1>1, <2>2 DEF StaffErrandIsSane, Marked
    <3>2. CASE r.size = Never
      BY <1>3, <3>2 DEF last
    <3>3. CASE r.size # Never
      <4>1. ~Active(e) /\ e \notin irregular
        BY <1>0, <1>2, <1>9, <2>2, <3>1, <3>3 DEF Active
      <4> QED
        BY <1>2, <1>3, <2>2, <3>1, <3>3, <4>1 DEF EmploymentInvariant, SeatsEndWithEmployment, last
    <3> QED
      BY <3>2, <3>3
  <2> QED
    BY <1>5, <1>8, <1>9, <1>3, <2>1, <2>2 DEF EmploymentInvariant, SeatsEndWithEmployment, Active
<1> QED
  BY <1>8, <1>10, <1>11, <1>12, <1>13 DEF EmploymentInvariant, StaffInvariant

\* settle, and a settlement that is recorded.
LEMMA SettlingKeeps ==
  ASSUME EmploymentInvariant, NEW p \in Desks, Settle(p) \/ CompleteSettlement(p)
  PROVE  EmploymentInvariant'
<1>0. /\ office[p].who \subseteq Employees /\ StaffErrandIsSane(office[p])
      /\ employee \in [Employees -> EmployeeRow] /\ paidOut \in [Employees -> Nat]
      /\ archive \in Seq(Archived)
      /\ \A e \in Employees :
           /\ employee[e].left \in Nat /\ employee[e].left <= month
           /\ employee[e].active <=> employee[e].left = Never
  BY AboutOneEmployee
<1>1. ASSUME NEW e \in Employees, NEW row \in EmployeeRow, NEW mark \in MarkNames,
             employee' = [employee EXCEPT ![e] = row],
             row.active = employee[e].active, row.left = employee[e].left, row.settled,
             row.completed = employee[e].completed \/ mark = "paid",
             office' = Marks(p, mark, {e}, Buses), SameSeats, UNCHANGED archive,
             closed' = closed \cup {e}, irregular \subseteq irregular',
             paidOut' \in [Employees -> Nat],
             \A f \in Employees \ {e} : paidOut'[f] = paidOut[f],
             e \notin irregular' =>
               /\ row.active => paidOut'[e] = 0
               /\ paidOut'[e] <= 1
               /\ ~row.active => (row.completed <=> paidOut'[e] = 1)
      PROVE  EmploymentInvariant'
  <2>1. /\ employee' \in [Employees -> EmployeeRow] /\ employee'[e] = row
        /\ \A f \in Employees \ {e} : employee'[f] = employee[f]
    BY <1>0, <1>1
  <2>2. StaffChange(mark, {e}, Buses)
    BY <1>1, <2>1 DEF StaffChange
  <2>3. /\ StaffIsTyped' /\ BusInvariant' /\ DatesArePast' /\ ErrandsAreSane'
        /\ month' = month /\ seat' = seat
    <3>1. employee'[e].left <= month /\ (employee'[e].active <=> employee'[e].left = Never)
      BY <1>0, <1>1, <2>1
    <3>2. archive' \in Seq(Archived) /\ DOMAIN archive \subseteq DOMAIN archive'
      BY <1>0, <1>1
    <3> QED
      BY <1>1, <2>1, <2>2, <3>1, <3>2, StaffStepKeeps
  <2>4. EmployedAreNotPaidOut'
    BY <1>1, <2>1 DEF EmploymentInvariant, StaffInvariant, EmployedAreNotPaidOut, Active
  <2>5. SettledOnce'
    BY <1>1, <2>1 DEF EmploymentInvariant, StaffInvariant, SettledOnce, Active
  <2>6. LeaversArePaid'
    BY <1>1, <2>1 DEF EmploymentInvariant, StaffInvariant, LeaversArePaid, OnPayroll, Active
  <2>7. SeatsEndWithEmployment'
    <3>1. swept' = swept
      BY <1>1 DEF SameSeats
    <3> QED
      BY <1>1, <2>1, <2>3, <3>1 DEF EmploymentInvariant, SeatsEndWithEmployment, Active
  <2> QED
    BY <2>3, <2>4, <2>5, <2>6, <2>7 DEF EmploymentInvariant, StaffInvariant
<1>2. CASE Settle(p)
  <2>1. PICK e \in Employees :
          /\ employee' = [employee EXCEPT ![e].settled = TRUE]
          /\ closed' = closed \cup {e}
          /\ office' = Marks(p, "settled", {e}, Buses)
          /\ SameSeats /\ UNCHANGED <<archive, paidOut, irregular>>
    BY <1>2 DEF Settle
  <2> DEFINE row == [employee[e] EXCEPT !.settled = TRUE]
  <2>2. /\ row \in EmployeeRow /\ row.settled /\ row.active = employee[e].active
        /\ row.left = employee[e].left /\ row.completed = employee[e].completed
    BY <1>0 DEF EmployeeRow
  <2>3. employee' = [employee EXCEPT ![e] = row]
    BY <1>0, <2>1
  <2> HIDE DEF row
  <2>4. e \notin irregular' =>
          /\ row.active => paidOut'[e] = 0
          /\ paidOut'[e] <= 1
          /\ ~row.active => (row.completed <=> paidOut'[e] = 1)
    BY <2>1, <2>2
       DEF EmploymentInvariant, StaffInvariant, EmployedAreNotPaidOut, SettledOnce, Active
  <2>5. "settled" \in MarkNames
    BY DEF MarkNames
  <2> QED
    BY <1>0, <1>1, <2>1, <2>2, <2>3, <2>4, <2>5
<1>3. CASE CompleteSettlement(p)
  <2>1. PICK e \in office[p].who :
          /\ office[p].op = "settle"
          /\ employee' = [employee EXCEPT ![e].completed = TRUE, ![e].settled = TRUE]
          /\ paidOut' = [paidOut EXCEPT ![e] = paidOut[e] + 1]
          /\ closed' = closed \cup {e}
          /\ irregular' = IF Marked(p, "paid") \/ Marked(p, "status")
                          THEN irregular \cup {e} ELSE irregular
          /\ office' = Marks(p, "paid", {e}, Buses)
          /\ SameSeats /\ UNCHANGED archive
    BY <1>3 DEF CompleteSettlement
  <2>0. e \in Employees
    BY <1>0
  <2> DEFINE row == [employee[e] EXCEPT !.completed = TRUE, !.settled = TRUE]
  <2>2. /\ row \in EmployeeRow /\ row.settled /\ row.active = employee[e].active
        /\ row.left = employee[e].left /\ row.completed
    BY <1>0, <2>0 DEF EmployeeRow
  <2>3. employee' = [employee EXCEPT ![e] = row]
    BY <1>0, <2>0, <2>1
  <2> HIDE DEF row
  <2>4. /\ paidOut' \in [Employees -> Nat] /\ paidOut'[e] = paidOut[e] + 1
        /\ \A f \in Employees \ {e} : paidOut'[f] = paidOut[f]
    BY <1>0, <2>0, <2>1
  <2>5. ASSUME e \notin irregular'
        PROVE  /\ row.active => paidOut'[e] = 0
               /\ paidOut'[e] <= 1
               /\ ~row.active => (row.completed <=> paidOut'[e] = 1)
    <3>1. ~Marked(p, "paid") /\ ~Marked(p, "status") /\ e \notin irregular
      BY <2>1, <2>5
    <3>2. office[p].marks \cap {"status", "paid"} = {}
      BY <3>1 DEF Marked
    <3>3. ~employee[e].active /\ ~employee[e].completed
      BY <1>0, <2>1, <3>2 DEF StaffErrandIsSane, Active
    <3>4. paidOut[e] = 0
      BY <1>0, <2>0, <3>1, <3>3 DEF EmploymentInvariant, StaffInvariant, SettledOnce, Active
    <3> QED
      BY <2>2, <2>4, <3>3, <3>4
  <2>6. "paid" \in MarkNames /\ irregular \subseteq irregular'
    BY <2>1 DEF MarkNames
  <2> QED
    BY <1>1, <2>0, <2>1, <2>2, <2>3, <2>4, <2>5, <2>6
<1> QED
  BY <1>2, <1>3

\* Rehired or restored: employed, and not paid out.
LEMMA ComingBackKeeps ==
  ASSUME EmploymentInvariant, NEW p \in Desks, Rehire(p) \/ Reinstate(p)
  PROVE  EmploymentInvariant'
<1>0. /\ office[p].who \subseteq Employees /\ StaffErrandIsSane(office[p])
      /\ employee \in [Employees -> EmployeeRow] /\ paidOut \in [Employees -> Nat]
      /\ archive \in Seq(Archived) /\ month \in Nat
  BY AboutOneEmployee
<1>1. ASSUME NEW e \in Employees, NEW row \in EmployeeRow,
             employee' = [employee EXCEPT ![e] = row], row.active, row.left = Never,
             paidOut' = [paidOut EXCEPT ![e] = 0],
             office' = Marks(p, "status", {e}, Buses), SameSeats,
             archive' \in Seq(Archived), DOMAIN archive' = DOMAIN archive,
             irregular \ {e} \subseteq irregular', closed \ {e} \subseteq closed'
      PROVE  EmploymentInvariant'
  <2>1. /\ employee' \in [Employees -> EmployeeRow] /\ employee'[e] = row
        /\ \A f \in Employees \ {e} : employee'[f] = employee[f]
    BY <1>0, <1>1
  <2>2. /\ paidOut' \in [Employees -> Nat] /\ paidOut'[e] = 0
        /\ \A f \in Employees \ {e} : paidOut'[f] = paidOut[f]
    BY <1>0, <1>1
  <2>3. StaffChange("status", {e}, Buses) /\ "status" \in MarkNames
    BY <2>1 DEF StaffChange, MarkNames
  <2>4. /\ StaffIsTyped' /\ BusInvariant' /\ DatesArePast' /\ ErrandsAreSane'
        /\ month' = month /\ seat' = seat
    <3>1. employee'[e].left <= month /\ (employee'[e].active <=> employee'[e].left = Never)
      BY <1>0, <1>1, <2>1 DEF Never
    <3> QED
      BY <1>1, <2>1, <2>2, <2>3, <3>1, StaffStepKeeps
  <2>5. EmployedAreNotPaidOut'
    BY <1>1, <2>1, <2>2 DEF EmploymentInvariant, StaffInvariant, EmployedAreNotPaidOut, Active
  <2>6. SettledOnce'
    BY <1>1, <2>1, <2>2 DEF EmploymentInvariant, StaffInvariant, SettledOnce, Active
  <2>7. LeaversArePaid'
    BY <1>1, <2>1 DEF EmploymentInvariant, StaffInvariant, LeaversArePaid, OnPayroll, Active
  <2>8. SeatsEndWithEmployment'
    <3>1. swept' = swept
      BY <1>1 DEF SameSeats
    <3> QED
      BY <1>1, <2>1, <2>4, <3>1 DEF EmploymentInvariant, SeatsEndWithEmployment, Active
  <2> QED
    BY <2>4, <2>5, <2>6, <2>7, <2>8 DEF EmploymentInvariant, StaffInvariant
<1>2. CASE Rehire(p)
  <2>1. PICK e \in office[p].who :
          /\ employee' = [employee EXCEPT ![e] = Hired]
          /\ paidOut' = [paidOut EXCEPT ![e] = 0]
          /\ closed' = closed \ {e} /\ irregular' = irregular \ {e}
          /\ office' = Marks(p, "status", {e}, Buses)
          /\ SameSeats /\ UNCHANGED archive
    BY <1>2 DEF Rehire
  <2>2. Hired \in EmployeeRow /\ Hired.active /\ Hired.left = Never
    BY EmploymentAssumption DEF Hired, EmployeeRow, StaffMonths, Never
  <2>3. e \in Employees /\ archive' \in Seq(Archived) /\ DOMAIN archive' = DOMAIN archive
    BY <1>0, <2>1
  <2> QED
    BY <1>1, <2>1, <2>2, <2>3
<1>3. CASE Reinstate(p)
  <2>1. PICK e \in office[p].who :
          /\ office[p].op = "reinstate"
          /\ employee' = [employee EXCEPT ![e].active = TRUE, ![e].left = Never]
          /\ archive' = [archive EXCEPT ![office[p].size].open = FALSE]
          /\ paidOut' = [paidOut EXCEPT ![e] = 0]
          /\ office' = Marks(p, "status", {e}, Buses)
          /\ SameSeats /\ UNCHANGED <<closed, irregular>>
    BY <1>3 DEF Reinstate
  <2>0. e \in Employees
    BY <1>0
  <2> DEFINE row == [employee[e] EXCEPT !.active = TRUE, !.left = Never]
  <2>2. row \in EmployeeRow /\ row.active /\ row.left = Never
    <3>1. Never \in StaffMonths /\ employee[e] \in EmployeeRow
      BY <1>0, <2>0, EmploymentAssumption DEF StaffMonths, Never
    <3> QED
      BY <3>1 DEF EmployeeRow
  <2>3. employee' = [employee EXCEPT ![e] = row]
    BY <1>0, <2>0, <2>1
  <2> HIDE DEF row
  <2> DEFINE h == office[p].size
             entry == [archive[h] EXCEPT !.open = FALSE]
  <2>4. h \in DOMAIN archive
    BY <1>0, <2>1 DEF StaffErrandIsSane
  <2>5. entry \in Archived
    <3>1. archive[h] \in Archived
      BY <1>0, <2>4
    <3> QED
      BY <3>1 DEF Archived
  <2>6. archive' = [archive EXCEPT ![h] = entry]
    BY <2>1
  <2> HIDE DEF entry, h
  <2>7. archive' \in Seq(Archived) /\ DOMAIN archive' = DOMAIN archive
    BY <1>0, <2>4, <2>5, <2>6
  <2> QED
    BY <1>1, <2>0, <2>1, <2>2, <2>3, <2>7
<1> QED
  BY <1>2, <1>3

-----------------------------------------------------------------------------
(* Buses, seats and the month *)

\* What these requests have in common: the staff stays as it is.
LEMMA BusStepKeepsStaff ==
  ASSUME EmploymentInvariant, NEW p \in Desks, NEW mark \in MarkNames, NEW E, NEW B,
         office' = Marks(p, mark, E, B), SameStaff, UNCHANGED month, BusChange(mark, E, B)
  PROVE  StaffInvariant' /\ ErrandsAreSane'
<1>1. office' \in [Desks -> Errand] /\ ErrandsAreSane'
  BY MarkingKeepsErrandsSane, StaffDoesNotChange DEF SameStaff
<1> QED
  BY <1>1, StaffStays DEF EmploymentInvariant, SameStaff

\* The employees are finitely many, and so are the riders of a bus.
LEMMA RidersAreFinite ==
  ASSUME NEW b \in Buses
  PROVE  /\ IsFiniteSet(Riders(b)) /\ Cardinality(Riders(b)) \in Nat
         /\ IsFiniteSet(Riders(b)') /\ Cardinality(Riders(b)') \in Nat
<1>1. Riders(b) \subseteq Employees /\ Riders(b)' \subseteq Employees
  BY DEF Riders
<1> QED
  BY <1>1, EmployeesAssumption, FS_Subset, FS_CardinalityType

\* The seat is counted under the lock.
LEMMA TakingASeatKeeps ==
  ASSUME EmploymentInvariant, NEW p \in Desks, TakeSeat(p)
  PROVE  EmploymentInvariant'
<1> DEFINE r == office[p]
<1>0. /\ r \in Errand /\ r.who \subseteq Employees /\ r.on \subseteq Buses /\ BusErrandIsSane(r)
      /\ seat \in [Buses -> [Employees -> SeatRow]]
  BY AboutOneEmployee DEF EmploymentInvariant, BusInvariant, BusesAreTyped, Errand
<1>1. PICK e \in r.who, b \in r.on :
        /\ r.op = "seat"
        /\ bus[b].there /\ HasRoom(p, b) /\ seat[b][e].state # "active"
        /\ seat' = [seat EXCEPT ![b][e].state = "active"]
        /\ office' = Marks(p, "seat", {e}, Buses)
        /\ seatedTwice' = IF Marked(p, "seat") THEN seatedTwice \cup {e} ELSE seatedTwice
        /\ squeezed' = IF Marked(p, "capacity") THEN squeezed \cup {b} ELSE squeezed
        /\ swept' = IF LongGone(e) THEN swept \cup {e} ELSE swept
        /\ excused' = IF Marked(p, "approved") THEN excused \cup {e} ELSE excused
        /\ SameStaff /\ UNCHANGED <<bus, month, approved, sealed>>
  BY DEF TakeSeat
<1>2. e \in Employees /\ b \in Buses
  BY <1>0, <1>1
<1> DEFINE cell == [seat[b][e] EXCEPT !.state = "active"]
<1>3. cell \in SeatRow /\ cell.state = "active" /\ cell.ended = seat[b][e].ended
  <2>1. seat[b][e] \in SeatRow
    BY <1>0, <1>2
  <2> QED
    BY <2>1 DEF SeatRow
<1>4. seat' = [seat EXCEPT ![b] = [seat[b] EXCEPT ![e] = cell]]
  BY <1>1
<1> HIDE DEF cell
<1>5. /\ seat' \in [Buses -> [Employees -> SeatRow]] /\ seat'[b][e] = cell
      /\ \A x \in Buses, y \in Employees : x # b \/ y # e => seat'[x][y] = seat[x][y]
  BY <1>0, <1>2, <1>3, <1>4, OneCellIsWritten
<1>6. /\ e \notin Riders(b) /\ Riders(b)' = Riders(b) \cup {e}
      /\ \A c \in Buses \ {b} : Riders(c)' = Riders(c)
  BY <1>1, <1>2, <1>3, <1>5 DEF Riders
<1>7. BusChange("seat", {e}, Buses)
  <2>1. \A c \in Buses, f \in Employees : f \in Riders(c)' => f \in Riders(c) \/ f = e
    BY <1>6
  <2> QED
    BY <1>1, <2>1 DEF BusChange
<1>8. StaffInvariant' /\ ErrandsAreSane'
  BY <1>1, <1>7, BusStepKeepsStaff DEF MarkNames
<1>9. BusesAreTyped'
  BY <1>1, <1>5 DEF EmploymentInvariant, BusInvariant, BusesAreTyped
<1>10. SeatsWithinCapacity'
  <2>1. ASSUME NEW c \in Buses \ squeezed', bus'[c].there
        PROVE  Cardinality(Riders(c)') <= bus'[c].capacity
    <3>1. bus'[c] = bus[c] /\ c \notin squeezed /\ bus[c].capacity \in Nat
      BY <1>1, <2>1 DEF EmploymentInvariant, BusInvariant, BusesAreTyped, BusRow
    <3>2. CASE c = b
      <4>1. r.size = bus[b].capacity
        BY <1>1, <2>1, <3>2, <1>0 DEF BusErrandIsSane, Marked
      <4>2. Cardinality(Riders(b)) < r.size
        BY <1>1 DEF HasRoom
      <4>3. Cardinality(Riders(b) \cup {e}) = Cardinality(Riders(b)) + 1
        BY <1>2, <1>6, RidersAreFinite, FS_AddElement
      <4> QED
        BY <1>2, <1>6, <3>1, <3>2, <4>1, <4>2, <4>3, RidersAreFinite
    <3>3. CASE c # b
      BY <1>6, <2>1, <3>1, <3>3 DEF EmploymentInvariant, BusInvariant, SeatsWithinCapacity
    <3> QED
      BY <3>2, <3>3
  <2> QED
    BY <2>1 DEF SeatsWithinCapacity
<1>11. OneBusEach'
  <2>1. seatedTwice \subseteq seatedTwice'
    BY <1>1
  <2>2. e \notin seatedTwice' => \A c \in Buses \ {b} : e \notin Riders(c)
    BY <1>0, <1>1 DEF BusErrandIsSane, Marked
  <2>3. ASSUME NEW f \in Employees \ seatedTwice', NEW c \in Buses, NEW d \in Buses,
               f \in Riders(c)', f \in Riders(d)'
        PROVE  c = d
    <3>1. CASE f = e
      BY <1>6, <2>2, <2>3, <3>1
    <3>2. CASE f # e
      <4>1. f \in Riders(c) /\ f \in Riders(d)
        BY <1>6, <2>3, <3>2
      <4> QED
        BY <2>1, <2>3, <4>1 DEF EmploymentInvariant, BusInvariant, OneBusEach
    <3> QED
      BY <3>1, <3>2
  <2> QED
    BY <2>3 DEF OneBusEach
<1>12. ApprovedSeatsStay'
  <2>1. excused \subseteq excused' /\ (approved => e \in excused')
    BY <1>0, <1>1 DEF BusErrandIsSane, Marked
  <2>2. ASSUME approved', NEW s \in Buses \X Employees, (s \in Subscriptions') # (s \in sealed'),
               s[2] \notin excused'
        PROVE  FALSE
    <3>1. s[1] \in Buses /\ s[2] \in Employees /\ s[2] # e
      BY <1>1, <2>1, <2>2
    <3>2. s \in Subscriptions' <=> s \in Subscriptions
      BY <1>6, <2>2, <3>1 DEF Subscriptions
    <3> QED
      BY <1>1, <2>1, <2>2, <3>2 DEF EmploymentInvariant, BusInvariant, ApprovedSeatsStay
  <2> QED
    BY <2>2 DEF ApprovedSeatsStay
<1>13. \A c \in Buses, f \in Employees : seat'[c][f].ended = seat[c][f].ended
  BY <1>2, <1>3, <1>5
<1>14. DatesArePast' /\ SeatsEndWithEmployment'
  <2>1. swept \subseteq swept' /\ UNCHANGED <<employee, month, irregular>>
    BY <1>1 DEF SameStaff
  <2> QED
    BY <1>13, <2>1 DEF EmploymentInvariant, DatesArePast, SeatsEndWithEmployment, Active
<1> QED
  BY <1>8, <1>9, <1>10, <1>11, <1>12, <1>14 DEF EmploymentInvariant, BusInvariant

\* A seat that is given up ends in the month.
LEMMA LeavingABusKeeps ==
  ASSUME EmploymentInvariant, NEW p \in Desks, LeaveBus(p)
  PROVE  EmploymentInvariant'
<1> DEFINE r == office[p]
           cell == [state |-> "inactive", ended |-> month]
<1>0. /\ r \in Errand /\ r.who \subseteq Employees /\ r.on \subseteq Buses /\ BusErrandIsSane(r)
      /\ seat \in [Buses -> [Employees -> SeatRow]] /\ month \in Nat /\ month \in StaffMonths
  BY AboutOneEmployee DEF EmploymentInvariant, BusInvariant, BusesAreTyped, Errand
<1>1. PICK e \in r.who, b \in r.on :
        /\ r.op = "unseat"
        /\ seat' = [seat EXCEPT ![b][e] = cell]
        /\ office' = [office EXCEPT ![p] = Unoccupied]
        /\ swept' = IF LongGone(e) THEN swept \cup {e} ELSE swept
        /\ excused' = IF Marked(p, "approved") THEN excused \cup {e} ELSE excused
        /\ SameStaff /\ UNCHANGED <<bus, month, approved, sealed, seatedTwice, squeezed>>
  BY DEF LeaveBus
<1>2. e \in Employees /\ b \in Buses
  BY <1>0, <1>1
<1>3. cell \in SeatRow /\ cell.state # "active" /\ cell.ended = month
  BY <1>0 DEF SeatRow
<1>4. seat' = [seat EXCEPT ![b] = [seat[b] EXCEPT ![e] = cell]]
  BY <1>1
<1> HIDE DEF cell
<1>5. /\ seat' \in [Buses -> [Employees -> SeatRow]] /\ seat'[b][e] = cell
      /\ \A x \in Buses, y \in Employees : x # b \/ y # e => seat'[x][y] = seat[x][y]
  BY <1>0, <1>2, <1>3, <1>4, OneCellIsWritten
<1>6. /\ Riders(b)' = Riders(b) \ {e}
      /\ \A c \in Buses \ {b} : Riders(c)' = Riders(c)
  BY <1>2, <1>3, <1>5 DEF Riders
<1>7. office' \in [Desks -> Errand] /\ ErrandsAreSane'
  <2>1. /\ office' \in [Desks -> Errand] /\ office'[p] = Unoccupied
        /\ \A q \in Desks \ {p} : office'[q] = office[q]
    BY <1>1, NobodyIsAsked DEF EmploymentInvariant, StaffInvariant, StaffIsTyped
  <2>2. StaffErrandIsSane(office[p])' /\ BusErrandIsSane(office[p])'
    BY <2>1, NobodyIsAsked DEF StaffErrandIsSane, BusErrandIsSane, Unoccupied
  <2>3. \A q \in Desks \ {p} : Carried(q, "seat", {}, {})
    BY <2>1 DEF Carried
  <2>4. StaffChange("seat", {}, {}) /\ BusChange("seat", {}, {})
    <3>1. \A c \in Buses, f \in Employees : f \in Riders(c)' => f \in Riders(c)
      BY <1>6
    <3> QED
      BY <1>1, <3>1, StaffDoesNotChange DEF BusChange, SameStaff
  <2>5. month' \in Nat /\ month <= month' /\ DOMAIN archive \subseteq DOMAIN archive'
    BY <1>0, <1>1 DEF SameStaff
  <2>6. StaffIsTyped /\ BusesAreTyped /\ ErrandsAreSane
    BY DEF EmploymentInvariant, StaffInvariant, BusInvariant
  <2> QED
    BY <2>1, <2>2, <2>3, <2>4, <2>5, <2>6, ErrandsStaySane
<1>8. StaffInvariant'
  BY <1>1, <1>7, StaffStays DEF EmploymentInvariant, SameStaff
<1>9. BusesAreTyped'
  BY <1>1, <1>5 DEF EmploymentInvariant, BusInvariant, BusesAreTyped
<1>10. SeatsWithinCapacity'
  <2>1. ASSUME NEW c \in Buses \ squeezed', bus'[c].there
        PROVE  Cardinality(Riders(c)') <= bus'[c].capacity
    <3>1. bus'[c] = bus[c] /\ c \notin squeezed /\ bus[c].capacity \in Nat
      BY <1>1, <2>1 DEF EmploymentInvariant, BusInvariant, BusesAreTyped, BusRow
    <3>2. Riders(c)' \subseteq Riders(c)
      BY <1>6
    <3>3. Cardinality(Riders(c)') <= Cardinality(Riders(c))
      BY <3>2, RidersAreFinite, FS_Subset
    <3>4. Cardinality(Riders(c)) <= bus[c].capacity
      BY <2>1, <3>1 DEF EmploymentInvariant, BusInvariant, SeatsWithinCapacity
    <3> QED
      BY <3>1, <3>3, <3>4, RidersAreFinite
  <2> QED
    BY <2>1 DEF SeatsWithinCapacity
<1>11. OneBusEach'
  BY <1>1, <1>6 DEF EmploymentInvariant, BusInvariant, OneBusEach
<1>12. ApprovedSeatsStay'
  <2>1. excused \subseteq excused' /\ (approved => e \in excused')
    BY <1>0, <1>1 DEF BusErrandIsSane, Marked
  <2>2. ASSUME approved', NEW s \in Buses \X Employees, (s \in Subscriptions') # (s \in sealed'),
               s[2] \notin excused'
        PROVE  FALSE
    <3>1. s[1] \in Buses /\ s[2] \in Employees /\ s[2] # e
      BY <1>1, <2>1, <2>2
    <3>2. s \in Subscriptions' <=> s \in Subscriptions
      BY <1>6, <2>2, <3>1 DEF Subscriptions
    <3> QED
      BY <1>1, <2>1, <2>2, <3>2 DEF EmploymentInvariant, BusInvariant, ApprovedSeatsStay
  <2> QED
    BY <2>2 DEF ApprovedSeatsStay
<1>13. UNCHANGED <<employee, month, irregular>> /\ swept \subseteq swept'
  BY <1>1 DEF SameStaff
<1>14. DatesArePast'
  <2>1. ASSUME NEW c \in Buses, NEW f \in Employees
        PROVE  seat'[c][f].ended <= month
    <3>1. CASE c = b /\ f = e
      BY <1>0, <1>3, <1>5, <3>1
    <3>2. CASE c # b \/ f # e
      <4>1. seat[c][f].ended <= month
        BY DEF EmploymentInvariant, DatesArePast
      <4> QED
        BY ONLY <1>5, <2>1, <3>2, <4>1
    <3> QED
      BY <3>1, <3>2
  <2> QED
    BY <1>13, <2>1 DEF EmploymentInvariant, DatesArePast, Active
<1>15. SeatsEndWithEmployment'
  <2>1. e \notin swept' /\ ~employee[e].active => employee[e].left = month
    BY <1>1 DEF LongGone, Active
  <2> QED
    BY <1>5, <1>13, <2>1 DEF EmploymentInvariant, SeatsEndWithEmployment, Active
<1> QED
  BY <1>7, <1>8, <1>9, <1>10, <1>11, <1>12, <1>14, <1>15 DEF EmploymentInvariant, BusInvariant

\* A bus is changed: the requests that have read its capacity are marked.
LEMMA UpdatingABusKeeps ==
  ASSUME EmploymentInvariant, NEW p \in Desks, UpdateBus(p)
  PROVE  EmploymentInvariant'
<1>1. PICK b \in Buses, size \in Capacities, active \in BOOLEAN :
        /\ bus[b].there
        /\ bus' = [bus EXCEPT ![b].capacity = size, ![b].active = active]
        /\ office' = Marks(p, "capacity", Employees, {b})
        /\ squeezed' = IF Cardinality(Riders(b)) > size THEN squeezed \cup {b} ELSE squeezed \ {b}
        /\ SameStaff /\ UNCHANGED <<seat, month, approved, sealed, seatedTwice, swept, excused>>
  BY DEF UpdateBus
<1>2. size \in Nat /\ bus \in [Buses -> BusRow]
  BY EmploymentAssumption DEF EmploymentInvariant, BusInvariant, BusesAreTyped
<1> DEFINE row == [bus[b] EXCEPT !.capacity = size, !.active = active]
<1>3. row \in BusRow /\ row.capacity = size
  <2>1. bus[b] \in BusRow
    BY <1>2
  <2> QED
    BY <1>2, <2>1 DEF BusRow
<1>4. bus' = [bus EXCEPT ![b] = row]
  BY <1>1
<1> HIDE DEF row
<1>5. /\ bus' \in [Buses -> BusRow] /\ bus'[b] = row
      /\ \A c \in Buses \ {b} : bus'[c] = bus[c]
  BY <1>2, <1>3, <1>4
<1>6. \A c \in Buses : Riders(c)' = Riders(c)
  BY <1>1 DEF Riders
<1>7. StaffInvariant' /\ ErrandsAreSane'
  <2>1. BusChange("capacity", Employees, {b})
    BY <1>1, <1>5, <1>6 DEF BusChange
  <2> QED
    BY <1>1, <2>1, BusStepKeepsStaff DEF MarkNames
<1>8. SeatsWithinCapacity'
  <2>1. Cardinality(Riders(b)) \in Nat
    BY RidersAreFinite
  <2>2. b \notin squeezed' => Cardinality(Riders(b)') <= bus'[b].capacity
    BY <1>1, <1>2, <1>3, <1>5, <1>6, <2>1
  <2>3. \A c \in Buses \ {b} : c \in squeezed' <=> c \in squeezed
    BY <1>1
  <2> QED
    BY <1>5, <1>6, <2>2, <2>3 DEF EmploymentInvariant, BusInvariant, SeatsWithinCapacity
<1>9. BusesAreTyped' /\ OneBusEach' /\ ApprovedSeatsStay'
  BY <1>1, <1>5 DEF EmploymentInvariant, BusInvariant, BusesAreTyped, OneBusEach,
     ApprovedSeatsStay, Subscriptions, Riders
<1> QED
  BY <1>1, <1>7, <1>8, <1>9, DatesStay DEF EmploymentInvariant, BusInvariant, SameStaff

\* A bus is deleted with its subscriptions.
LEMMA DeletingABusKeeps ==
  ASSUME EmploymentInvariant, NEW p \in Desks, DeleteBus(p)
  PROVE  EmploymentInvariant'
<1>1. PICK b \in Buses :
        /\ bus' = [bus EXCEPT ![b] = NoBus]
        /\ seat' = [seat EXCEPT ![b] = [e \in Employees |-> NoSeat]]
        /\ excused' = excused \cup Riders(b)
        /\ SameStaff
        /\ UNCHANGED <<office, month, approved, sealed, seatedTwice, squeezed, swept>>
  BY DEF DeleteBus
<1>2. /\ bus \in [Buses -> BusRow] /\ seat \in [Buses -> [Employees -> SeatRow]]
      /\ month \in Nat
  BY EmploymentAssumption DEF EmploymentInvariant, BusInvariant, BusesAreTyped
<1>3. NoBus \in BusRow /\ ~NoBus.there
  BY DEF NoBus, BusRow
<1>4. NoSeat \in SeatRow /\ NoSeat.state # "active" /\ NoSeat.ended = Never
  BY EmploymentAssumption DEF NoSeat, SeatRow, StaffMonths, Never
<1>5. /\ bus' \in [Buses -> BusRow] /\ ~bus'[b].there
      /\ \A c \in Buses \ {b} : bus'[c] = bus[c]
  BY <1>1, <1>2, <1>3
<1>6. /\ seat' \in [Buses -> [Employees -> SeatRow]]
      /\ \A e \in Employees : seat'[b][e] = NoSeat
      /\ \A c \in Buses \ {b} : seat'[c] = seat[c]
  BY <1>1, <1>2, <1>4
<1>7. Riders(b)' = {} /\ \A c \in Buses \ {b} : Riders(c)' = Riders(c)
  BY <1>4, <1>6 DEF Riders
<1>8. office' \in [Desks -> Errand] /\ ErrandsAreSane'
  <2>1. \A q \in Desks : Carried(q, "seat", {}, {})
    BY <1>1 DEF Carried
  <2>2. BusChange("seat", {}, {}) /\ StaffChange("seat", {}, {})
    BY <1>1, <1>5, <1>7, StaffDoesNotChange DEF BusChange, SameStaff
  <2>3. month' \in Nat /\ month <= month' /\ DOMAIN archive \subseteq DOMAIN archive'
    BY <1>1, <1>2 DEF SameStaff
  <2>4. StaffIsTyped /\ BusesAreTyped /\ ErrandsAreSane
    BY DEF EmploymentInvariant, StaffInvariant, BusInvariant
  <2>5. ErrandsAreSane'
    BY <2>1, <2>2, <2>3, <2>4, ErrandsStaySane
  <2> QED
    BY <1>1, <2>4, <2>5 DEF StaffIsTyped
<1>9. StaffInvariant'
  BY <1>1, <1>8, StaffStays DEF EmploymentInvariant, SameStaff
<1>10. BusesAreTyped'
  BY <1>1, <1>5, <1>6 DEF EmploymentInvariant, BusInvariant, BusesAreTyped
<1>11. SeatsWithinCapacity'
  BY <1>1, <1>5, <1>7 DEF EmploymentInvariant, BusInvariant, SeatsWithinCapacity
<1>12. OneBusEach'
  BY <1>1, <1>7 DEF EmploymentInvariant, BusInvariant, OneBusEach
<1>13. ApprovedSeatsStay'
  <2>1. ASSUME approved', NEW s \in Buses \X Employees, (s \in Subscriptions') # (s \in sealed'),
               s[2] \notin excused'
        PROVE  FALSE
    <3>1. s[1] \in Buses /\ s[2] \in Employees /\ s[2] \notin Riders(b) /\ s[2] \notin excused
      BY <1>1, <2>1
    <3>2. s \in Subscriptions' <=> s \in Subscriptions
      BY <1>7, <2>1, <3>1 DEF Subscriptions
    <3> QED
      BY <1>1, <2>1, <3>1, <3>2 DEF EmploymentInvariant, BusInvariant, ApprovedSeatsStay
  <2> QED
    BY <2>1 DEF ApprovedSeatsStay
<1>14. UNCHANGED <<employee, month, irregular, swept>>
  BY <1>1 DEF SameStaff
<1>15. \A c \in Buses, e \in Employees : seat'[c][e] = seat[c][e] \/ seat'[c][e].ended = Never
  BY <1>4, <1>6
<1>16. month # Never /\ Never <= month
  BY <1>2 DEF EmploymentInvariant, BusInvariant, BusesAreTyped, Never
<1>17. DatesArePast' /\ SeatsEndWithEmployment'
  BY <1>14, <1>15, <1>16 DEF EmploymentInvariant, DatesArePast, SeatsEndWithEmployment, Active
<1> QED
  BY <1>8, <1>9, <1>10, <1>11, <1>12, <1>13, <1>17 DEF EmploymentInvariant, BusInvariant

\* The month is approved, or no longer: the subscriptions are what they are.
LEMMA DecidingTheMonthKeeps ==
  ASSUME EmploymentInvariant, NEW p \in Desks, DecideMonth(p)
  PROVE  EmploymentInvariant'
<1>1. /\ approved' = ~approved /\ sealed' = Subscriptions /\ excused' = {}
      /\ office' = Marks(p, "approved", Employees, Buses)
      /\ SameStaff /\ UNCHANGED <<bus, seat, month, seatedTwice, squeezed, swept>>
  BY DEF DecideMonth
<1>2. StaffInvariant' /\ ErrandsAreSane'
  <2>1. BusChange("approved", Employees, Buses)
    BY <1>1 DEF BusChange, Riders
  <2> QED
    BY <1>1, <2>1, BusStepKeepsStaff DEF MarkNames
<1>3. BusInvariant'
  BY <1>1 DEF EmploymentInvariant, BusInvariant, BusesAreTyped, SeatsWithinCapacity, OneBusEach,
     ApprovedSeatsStay, Subscriptions, Riders
<1> QED
  BY <1>1, <1>2, <1>3, DatesStay DEF EmploymentInvariant, SameStaff

\* Nobody has left, and no seat has ended, in a month that begins.
LEMMA NextMonthKeeps ==
  ASSUME EmploymentInvariant, NextMonth
  PROVE  EmploymentInvariant'
<1>0. month \in 1 .. LastMonth /\ month \in Nat
  BY EmploymentAssumption DEF EmploymentInvariant, BusInvariant, BusesAreTyped
<1>1. /\ month' = month + 1 /\ month' \in 1 .. LastMonth /\ approved' = FALSE
      /\ SameStaff
      /\ UNCHANGED <<bus, seat, office, sealed, seatedTwice, squeezed, swept, excused>>
  BY <1>0, EmploymentAssumption DEF NextMonth
<1>2. office' \in [Desks -> Errand] /\ ErrandsAreSane'
  <2>1. \A q \in Desks : Carried(q, "seat", {}, {})
    BY <1>1 DEF Carried
  <2>2. BusChange("seat", {}, {}) /\ StaffChange("seat", {}, {})
    BY <1>1, StaffDoesNotChange DEF BusChange, SameStaff, Riders
  <2>3. month' \in Nat /\ month <= month' /\ DOMAIN archive \subseteq DOMAIN archive'
    BY <1>0, <1>1 DEF SameStaff
  <2>4. StaffIsTyped /\ BusesAreTyped /\ ErrandsAreSane
    BY DEF EmploymentInvariant, StaffInvariant, BusInvariant
  <2>5. ErrandsAreSane'
    BY <2>1, <2>2, <2>3, <2>4, ErrandsStaySane
  <2> QED
    BY <1>1, <2>4, <2>5 DEF StaffIsTyped
<1>3. StaffInvariant'
  BY <1>1, <1>2, StaffStays DEF EmploymentInvariant, SameStaff
<1>4. BusInvariant'
  BY <1>1 DEF EmploymentInvariant, BusInvariant, BusesAreTyped, SeatsWithinCapacity, OneBusEach,
     ApprovedSeatsStay, Riders
<1>5. /\ \A e \in Employees : employee[e].left \in Int
      /\ \A b \in Buses, e \in Employees : seat[b][e].ended \in Int
  <2>1. \A e \in Employees : employee[e] \in EmployeeRow
    BY DEF EmploymentInvariant, StaffInvariant, StaffIsTyped
  <2>2. \A b \in Buses, e \in Employees : seat[b][e] \in SeatRow
    BY DEF EmploymentInvariant, BusInvariant, BusesAreTyped
  <2> QED
    BY <2>1, <2>2, EmploymentAssumption DEF EmployeeRow, SeatRow, StaffMonths
<1>6. UNCHANGED <<employee, seat, irregular, swept>>
  BY <1>1 DEF SameStaff
<1>7. DatesArePast'
  BY <1>0, <1>1, <1>5, <1>6 DEF EmploymentInvariant, DatesArePast, Active
<1>8. SeatsEndWithEmployment'
  <2>1. \A b \in Buses, e \in Employees : seat'[b][e].ended # month'
    BY <1>0, <1>1, <1>5, <1>6 DEF EmploymentInvariant, DatesArePast
  <2> QED
    BY <2>1 DEF SeatsEndWithEmployment
<1> QED
  BY <1>2, <1>3, <1>4, <1>7, <1>8 DEF EmploymentInvariant

-----------------------------------------------------------------------------
(* Salaries *)

\* bulkRaise reads the records of all who are employed.
LEMMA ReadingForRaisesKeepsSalaries ==
  ASSUME SalariesInvariant, NEW p \in Desks, NEW E \in SUBSET Employees, ReadForRaise(p, E)
  PROVE  SalariesInvariant'
<1> DEFINE paid == {f \in E : pay[f].there}
           next == [Blank EXCEPT !.op = "raise", !.who = paid, !.read = pay]
<1>1. /\ next \in Sheet /\ next.op = "raise" /\ next.who = paid /\ next.read = pay
      /\ next.stale = {}
  <2>1. pay \in Readings /\ paid \in SUBSET Employees /\ Blank \in Sheet /\ Blank.stale = {}
    BY BlankIsSheet DEF SalariesInvariant, RowsAreTyped, Readings
  <2> HIDE DEF paid
  <2> QED
    BY <2>1 DEF Sheet
<1>2. Looks(p, next) /\ InRecords
  BY DEF ReadForRaise
<1> HIDE DEF next
<1>3. Sane(next)
  BY <1>1 DEF Sane, SalariesInvariant, RowsAreTyped
<1> QED
  BY <1>1, <1>2, <1>3, LookingKeepsTheInvariant

\* A fresh start leaves an employee's pay in question, and whatever was read of it stale.
LEMMA StartingFreshKeepsSalaries ==
  ASSUME SalariesInvariant, NEW p \in Desks, NEW e \in Employees, StartFresh(p, e)
  PROVE  SalariesInvariant'
<1>0. /\ pay' = [pay EXCEPT ![e] = NoRecord] /\ due' = [due EXCEPT ![e] = 0]
      /\ questioned' = questioned \cup {e}
      /\ UNCHANGED <<mirror, bin, split>>
  BY DEF StartFresh
<1>1. RowsAreTyped'
  BY <1>0, BlankIsSheet DEF SalariesInvariant, RowsAreTyped
<1>2. /\ ~pay'[e].there
      /\ \A f \in Employees \ {e} : pay'[f] = pay[f] /\ mirror'[f] = mirror[f] /\ due'[f] = due[f]
  BY <1>0, BlankIsSheet DEF SalariesInvariant, RowsAreTyped
<1>3. ASSUME NEW q \in Desks
      PROVE  /\ sheet'[q] \in Sheet /\ sheet'[q].stale \subseteq sheet'[q].who
             /\ sheet'[q].op = sheet[q].op /\ sheet'[q].who = sheet[q].who
             /\ Sane(sheet[q])'
  <2> DEFINE r == sheet[q]
             t == sheet'[q]
             S == r.stale \cup ({e} \cap r.who)
  <2>1. r \in Sheet /\ r.stale \subseteq r.who /\ r.who \subseteq Employees /\ Sane(r)
    BY DEF SalariesInvariant, SheetsAreTyped, SheetsAreSane, Sheet
  <2>2. S \in SUBSET Employees /\ t = [r EXCEPT !.stale = S]
    BY <2>1 DEF StartFresh
  <2> HIDE DEF S
  <2>3. /\ t \in Sheet /\ t.stale = S
        /\ t.op = r.op /\ t.who = r.who /\ t.read = r.read /\ t.amount = r.amount
    BY <2>1, <2>2, StaleIsSheet
  <2>4. S \subseteq r.who
        /\ \A f \in r.who \ S : f \in r.who \ r.stale /\ pay'[f] = pay[f] /\ mirror'[f] = mirror[f]
    BY <1>2, <2>1 DEF S
  <2> HIDE DEF r, t
  <2>5. /\ t.op = "mirror" => /\ \E f \in Employees : t.who = {f}
                              /\ \A f \in t.who \ t.stale : pay'[f] = Paying(t.amount)
        /\ t.op \in {"bin", "raise"} => t.read \in [Employees -> Record]
        /\ t.op = "raise" => \A f \in t.who \ t.stale : pay'[f] = t.read[f]
    BY <2>1, <2>3, <2>4 DEF Sane
  <2>6. t.op = "change" =>
          /\ t.read \in [record : Record, column : Nat]
          /\ \A f \in t.who \ t.stale : pay'[f] = t.read.record /\ mirror'[f] = t.read.column
    BY <2>1, <2>3, <2>4 DEF Sane
  <2>7. /\ t.op \in {"return", "purge"} => t.amount \in DOMAIN bin'
        /\ t.op = "return" => t.who = {bin'[t.amount].who}
    BY <1>0, <2>1, <2>3 DEF Sane
  <2>8. Sane(sheet[q])'
    BY <2>5, <2>6, <2>7 DEF Sane, t, Record, Paying
  <2> QED
    BY <2>3, <2>4, <2>8 DEF r, t
<1>4. SheetsAreTyped' /\ SheetsAreSane'
  <2>1. sheet' \in [Desks -> Sheet]
    BY <1>3 DEF StartFresh
  <2> QED
    BY <1>3, <2>1 DEF SheetsAreTyped, SheetsAreSane
<1>5. \A f \in Employees : MirrorMayLag(f)' <=> MirrorMayLag(f)
  BY <1>0, <1>3 DEF MirrorMayLag, HalfSaved
<1>6. SalariesAddUp'
  BY <1>0, <1>2, <1>5
     DEF SalariesInvariant, SalariesAddUp, MirrorFollowsRecord, PayIsWhatIsDue, Resolved
<1> QED
  BY <1>1, <1>4, <1>6 DEF SalariesInvariant

\* Of what happens to employees, salaries notice no more than that.
LEMMA EmploymentKeepsSalaries ==
  ASSUME EmploymentInvariant, SalariesInvariant, EmploymentNext
  PROVE  SalariesInvariant'
<1>1. CASE UNCHANGED salaryVars
  BY <1>1, StepsKeepTheInvariant
<1>2. CASE SalariesNext
  BY <1>2, StepsKeepTheInvariant
<1>3. ASSUME NEW p \in Desks, RaiseAll(p) PROVE SalariesInvariant'
  <2>1. {e \in Employees : Active(e)} \in SUBSET Employees
    OBVIOUS
  <2> QED
    BY <1>3, <2>1, ReadingForRaisesKeepsSalaries DEF RaiseAll
<1>4. ASSUME NEW p \in Desks, Rehire(p) PROVE SalariesInvariant'
  <2>1. office[p].who \subseteq Employees
    BY AboutOneEmployee
  <2>2. PICK e \in office[p].who : StartFresh(p, e) \/ UNCHANGED salaryVars
    BY <1>4 DEF Rehire
  <2> QED
    BY <1>1, <2>1, <2>2, StartingFreshKeepsSalaries
<1>5. NextMonth => UNCHANGED salaryVars
  BY DEF NextMonth, SameStaff
<1>6. ASSUME NEW p \in Desks PROVE StartStaff(p) => UNCHANGED salaryVars
  BY DEF StartStaff, TerminateSimply, ReadForTermination, ReadForDepartment, ReadForArchive,
     Settle, ReadForSettlement, ReadForRehire, ReadForReinstatement, OnlyAsked
<1>7. ASSUME NEW p \in Desks PROVE StartBus(p) => UNCHANGED salaryVars
  BY DEF StartBus, ReadForSeat, ReadForLeavingBus, UpdateBus, DeleteBus, DecideMonth, SameStaff,
     OnlyAsked
<1>8. ASSUME NEW p \in Desks PROVE ContinueOffice(p) => Rehire(p) \/ UNCHANGED salaryVars
  BY DEF ContinueOffice, TerminateEmployee, TerminateDepartment, ArchiveEmployee,
     CompleteSettlement, Reinstate, TakeSeat, LeaveBus, AbandonOffice, SameStaff, OnlyAsked
<1> QED
  BY <1>1, <1>2, <1>3, <1>4, <1>5, <1>6, <1>7, <1>8 DEF EmploymentNext

-----------------------------------------------------------------------------
(* The theorems *)

\* A factory with buses and staff, and nothing asked yet.
LEMMA EmploymentStarts == EmploymentInit => EmploymentInvariant
<1> SUFFICES ASSUME EmploymentInit PROVE EmploymentInvariant
  OBVIOUS
<1>0. /\ bus \in [Buses -> [there : {TRUE}, active : {TRUE}, capacity : Capacities]]
      /\ archive = << >> /\ month = 1 /\ approved = FALSE
      /\ office = [p \in Desks |-> Unoccupied] /\ paidOut = [e \in Employees |-> 0]
      /\ irregular = {} /\ employee = [e \in Employees |-> Hired]
      /\ seat = [b \in Buses |-> [e \in Employees |-> NoSeat]]
  BY DEF EmploymentInit, OfficeOpens
<1>1. /\ Hired \in EmployeeRow /\ Hired.active /\ Hired.left = Never /\ ~Hired.settled
      /\ NoSeat \in SeatRow /\ NoSeat.state # "active" /\ NoSeat.ended = Never
      /\ Never \in Nat
  <2>1. Never \in StaffMonths /\ Never \in Nat
    BY EmploymentAssumption DEF StaffMonths, Never
  <2> QED
    BY <2>1 DEF Hired, EmployeeRow, NoSeat, SeatRow
<1>2. \A e \in Employees : Active(e) /\ employee[e].left = Never /\ paidOut[e] = 0
  BY <1>0, <1>1 DEF Active
<1>3. StaffInvariant
  BY <1>0, <1>1, <1>2, NobodyIsAsked DEF StaffInvariant, StaffIsTyped, EmployedAreNotPaidOut,
     SettledOnce, LeaversArePaid, OnPayroll
<1>4. \A b \in Buses : bus[b] \in BusRow /\ bus[b].capacity \in Nat
  BY <1>0, EmploymentAssumption DEF BusRow
<1>5. \A b \in Buses : Riders(b) = {} /\ Cardinality(Riders(b)) = 0
  <2>1. \A b \in Buses : Riders(b) = {}
    BY <1>0, <1>1 DEF Riders
  <2> QED
    BY <2>1, FS_EmptySet
<1>6. BusesAreTyped
  <2>1. bus \in [Buses -> BusRow]
    BY <1>0, <1>4
  <2>2. seat \in [Buses -> [Employees -> SeatRow]]
    BY <1>0, <1>1
  <2>3. month \in 1 .. LastMonth
    BY <1>0, EmploymentAssumption
  <2>4. approved \in BOOLEAN
    BY <1>0
  <2> QED
    BY <2>1, <2>2, <2>3, <2>4 DEF BusesAreTyped
<1>7. SeatsWithinCapacity /\ OneBusEach /\ ApprovedSeatsStay
  BY <1>0, <1>4, <1>5 DEF SeatsWithinCapacity, OneBusEach, ApprovedSeatsStay
<1>8. DatesArePast /\ SeatsEndWithEmployment
  BY <1>0, <1>1, <1>2 DEF DatesArePast, SeatsEndWithEmployment, Never
<1>9. ErrandsAreSane
  <2>1. \A p \in Desks : office[p].op = "none"
    BY <1>0, NobodyIsAsked
  <2> QED
    BY <2>1 DEF ErrandsAreSane, StaffErrandIsSane, BusErrandIsSane
<1> QED
  BY <1>3, <1>6, <1>7, <1>8, <1>9 DEF EmploymentInvariant, BusInvariant

\* Nobody about the staff and the buses is told when only salaries change.
LEMMA EmploymentStays ==
  ASSUME EmploymentInvariant, UNCHANGED employmentVars
  PROVE  EmploymentInvariant'
BY DEF employmentVars, EmploymentInvariant, StaffInvariant, StaffIsTyped, EmployedAreNotPaidOut,
   SettledOnce, LeaversArePaid, OnPayroll, BusInvariant, BusesAreTyped, SeatsWithinCapacity,
   OneBusEach, ApprovedSeatsStay, Subscriptions, Riders, DatesArePast, SeatsEndWithEmployment,
   ErrandsAreSane, StaffErrandIsSane, BusErrandIsSane, Active

\* Every step keeps the invariant.
LEMMA EmploymentSteps ==
  ASSUME EmploymentInvariant, EmploymentNext
  PROVE  EmploymentInvariant'
<1>1. ASSUME NEW p \in Desks, StartStaff(p) PROVE EmploymentInvariant'
  BY <1>1, TerminationsKeep, ReadingAboutStaffKeeps, SettlingKeeps DEF StartStaff
<1>2. ASSUME NEW p \in Desks, StartBus(p) PROVE EmploymentInvariant'
  BY <1>2, ReadingAboutBusesKeeps, UpdatingABusKeeps, DeletingABusKeeps, DecidingTheMonthKeeps
     DEF StartBus
<1>3. ASSUME NEW p \in Desks, ContinueOffice(p) PROVE EmploymentInvariant'
  BY <1>3, TerminationsKeep, ArchivingKeeps, SettlingKeeps, ComingBackKeeps, TakingASeatKeeps,
     LeavingABusKeeps, AbandoningKeeps DEF ContinueOffice
<1>4. CASE NextMonth
  BY <1>4, NextMonthKeeps
<1>5. CASE UNCHANGED employmentVars
  BY <1>5, EmploymentStays
<1> QED
  BY <1>1, <1>2, <1>3, <1>4, <1>5 DEF EmploymentNext, RaiseAll

\* What the invariant says of the staff and the buses.
LEMMA InvariantAddsUp == EmploymentInvariant => EmploymentAddsUp
<1> SUFFICES ASSUME EmploymentInvariant PROVE EmploymentAddsUp
  OBVIOUS
<1>1. OneSeatEach
  <2>1. ASSUME NEW e \in Employees \ seatedTwice
        PROVE  Cardinality({b \in Buses : e \in Riders(b)}) <= 1
    <3> DEFINE B == {b \in Buses : e \in Riders(b)}
    <3>1. CASE B = {}
      BY <3>1, FS_EmptySet
    <3>2. CASE B # {}
      <4>1. PICK b \in B : TRUE
        BY <3>2
      <4>2. B = {b}
        BY <4>1 DEF EmploymentInvariant, BusInvariant, OneBusEach
      <4> HIDE DEF B
      <4>3. Cardinality({b}) = 1
        BY FS_Singleton
      <4> QED
        BY <4>2, <4>3 DEF B
    <3> QED
      BY <3>1, <3>2
  <2> QED
    BY <2>1 DEF OneSeatEach
<1>2. ChargedWhileEmployed
  BY DEF EmploymentInvariant, SeatsEndWithEmployment, ChargedWhileEmployed, MayBeCharged, Active
<1> QED
  BY <1>1, <1>2 DEF EmploymentInvariant, StaffInvariant, BusInvariant, EmploymentAddsUp

\* The inductive invariants of the staff and of its salaries.
THEOREM EmploymentIsSound == EmploymentSpec => [](EmploymentInvariant /\ SalariesInvariant)
<1>1. EmploymentInit /\ SalariesInit => EmploymentInvariant /\ SalariesInvariant
  BY EmploymentStarts, SalariesStart
<1>2. EmploymentInvariant /\ SalariesInvariant /\ [EmploymentNext]_<<employmentVars, salaryVars>>
        => EmploymentInvariant' /\ SalariesInvariant'
  <2> SUFFICES ASSUME EmploymentInvariant, SalariesInvariant,
                      [EmploymentNext]_<<employmentVars, salaryVars>>
               PROVE  EmploymentInvariant' /\ SalariesInvariant'
    OBVIOUS
  <2>1. CASE EmploymentNext
    BY <2>1, EmploymentSteps, EmploymentKeepsSalaries
  <2>2. CASE UNCHANGED <<employmentVars, salaryVars>>
    BY <2>2, EmploymentStays, StepsKeepTheInvariant
  <2> QED
    BY <2>1, <2>2
<1> QED
  BY <1>1, <1>2, PTL DEF EmploymentSpec

\* Whatever terminations, archiving, settlements, returns, seats, buses and approvals overlap,
\* what employees are paid, charged and given adds up, with the exceptions the property names.
THEOREM StaffAlwaysAddsUp == EmploymentSpec => []StaffAddsUp
<1>1. EmploymentInvariant /\ SalariesInvariant => StaffAddsUp
  BY InvariantAddsUp DEF SalariesInvariant, StaffAddsUp
<1> QED
  BY <1>1, EmploymentIsSound, PTL

-----------------------------------------------------------------------------
(* Attendance *)

-----------------------------------------------------------------------------
(* Daily logs *)

\* The image of a finite set is finite.
LEMMA ImageIsFinite ==
  ASSUME NEW S, IsFiniteSet(S), NEW f
  PROVE  IsFiniteSet({f[x] : x \in S})
<1> DEFINE T == {f[x] : x \in S}
           g == [x \in S |-> f[x]]
<1>1. g \in [S -> T] /\ \A y \in T : \E x \in S : g[x] = y
  OBVIOUS
<1>2. g \in Surjection(S, T)
  BY <1>1 DEF Surjection
<1> HIDE DEF g, T
<1>3. IsFiniteSet(T)
  BY <1>2, FS_Surjection
<1> QED
  BY <1>3 DEF T

\* Of finitely many integers one is the largest.
LEMMA LargestExists ==
  ASSUME NEW S, IsFiniteSet(S), S # {}, S \subseteq Int
  PROVE  \E x \in S : \A y \in S : x >= y
<1> DEFINE Topless(t) == t # {} /\ \A x \in t : \E y \in t : ~(x >= y)
           T == {t \in SUBSET S : Topless(t)}
<1> SUFFICES ASSUME Topless(S) PROVE FALSE
  OBVIOUS
<1>0. IsFiniteSet(S)
  OBVIOUS
<1>1. T # {} /\ T \subseteq SUBSET S
  OBVIOUS
<1>2. PICK t \in T : \A u \in T : u \subseteq t => u = t
  <2> HIDE DEF T
  <2> QED
    BY ONLY <1>0, <1>1, SmallestSubset
<1>3. PICK x \in t : TRUE
  BY <1>2
<1>4. t \ {x} \notin T
  BY <1>2, <1>3
<1>5. t \ {x} \subseteq S
  BY <1>2
<1>6. CASE t \ {x} = {}
  BY <1>2, <1>3, <1>6
<1>7. CASE t \ {x} # {}
  <2>1. PICK y \in t \ {x} : \A z \in t \ {x} : y >= z
    BY <1>4, <1>5, <1>7
  <2>2. x \in Int /\ y \in Int /\ \A z \in t : z \in Int
    BY <1>2, <1>3, <2>1
  <2>3. CASE y >= x
    BY <1>2, <2>1, <2>2, <2>3
  <2>4. CASE ~(y >= x)
    <3>1. \A z \in t : x >= z
      BY <2>1, <2>2, <2>4
    <3> QED
      BY <1>2, <1>3, <3>1
  <2> QED
    BY <2>3, <2>4
<1> QED
  BY <1>6, <1>7

\* Of finitely many punches one is the first.
LEMMA EarliestExists ==
  ASSUME NEW S, IsFiniteSet(S), S # {}, \A p \in S : p.at \in Nat
  PROVE  \E p \in S : \A q \in S : p.at <= q.at
<1> DEFINE A == {-p.at : p \in S}
<1>1. IsFiniteSet(A)
  <2> DEFINE f == [p \in S |-> -p.at]
  <2>1. A = {f[p] : p \in S}
    OBVIOUS
  <2> HIDE DEF f, A
  <2> QED
    BY <2>1, ImageIsFinite
<1>2. A # {} /\ A \subseteq Int
  OBVIOUS
<1>3. PICK x \in A : \A y \in A : x >= y
  BY ONLY <1>1, <1>2, LargestExists
<1>4. PICK p \in S : x = -p.at
  BY <1>3
<1>5. \A q \in S : -p.at >= -q.at
  BY <1>3, <1>4
<1> QED
  BY <1>5

\* The slots of a shift.
LEMMA ShiftIsTyped ==
  /\ Slots \in Nat \ {0} /\ Start \in Nat /\ Grace \in Nat
  /\ EndEff \in Nat /\ EndEff > Start /\ Required \in Nat /\ Required = EndEff - Start
  /\ Covered.from \in Nat /\ Covered.to \in Nat /\ Covered.from <= Covered.to
<1>1. /\ Slots \in Nat \ {0} /\ Grace \in Nat
      /\ Start \in 0 .. Slots - 1 /\ End \in 0 .. Slots - 1
      /\ Covered.from \in 0 .. Slots - 1 /\ Covered.to \in Covered.from .. Slots - 1
  BY ShiftAssumption
<1> QED
  BY <1>1 DEF EndEff, Required, IsNightShift

\* A punch is in a slot.
LEMMA LocalIsNat == ASSUME NEW p, p.at \in Nat PROVE Local(p) \in Nat
BY ShiftIsTyped DEF Local

\* The pairs of finitely many punches are finitely many, and their slots integers.
LEMMA PairsAreTyped ==
  ASSUME NEW punches, IsFiniteSet(punches), \A p \in punches : p.at \in Nat
  PROVE  /\ IsFiniteSet(Pairs(punches))
         /\ \A q \in Pairs(punches) : InShift(q) \in Nat /\ AfterShift(q) \in Int
<1> DEFINE moves == {p \in punches : p.type \in {"IN", "OUT"}}
<1>1. IsFiniteSet(moves)
  BY FS_Subset
<1>2. IsFiniteSet(moves \X moves)
  BY <1>1, FS_Product
<1>3. Pairs(punches) \subseteq moves \X moves
  BY DEF Pairs
<1>4. IsFiniteSet(Pairs(punches))
  BY <1>2, <1>3, FS_Subset
<1>5. ASSUME NEW q \in Pairs(punches) PROVE InShift(q) \in Nat /\ AfterShift(q) \in Int
  <2>1. q[1] \in punches /\ q[2] \in punches
    BY <1>3
  <2>2. Local(q[1]) \in Nat /\ Local(q[2]) \in Nat
    BY <2>1, LocalIsNat
  <2>3. Departure(q[2]) \in Nat
    BY <2>2, ShiftIsTyped DEF Departure
  <2> QED
    BY <2>2, <2>3, ShiftIsTyped DEF InShift, AfterShift, AtLeast0, Earlier, Later
<1> QED
  BY <1>4, <1>5

\* The hours that count for a day without pairs.
LEMMA MostHours ==
  ASSUME NEW punches, IsFiniteSet(punches), \A p \in punches : p.hours \in Int
  PROVE  /\ Max({0} \cup {p.hours : p \in punches}) \in Int
         /\ Max({0} \cup {p.hours : p \in punches}) >= 0
<1> DEFINE H == {p.hours : p \in punches}
           S == {0} \cup H
<1>1. IsFiniteSet(H)
  <2> DEFINE f == [p \in punches |-> p.hours]
  <2>1. H = {f[p] : p \in punches}
    OBVIOUS
  <2> HIDE DEF f, H
  <2> QED
    BY <2>1, ImageIsFinite
<1>2. H \subseteq Int
  OBVIOUS
<1> HIDE DEF H
<1>3. IsFiniteSet(S)
  BY <1>1, FS_Singleton, FS_Union
<1>4. 0 \in S /\ S # {} /\ S \subseteq Int
  BY <1>2
<1> HIDE DEF S
<1>5. \E x \in S : \A y \in S : x >= y
  BY <1>3, <1>4, LargestExists
<1>6. Max(S) \in S /\ Max(S) >= 0
  BY <1>4, <1>5 DEF Max
<1>7. Max(S) \in Int /\ Max(S) >= 0
  BY <1>4, <1>6
<1> QED
  BY <1>7 DEF S, H

\* What was worked is a number of slots.
LEMMA WorkedIsInt ==
  ASSUME NEW punches, IsFiniteSet(punches),
         \A p \in punches : p.at \in Nat /\ p.hours \in Int
  PROVE  Worked(punches) \in Int /\ Overtime(punches) \in Nat
<1>1. /\ IsFiniteSet(Pairs(punches))
      /\ \A q \in Pairs(punches) : InShift(q) \in Nat /\ AfterShift(q) \in Int
  BY PairsAreTyped
<1>2. SumFunctionOnSet([q \in Pairs(punches) |-> InShift(q)], Pairs(punches)) \in Int
  <2> DEFINE f == [q \in Pairs(punches) |-> InShift(q)]
  <2>1. \A q \in Pairs(punches) : f[q] \in Int
    BY <1>1
  <2> HIDE DEF f
  <2>2. SumFunctionOnSet(f, Pairs(punches)) \in Int
    BY <1>1, <2>1, SumIsInt
  <2> QED
    BY <2>2 DEF f
<1>3. SumFunctionOnSet([q \in Pairs(punches) |-> AfterShift(q)], Pairs(punches)) \in Int
  <2> DEFINE f == [q \in Pairs(punches) |-> AfterShift(q)]
  <2>1. \A q \in Pairs(punches) : f[q] \in Int
    BY <1>1
  <2> HIDE DEF f
  <2>2. SumFunctionOnSet(f, Pairs(punches)) \in Int
    BY <1>1, <2>1, SumIsInt
  <2> QED
    BY <2>2 DEF f
<1>4. Max({0} \cup {p.hours : p \in punches}) \in Int
  BY MostHours
<1>5. Worked(punches) \in Int
  BY <1>2, <1>4, ShiftIsTyped DEF Worked, Earlier
<1>6. Overtime(punches) \in Nat
  BY <1>3 DEF Overtime, AtLeast0
<1> QED
  BY <1>5, <1>6

\* Lateness is the distance from a start to the first arrival, if that is after it.
LEMMA LateIsNat ==
  ASSUME NEW punches, IsFiniteSet(punches), \A p \in punches : p.at \in Nat,
         NEW start \in Nat
  PROVE  /\ Late(punches, start) \in Nat
         /\ LET ins == {p \in punches : p.type = "IN"}
            IN  (\A p \in ins : (\A q \in ins : p.at <= q.at) => Local(p) < EndEff)
                  => Late(punches, start) <= AtLeast0(EndEff - start)
<1> DEFINE ins == {p \in punches : p.type = "IN"}
           first == CHOOSE p \in ins : \A q \in ins : p.at <= q.at
<1>1. CASE ins = {}
  BY <1>1, ShiftIsTyped DEF Late, AtLeast0
<1>2. CASE ins # {}
  <2>1. IsFiniteSet(ins)
    BY FS_Subset
  <2>2. \E p \in ins : \A q \in ins : p.at <= q.at
    BY <1>2, <2>1, EarliestExists
  <2>3. first \in ins /\ \A q \in ins : first.at <= q.at
    BY <2>2
  <2>4. Local(first) \in Nat
    BY <2>3, LocalIsNat
  <2>5. Late(punches, start) = 0 \/ Late(punches, start) = AtLeast0(Local(first) - start)
    BY DEF Late
  <2> HIDE DEF first
  <2>6. Late(punches, start) \in Nat
    BY <2>4, <2>5 DEF AtLeast0
  <2>7. ASSUME \A p \in ins : (\A q \in ins : p.at <= q.at) => Local(p) < EndEff
        PROVE  Late(punches, start) <= AtLeast0(EndEff - start)
    <3>1. Local(first) < EndEff
      BY <2>3, <2>7
    <3> QED
      BY <3>1, <2>4, <2>5, ShiftIsTyped DEF AtLeast0
  <2> QED
    BY <2>6, <2>7
<1> QED
  BY <1>1, <1>2

\* The shift is expected to begin at its start or when the leave is over.
LEMMA ExpectedFromIsNat ==
  ASSUME NEW hourly
  PROVE  ExpectedFrom(hourly) \in Nat /\ ExpectedFrom(hourly) >= Start
BY ShiftIsTyped DEF ExpectedFrom, Later

\* The logs of a day are numbers of slots.
LEMMA LogsAreTyped ==
  ASSUME NEW punches, IsFiniteSet(punches),
         \A p \in punches : p.at \in Nat /\ p.hours \in Int, NEW hourly
  PROVE  LogsOf(punches, hourly) \in [LogTypes -> Nat]
<1> DEFINE l == LogsOf(punches, hourly)
<1>1. Worked(punches) \in Int /\ Overtime(punches) \in Nat
  BY WorkedIsInt
<1>2. LogTypes = {"delay", "missing", "leave", "overtime"}
  BY DEF LogTypes, Unlogged
<1>3. l.delay \in Nat /\ l.missing \in Nat /\ l.leave \in Nat /\ l.overtime \in Nat
  <2>1. ExpectedFrom(hourly) \in Nat /\ Late(punches, ExpectedFrom(hourly)) \in Nat
    BY ExpectedFromIsNat, LateIsNat
  <2>2. l.delay \in Nat
    BY <2>1, ShiftIsTyped DEF LogsOf, AtLeast0
  <2>3. l.leave \in Nat
    BY ShiftIsTyped DEF LogsOf
  <2>4. l.overtime \in Nat
    BY <1>1 DEF LogsOf
  <2>5. l.missing \in Nat
    BY <1>1, <2>1, ShiftIsTyped DEF LogsOf, AtLeast0, MissingAfter, Forgiven, Earlier
  <2> QED
    BY <2>2, <2>3, <2>4, <2>5
<1>4. l = [delay |-> l.delay, missing |-> l.missing, leave |-> l.leave, overtime |-> l.overtime]
  BY DEF LogsOf
<1> HIDE DEF l
<1>5. l \in [LogTypes -> Nat]
  BY <1>2, <1>3, <1>4
<1> QED
  BY <1>5 DEF l

\* Whatever was punched, no slot is charged as late and as missing, or as missing and
\* forgiven.
LEMMA ChargedOnce ==
  ASSUME NEW punches, IsFiniteSet(punches),
         \A p \in punches : p.at \in Nat /\ p.hours \in Int, NEW hourly
  PROVE  NothingIsChargedTwice(punches, hourly)
<1> DEFINE logs0 == LogsOf(punches, hourly)
           start == ExpectedFrom(hourly)
           late == Late(punches, start)
           worked == Worked(punches)
           unworked == AtLeast0(Required - worked)
           charged == logs0.delay + logs0.missing + Forgiven(late)
           ins == {p \in punches : p.type = "IN"}
<1>1. worked \in Int
  BY WorkedIsInt
<1>2. start \in Nat /\ start >= Start
  BY ExpectedFromIsNat
<1>3. late \in Nat
  BY <1>2, LateIsNat
<1>4. (\A p \in ins : (\A q \in ins : p.at <= q.at) => Local(p) < EndEff)
        => late <= AtLeast0(EndEff - start)
  BY <1>2, LateIsNat
<1>5. \E leave \in Nat :
        /\ logs0.delay = AtLeast0(AtLeast0(late - Grace) - (start - Start))
        /\ logs0.missing = AtLeast0(MissingAfter(unworked, logs0.delay, Forgiven(late)) - leave)
  BY ShiftIsTyped DEF LogsOf
<1> HIDE DEF logs0, start, late, worked, ins
<1>6. logs0.delay \in Nat /\ Forgiven(late) \in Nat /\ logs0.delay + Forgiven(late) <= late
  BY <1>2, <1>3, <1>5, ShiftIsTyped DEF AtLeast0, Forgiven, Earlier
<1>7. unworked \in Nat /\ (worked >= 0 => unworked <= Required)
  BY <1>1, ShiftIsTyped DEF AtLeast0
<1>8. /\ logs0.missing \in Nat
      /\ logs0.missing <= AtLeast0(unworked - logs0.delay - Forgiven(late))
  BY <1>5, <1>6, <1>7 DEF MissingAfter, AtLeast0
<1>9. charged <= Later(late, unworked)
  BY <1>3, <1>6, <1>7, <1>8 DEF AtLeast0, Later
<1>10. worked >= 0
  <2>1. /\ IsFiniteSet(Pairs(punches))
        /\ \A q \in Pairs(punches) : InShift(q) \in Nat /\ AfterShift(q) \in Int
    BY PairsAreTyped
  <2>2. CASE SumFunctionOnSet([q \in Pairs(punches) |-> InShift(q)], Pairs(punches)) > 0
    BY <2>2, <1>1 DEF worked, Worked
  <2>3. CASE ~(SumFunctionOnSet([q \in Pairs(punches) |-> InShift(q)], Pairs(punches)) > 0)
    <3>1. worked = Earlier(Max({0} \cup {p.hours : p \in punches}), Required)
      BY <2>3 DEF worked, Worked
    <3>2. /\ Max({0} \cup {p.hours : p \in punches}) \in Int
          /\ Max({0} \cup {p.hours : p \in punches}) >= 0
      BY MostHours
    <3> QED
      BY <3>1, <3>2, ShiftIsTyped DEF Earlier
  <2> QED
    BY <2>2, <2>3
<1>11. (\A p \in ins : (\A q \in ins : p.at <= q.at) => Local(p) < EndEff) => charged <= Required
  BY <1>2, <1>3, <1>4, <1>6, <1>7, <1>8, <1>9, <1>10, ShiftIsTyped DEF AtLeast0, Later
<1> QED
  BY <1>9, <1>11 DEF NothingIsChargedTwice, logs0, start, late, worked, ins

-----------------------------------------------------------------------------
(* The inductive invariant of punches and their logs *)

\* What a request has read and will write, and a calculation.
ClerkOps ==
  {"none", "create", "bulk", "row", "device", "sync", "resync", "edit", "remove", "restore",
   "leave", "unleave"}
LeaveNow == [row : DayLeaves, now : DayLeave]
Clerk ==
  [op : ClerkOps, at : Punches \cup {NoPunch}, read : PunchRow \cup {NoPunch},
   rows : SUBSET PunchRow, key : Keys \cup {<< >>}, leave : LeaveNow \cup {<< >>}]
IsDayJob(j) ==
  /\ j = [key |-> j.key, no |-> j.no, stage |-> j.stage, rows |-> j.rows,
          hourly |-> j.hourly, kept |-> j.kept]
  /\ j.key \in Keys /\ j.stage \in {"read", "delete", "create"}
  /\ j.rows \subseteq PunchRow /\ IsFiniteSet(j.rows) /\ j.kept \subseteq LogTypes

\* The types of the rows, with the unique key of the punches.
PunchesAreTyped ==
  /\ punch \in [Punches -> PunchRow \cup {NoPunch}]
  /\ trash \in [Punches -> PunchRow \cup {NoPunch}]
  /\ \A x \in Stored : ~Taken(punch[x], {x})
DaysAreTyped ==
  /\ off \in [Keys -> [DayLeaves -> DayLeave]]
  /\ logs \in [Keys -> [LogTypes -> Nat]]
  /\ doubtful \subseteq Keys /\ rushed \subseteq Keys
  /\ \A j \in calcs : IsDayJob(j)
ClerksAreTyped == clerk \in [Clerks -> Clerk]

\* A row of the table that is or was a punch of r's employee
SameWho(r, s) == r # NoPunch /\ s # NoPunch => r.who = s.who
Owned(x, r) ==
  /\ punch[x] # NoPunch \/ trash[x] # NoPunch
  /\ SameWho(punch[x], r) /\ SameWho(trash[x], r)
RowsKeepTheirOwner == \A x \in Punches : SameWho(punch[x], trash[x])

\* What a request has read is what its kind reads.
IsSane(c) ==
  /\ \A r, s \in c.rows : Same(r, s) => r = s
  /\ c.op = "row" => c.at = NoPunch
  /\ c.op \in {"edit", "resync", "remove", "restore"} => c.at \in Punches
  /\ c.op \in {"edit", "resync", "restore"} => \E r \in c.rows : c.rows = {r}
  /\ c.op \in {"edit", "remove", "restore"} => c.read \in PunchRow /\ Owned(c.at, c.read)
  /\ c.op \in {"edit", "restore"} => \A r \in c.rows : r.who = c.read.who
  /\ c.op \in {"leave", "unleave"} =>
       c.key \in Keys /\ c.leave \in LeaveNow /\ c.leave.now.removed = (c.op = "unleave")
ClerksAreSane == \A p \in Clerks : IsSane(clerk[p])

\* What a request has found of a day's leave and punches
Inserting == {"create", "bulk", "row", "device", "sync", "edit", "restore"}
LookHolds(c, k) ==
  /\ c.op = "leave" /\ c.key = k =>
       /\ c.leave.now.kind = "hard" => Of(k) = {}
       /\ c.leave.now.kind # "none" => \A y \in DayLeaves \ {c.leave.row} : ~On(k, y)
  /\ c.op \in Inserting /\ (\E r \in c.rows : Key(r) = k) => ~Hard(k)
\* still holds, unless the day is rushed.
LooksHold == \A p \in Clerks, k \in Keys \ rushed : LookHolds(clerk[p], k)

\* A day that is not rushed has one leave, and no punches if that is a hard one.
OneLeave(k) == \A x, y \in DayLeaves : On(k, x) /\ On(k, y) => x = y
LeaveIsFine(k) == OneLeave(k) /\ (Hard(k) => Of(k) = {})
LeavesAreFine == \A k \in Keys \ rushed : LeaveIsFine(k)

\* A calculation of a day that is not in doubt is the only one of it, and what it has read
\* is so.
ReadsRight(j, k) ==
  /\ j.kept = {}
  /\ j.stage # "read" =>
       /\ ~FullDay(k) /\ Of(k) # {}
       /\ j.rows = RowsOf(k) /\ j.hourly = Hourly(k)
LogsAreDue(k) ==
  /\ \A f \in LogTypes \ {"overtime"} : logs[k][f] = Due(k)[f]
  /\ Due(k).overtime > 0 \/ FullDay(k) \/ Of(k) = {} => logs[k].overtime = Due(k).overtime
DayIsRight(k) ==
  k \notin doubtful =>
    /\ \A i, j \in RunningOn(k) : i = j
    /\ \A j \in RunningOn(k) : ReadsRight(j, k)
    /\ RunningOn(k) = {} => LogsAreDue(k)

AttendanceInvariant ==
  /\ PunchesAreTyped /\ DaysAreTyped /\ ClerksAreTyped
  /\ ClerksAreSane /\ RowsKeepTheirOwner
  /\ LooksHold /\ LeavesAreFine
  /\ \A k \in Keys : DayIsRight(k)

\* Nothing that the logs of a day depend on changes.
Untouched(k) == Of(k)' = Of(k) /\ RowsOf(k)' = RowsOf(k) /\ off'[k] = off[k]

\* The assumptions on instants and rows.
LEMMA AttendanceConstants ==
  /\ Times \subseteq Nat /\ IsFiniteSet(Punches)
  /\ NoPunch \notin Punches /\ NoPunch \notin PunchRow
BY TimesAssumption

\* A punch's fields.
LEMMA PunchRowIsTyped ==
  ASSUME NEW r \in PunchRow
  PROVE  /\ r.who \in Staff /\ r.type \in Types /\ r.at \in Times /\ r.at \in Nat
         /\ r.day \in {Day(at) : at \in Times} /\ r.hours \in Int
         /\ Key(r) \in Keys /\ r # NoPunch
<1>1. /\ r.who \in Staff /\ r.type \in Types /\ r.at \in Times
      /\ r.day \in {Day(at) : at \in Times} /\ r.hours \in Int
  BY DEF PunchRow
<1>2. r.at \in Nat /\ r # NoPunch
  BY <1>1, AttendanceConstants
<1>3. Key(r) \in Keys
  BY <1>1 DEF Key, Keys
<1> QED
  BY <1>1, <1>2, <1>3

\* A row made of fields is a punch.
LEMMA PunchRowIsMade ==
  ASSUME NEW e \in Staff, NEW type \in Types, NEW at \in Times,
         NEW day \in {Day(t) : t \in Times}, NEW hours \in Int
  PROVE  [who |-> e, type |-> type, at |-> at, day |-> day, hours |-> hours] \in PunchRow
BY DEF PunchRow

\* The rows of a day are punches, and finitely many.
LEMMA PunchRowsAreTyped ==
  ASSUME punch \in [Punches -> PunchRow \cup {NoPunch}], NEW k
  PROVE  /\ \A x \in Stored : x \in Punches /\ punch[x] \in PunchRow
         /\ Stored \subseteq Punches /\ IsFiniteSet(Stored)
         /\ Of(k) \subseteq Stored /\ RowsOf(k) \subseteq PunchRow /\ IsFiniteSet(RowsOf(k))
<1>1. \A x \in Stored : x \in Punches /\ punch[x] \in PunchRow
  BY DEF Stored
<1>2. Stored \subseteq Punches /\ IsFiniteSet(Stored)
  BY AttendanceConstants, FS_Subset DEF Stored
<1>3. Of(k) \subseteq Stored /\ IsFiniteSet(Of(k))
  BY <1>2, FS_Subset DEF Of
<1>4. IsFiniteSet({punch[x] : x \in Of(k)})
  BY ONLY <1>3, ImageIsFinite
<1> QED
  BY <1>1, <1>2, <1>3, <1>4 DEF RowsOf

\* The latest and the first of some punches are among them.
LEMMA LatestIsOne ==
  ASSUME punch \in [Punches -> PunchRow \cup {NoPunch}], NEW X, X \subseteq Stored, X # {}
  PROVE  Latest(X) \in X /\ Earliest(X) \in X
<1>1. IsFiniteSet(X) /\ \A x \in X : punch[x].at \in Nat
  BY PunchRowsAreTyped, PunchRowIsTyped, FS_Subset
<1>2. \E x \in X : \A y \in X : punch[y].at <= punch[x].at
  <2> DEFINE f == [x \in X |-> punch[x].at]
             A == {f[x] : x \in X}
  <2>1. IsFiniteSet(A)
    <3> HIDE DEF f
    <3> QED
      BY ONLY <1>1, ImageIsFinite
  <2>2. A # {} /\ A \subseteq Int
    BY <1>1
  <2>3. PICK a \in A : \A b \in A : a >= b
    BY ONLY <2>1, <2>2, LargestExists
  <2>4. PICK x \in X : a = punch[x].at
    BY <2>3
  <2>5. \A y \in X : punch[x].at >= punch[y].at
    BY <2>3, <2>4
  <2>6. \A y \in X : punch[y].at <= punch[x].at
    BY <2>4, <2>5, <1>1
  <2> QED
    BY <2>4, <2>6
<1>3. \E x \in X : \A y \in X : punch[x].at <= punch[y].at
  <2> DEFINE f == [x \in X |-> -punch[x].at]
             A == {f[x] : x \in X}
  <2>1. IsFiniteSet(A)
    <3> HIDE DEF f
    <3> QED
      BY ONLY <1>1, ImageIsFinite
  <2>2. A # {} /\ A \subseteq Int
    BY <1>1
  <2>3. PICK a \in A : \A b \in A : a >= b
    BY ONLY <2>1, <2>2, LargestExists
  <2>4. PICK x \in X : a = -punch[x].at
    BY <2>3
  <2>5. \A y \in X : -punch[x].at >= -punch[y].at
    BY <2>3, <2>4
  <2>6. \A y \in X : punch[x].at <= punch[y].at
    BY <2>4, <2>5, <1>1
  <2> QED
    BY <2>4, <2>6
<1> QED
  BY <1>2, <1>3 DEF Latest, Earliest

\* The day a punch is given is one of the days.
LEMMA DayOfIsADay ==
  ASSUME punch \in [Punches -> PunchRow \cup {NoPunch}], NEW e, NEW type, NEW at \in Times
  PROVE  DayOf(e, type, at) \in {Day(t) : t \in Times}
<1> DEFINE ins == {x \in Stored : punch[x].who = e /\ punch[x].type = "IN" /\ punch[x].at < at}
<1>1. CASE ins # {}
  <2>1. Latest(ins) \in ins
    <3>1. ins \subseteq Stored
      OBVIOUS
    <3> HIDE DEF ins
    <3> QED
      BY <1>1, <3>1, LatestIsOne
  <2>2. punch[Latest(ins)] \in PunchRow
    BY <2>1, PunchRowsAreTyped
  <2>3. punch[Latest(ins)].day \in {Day(t) : t \in Times}
    BY <2>2, PunchRowIsTyped
  <2> QED
    BY <2>3 DEF DayOf
<1>2. CASE ins = {}
  BY <1>2 DEF DayOf
<1> QED
  BY <1>1, <1>2

\* What is said of the leaves of a day stays as long as they do.
LEMMA LeavesStay ==
  ASSUME NEW k, off'[k] = off[k]
  PROVE  /\ \A x : On(k, x)' = On(k, x)
         /\ OffFor(k)' = OffFor(k)
         /\ Hard(k)' = Hard(k) /\ Hourly(k)' = Hourly(k) /\ FullDay(k)' = FullDay(k)
         /\ OneLeave(k)' = OneLeave(k)
<1>1. \A x : On(k, x)' = On(k, x)
  BY DEF On
<1>2. OffFor(k)' = OffFor(k)
  BY <1>1 DEF OffFor
<1>3. OneLeave(k)' = OneLeave(k)
  BY <1>1 DEF OneLeave
<1> QED
  BY <1>1, <1>2, <1>3 DEF Hard, Hourly, FullDay

\* Who finds the one leave of a day to be no hard one has found it right.
LEMMA OneHardLeaveIsRefused ==
  ASSUME NEW k, OneLeave(k), ~Refused(k)
  PROVE  ~Hard(k)
<1> SUFFICES ASSUME Hard(k), "soft" \in OffFor(k) PROVE FALSE
  BY DEF Refused
<1>1. PICK x \in DayLeaves : On(k, x) /\ off[k][x].kind = "hard"
  BY DEF Hard, OffFor
<1>2. PICK y \in DayLeaves : On(k, y) /\ off[k][y].kind = "soft"
  BY DEF OffFor
<1> QED
  BY <1>1, <1>2 DEF OneLeave

\* A day is untouched by punches of other days.
LEMMA OtherPunchesDoNotTouch ==
  ASSUME NEW k, off'[k] = off[k],
         \A x \in Punches :
           \/ punch'[x] = punch[x]
           \/ /\ punch[x] = NoPunch \/ Key(punch[x]) # k
              /\ punch'[x] = NoPunch \/ Key(punch'[x]) # k
  PROVE  Untouched(k)
<1>1. Of(k) = {x \in Punches : punch[x] # NoPunch /\ Key(punch[x]) = k}
  BY DEF Of, Stored
<1>2. Of(k)' = {x \in Punches : punch'[x] # NoPunch /\ Key(punch'[x]) = k}
  BY DEF Of, Stored, Key
<1>3. Of(k)' = Of(k) /\ \A x \in Of(k) : punch'[x] = punch[x]
  BY <1>1, <1>2
<1>4. RowsOf(k)' = RowsOf(k)
  <2>1. RowsOf(k)' = {punch'[x] : x \in Of(k)'}
    BY DEF RowsOf
  <2>2. RowsOf(k) = {punch[x] : x \in Of(k)}
    BY DEF RowsOf
  <2> QED
    BY <1>3, <2>1, <2>2
<1> QED
  BY <1>3, <1>4 DEF Untouched

\* Nothing is due of an untouched day that was not.
LEMMA UntouchedIsDue ==
  ASSUME NEW k, Untouched(k)
  PROVE  /\ FullDay(k)' = FullDay(k) /\ Due(k)' = Due(k)
         /\ logs'[k] = logs[k] => LogsAreDue(k)' = LogsAreDue(k)
         /\ \A j : ReadsRight(j, k)' = ReadsRight(j, k)
<1>1. Of(k)' = Of(k) /\ RowsOf(k)' = RowsOf(k) /\ off'[k] = off[k]
  BY DEF Untouched
<1>2. FullDay(k)' = FullDay(k) /\ Hourly(k)' = Hourly(k)
  BY <1>1, LeavesStay
<1>3. Due(k)' = Due(k)
  BY <1>1, <1>2 DEF Due
<1>4. logs'[k] = logs[k] => LogsAreDue(k)' = LogsAreDue(k)
  BY <1>1, <1>2, <1>3 DEF LogsAreDue
<1>5. ASSUME NEW j PROVE ReadsRight(j, k)' = ReadsRight(j, k)
  BY <1>1, <1>2 DEF ReadsRight
<1> QED
  BY <1>2, <1>3, <1>4, <1>5

\* A day is right as long as it is untouched and its calculations are the same.
LEMMA DayStaysRight ==
  ASSUME NEW k, DayIsRight(k), Untouched(k), logs'[k] = logs[k],
         RunningOn(k)' = RunningOn(k), k \in doubtful => k \in doubtful'
  PROVE  DayIsRight(k)'
<1>1. LogsAreDue(k)' = LogsAreDue(k) /\ \A j : ReadsRight(j, k)' = ReadsRight(j, k)
  BY UntouchedIsDue
<1> QED
  BY <1>1 DEF DayIsRight

\* Days that are left alone are in doubt.
LEMMA LeftAloneKeepsDays ==
  ASSUME NEW K, LeftAlone(K), logs' = logs, \A k \in Keys \ K : Untouched(k),
         \A k \in Keys : DayIsRight(k)
  PROVE  \A k \in Keys : DayIsRight(k)'
<1>1. ASSUME NEW k \in Keys, k \in K PROVE DayIsRight(k)'
  <2>1. k \in doubtful'
    BY <1>1 DEF LeftAlone
  <2> QED
    BY <2>1 DEF DayIsRight
<1>2. ASSUME NEW k \in Keys, k \notin K PROVE DayIsRight(k)'
  <2>1. RunningOn(k)' = RunningOn(k) /\ (k \in doubtful => k \in doubtful')
    BY DEF LeftAlone, RunningOn
  <2> QED
    BY <1>2, <2>1, DayStaysRight
<1> QED
  BY <1>1, <1>2

\* Days that begin to be calculated are calculated by that alone, or in doubt.
LEMMA RecalculateKeepsDays ==
  ASSUME NEW K, NEW D, Recalculate(K, D), logs' = logs,
         \A k \in Keys \ (K \cup D) : Untouched(k),
         \A k \in Keys : DayIsRight(k)
  PROVE  \A k \in Keys : DayIsRight(k)'
<1>1. PICK free : calcs' = calcs \cup {DayJob(k, free) : k \in K}
  BY DEF Recalculate
<1>2. doubtful' = {d \in doubtful : d \notin K \/ RunningOn(d) # {}}
                       \cup {d \in K : RunningOn(d) # {}} \cup D
  BY DEF Recalculate
<1>3. \A k : DayJob(k, free).key = k /\ DayJob(k, free).kept = {} /\ DayJob(k, free).stage = "read"
  BY DEF DayJob
<1>4. ASSUME NEW k \in Keys, k \in D PROVE DayIsRight(k)'
  BY <1>2, <1>4 DEF DayIsRight
<1>5. ASSUME NEW k \in Keys, k \in K PROVE DayIsRight(k)'
  <2> SUFFICES ASSUME k \notin doubtful' PROVE DayIsRight(k)'
    BY DEF DayIsRight
  <2>1. RunningOn(k) = {}
    BY <1>2, <1>5
  <2>2. RunningOn(k)' = {DayJob(k, free)}
    <3>1. \A j \in calcs : j.key # k
      BY <2>1 DEF RunningOn
    <3>2. RunningOn(k)' = {j \in calcs' : j.key = k}
      BY DEF RunningOn
    <3>3. DayJob(k, free) \in calcs'
      BY <1>1, <1>5
    <3>4. \A j \in calcs' : j.key = k => j = DayJob(k, free)
      BY <1>1, <1>3, <3>1
    <3> QED
      BY <1>3, <3>2, <3>3, <3>4
  <2>3. \A j \in RunningOn(k)' : ReadsRight(j, k)'
    BY <1>3, <2>2 DEF ReadsRight
  <2> QED
    BY <2>2, <2>3 DEF DayIsRight
<1>6. ASSUME NEW k \in Keys, k \notin K, k \notin D PROVE DayIsRight(k)'
  <2>1. RunningOn(k)' = RunningOn(k)
    <3>1. \A j \in calcs' : j.key = k => j \in calcs
      BY <1>1, <1>3, <1>6
    <3>2. \A j \in calcs : j \in calcs'
      BY <1>1
    <3> QED
      BY <3>1, <3>2 DEF RunningOn
  <2>2. k \in doubtful => k \in doubtful'
    BY <1>2, <1>6
  <2> QED
    BY <1>6, <2>1, <2>2, DayStaysRight
<1> QED
  BY <1>4, <1>5, <1>6

\* The calculations that begin are calculations of days.
LEMMA RecalculateIsTyped ==
  ASSUME NEW K, NEW D, K \subseteq Keys, D \subseteq Keys, Recalculate(K, D),
         \A j \in calcs : IsDayJob(j), doubtful \subseteq Keys
  PROVE  (\A j \in calcs' : IsDayJob(j)) /\ doubtful' \subseteq Keys
<1>1. PICK free : calcs' = calcs \cup {DayJob(k, free) : k \in K}
  BY DEF Recalculate
<1>2. ASSUME NEW k \in K PROVE IsDayJob(DayJob(k, free))
  <2>1. IsFiniteSet({})
    BY FS_EmptySet
  <2> QED
    BY <2>1 DEF IsDayJob, DayJob
<1>3. doubtful' \subseteq Keys
  BY DEF Recalculate
<1> QED
  BY <1>1, <1>2, <1>3

\* As are those that are left alone.
LEMMA LeftAloneIsTyped ==
  ASSUME NEW K, K \subseteq Keys, LeftAlone(K),
         \A j \in calcs : IsDayJob(j), doubtful \subseteq Keys
  PROVE  (\A j \in calcs' : IsDayJob(j)) /\ doubtful' \subseteq Keys
BY DEF LeftAlone

\* A request that is over has left nothing to be wrong.
LEMMA IdleIsFine ==
  Idle \in Clerk /\ IsSane(Idle) /\ \A k : LookHolds(Idle, k)
<1>1. Idle \in Clerk
  BY DEF Idle, Clerk, ClerkOps
<1>2. IsSane(Idle)
  BY DEF Idle, IsSane
<1>3. \A k : LookHolds(Idle, k)
  BY DEF Idle, LookHolds, Inserting
<1> QED
  BY <1>1, <1>2, <1>3

\* Requests stay sane as long as rows stay with their employee.
LEMMA AnswerKeepsClerks ==
  ASSUME NEW p \in Clerks, Answered(p), ClerksAreTyped, ClerksAreSane,
         \A x \in Punches, r \in PunchRow : Owned(x, r) => Owned(x, r)'
  PROVE  ClerksAreTyped' /\ ClerksAreSane'
<1>1. \A q \in Clerks : clerk'[q] = IF q = p THEN Idle ELSE clerk[q]
  BY DEF Answered, ClerksAreTyped
<1>2. ClerksAreTyped'
  BY IdleIsFine DEF Answered, ClerksAreTyped
<1>3. ASSUME NEW q \in Clerks PROVE IsSane(clerk[q])'
  <2>1. CASE q = p
    <3>1. clerk'[q] = Idle
      BY <1>1, <2>1
    <3> QED
      BY <3>1 DEF Idle, IsSane
  <2>2. CASE q # p
    <3>1. clerk'[q] = clerk[q] /\ IsSane(clerk[q])
      BY <1>1, <2>2 DEF ClerksAreSane
    <3> QED
      BY <3>1 DEF IsSane, Same
  <2> QED
    BY <2>1, <2>2
<1> QED
  BY <1>2, <1>3 DEF ClerksAreSane

\* The days K change, and those who have looked at them are told.
DaysChange(K) ==
  /\ rushed \subseteq rushed'
  /\ \A k \in Keys \ K : off'[k] = off[k] /\ (Of(k) = {} => Of(k)' = {})
  /\ \A k \in K \ rushed' : LeaveIsFine(k)'
Told(q, K) == \A k \in K : k \in LookedAt(clerk[q]) => k \in rushed'

\* What requests have found holds on days on which nothing happens that they look for.
LEMMA LooksStay ==
  ASSUME NEW K, LooksHold, LeavesAreFine, DaysChange(K),
         \A q \in Clerks : clerk'[q] = Idle \/ (clerk'[q] = clerk[q] /\ Told(q, K))
  PROVE  LooksHold' /\ LeavesAreFine'
<1>1. ASSUME NEW k \in Keys \ K
      PROVE  /\ Of(k) = {} => Of(k)' = {}
             /\ Hard(k)' = Hard(k) /\ OneLeave(k)' = OneLeave(k)
             /\ \A y : On(k, y)' = On(k, y)
  BY <1>1, LeavesStay DEF DaysChange
<1>2. ASSUME NEW q \in Clerks, NEW k \in Keys \ rushed' PROVE LookHolds(clerk[q], k)'
  <2>1. CASE clerk'[q] = Idle
    BY <2>1 DEF Idle, LookHolds, Inserting
  <2>2. CASE clerk'[q] = clerk[q] /\ Told(q, K)
    <3>1. clerk'[q] = clerk[q] /\ LookHolds(clerk[q], k)
      BY <1>2, <2>2 DEF LooksHold, DaysChange
    <3>2. CASE k \in K
      <4>1. k \notin LookedAt(clerk[q])
        BY <1>2, <2>2, <3>2 DEF Told
      <4>2. ~(clerk[q].op = "leave" /\ clerk[q].key = k)
        BY <4>1 DEF LookedAt
      <4>3. ~(clerk[q].op \in Inserting /\ \E r \in clerk[q].rows : Key(r) = k)
        BY <4>1 DEF LookedAt, Inserting
      <4> QED
        BY <3>1, <4>2, <4>3 DEF LookHolds, Key
    <3>3. CASE k \notin K
      BY <3>1, <3>3, <1>1 DEF LookHolds, Key
    <3> QED
      BY <3>2, <3>3
  <2> QED
    BY <2>1, <2>2
<1>3. ASSUME NEW k \in Keys \ rushed' PROVE LeaveIsFine(k)'
  <2>1. LeaveIsFine(k)
    BY DEF LeavesAreFine, DaysChange
  <2> QED
    BY <2>1, <1>1 DEF LeaveIsFine, DaysChange
<1> QED
  BY <1>2, <1>3 DEF LooksHold, LeavesAreFine

\* As it does when one of them is over.
LEMMA AnswerKeepsLooks ==
  ASSUME NEW p \in Clerks, NEW K, Answered(p), ClerksAreTyped, LooksHold, LeavesAreFine,
         DaysChange(K), \A q \in Clerks \ {p} : Told(q, K)
  PROVE  LooksHold' /\ LeavesAreFine'
<1>1. \A q \in Clerks : clerk'[q] = IF q = p THEN Idle ELSE clerk[q]
  BY DEF Answered, ClerksAreTyped
<1>2. \A q \in Clerks : clerk'[q] = Idle \/ (clerk'[q] = clerk[q] /\ Told(q, K))
  BY <1>1
<1> QED
  BY <1>2, LooksStay

\* Whoever writes on days tells it to those who have looked at them.
LEMMA RushedTells ==
  ASSUME NEW p, NEW K, Rushed(p, K)
  PROVE  /\ rushed \subseteq rushed'
         /\ \A k \in K, q \in Clerks \ {p} : k \in LookedAt(clerk[q]) => k \in rushed'
         /\ K \subseteq Keys /\ rushed \subseteq Keys => rushed' \subseteq Keys
BY DEF Rushed

\* A request that is asked: what it has read must be what its kind reads, and hold.
LEMMA AskingKeepsTheInvariant ==
  ASSUME AttendanceInvariant, NEW p \in Clerks, NEW c \in Clerk, Asks(p, c),
         IsSane(c), \A k \in Keys \ rushed : LookHolds(c, k)
  PROVE  AttendanceInvariant'
<1>1. clerk' = [clerk EXCEPT ![p] = c]
  BY DEF Asks
<1>2. /\ punch' = punch /\ trash' = trash /\ off' = off /\ logs' = logs
      /\ calcs' = calcs /\ doubtful' = doubtful /\ rushed' = rushed
  BY DEF Asks
<1>3. clerk \in [Clerks -> Clerk]
  BY DEF AttendanceInvariant, ClerksAreTyped
<1>4. \A q \in Clerks : clerk'[q] = IF q = p THEN c ELSE clerk[q]
  BY <1>1, <1>3
<1>5. PunchesAreTyped'
  BY <1>2 DEF AttendanceInvariant, PunchesAreTyped, Stored, Taken, Same
<1>6. DaysAreTyped'
  BY <1>2 DEF AttendanceInvariant, DaysAreTyped
<1>7. ClerksAreTyped'
  BY <1>1, <1>3 DEF ClerksAreTyped
<1>8. ClerksAreSane'
  <2>1. \A q \in Clerks : IsSane(clerk[q])
    BY DEF AttendanceInvariant, ClerksAreSane
  <2>2. ASSUME NEW d, IsSane(d) PROVE IsSane(d)'
    BY <1>2, <2>2 DEF IsSane, Owned, Same
  <2>3. ASSUME NEW q \in Clerks PROVE IsSane(clerk[q])'
    <3>1. IsSane(clerk'[q])
      BY <1>4, <2>1
    <3> QED
      BY <3>1, <1>2 DEF IsSane, Owned, Same
  <2> QED
    BY <2>3 DEF ClerksAreSane
<1>9. RowsKeepTheirOwner'
  BY <1>2 DEF AttendanceInvariant, RowsKeepTheirOwner
<1>10. \A k : Of(k)' = Of(k) /\ RowsOf(k)' = RowsOf(k) /\ Untouched(k)
  BY <1>2 DEF Of, RowsOf, Stored, Key, Untouched
<1>leaves. \A k : /\ Hard(k)' = Hard(k) /\ OneLeave(k)' = OneLeave(k)
                  /\ \A y : On(k, y)' = On(k, y)
  BY <1>2, LeavesStay
<1>11. LooksHold'
  <2>1. \A q \in Clerks, k \in Keys \ rushed : LookHolds(clerk[q], k)
    BY DEF AttendanceInvariant, LooksHold
  <2>2. ASSUME NEW q \in Clerks, NEW k \in Keys \ rushed PROVE LookHolds(clerk[q], k)'
    <3>1. LookHolds(clerk'[q], k)
      BY <1>4, <2>1
    <3> QED
      BY <3>1, <1>2, <1>10, <1>leaves DEF LookHolds, Key
  <2> QED
    BY <1>2, <2>2 DEF LooksHold
<1>12. LeavesAreFine'
  BY <1>2, <1>10, <1>leaves DEF AttendanceInvariant, LeavesAreFine, LeaveIsFine
<1>13. ASSUME NEW k \in Keys PROVE DayIsRight(k)'
  <2>1. DayIsRight(k)
    BY DEF AttendanceInvariant
  <2>2. RunningOn(k)' = RunningOn(k)
    BY <1>2 DEF RunningOn
  <2> QED
    BY <1>2, <1>10, <2>1, <2>2, DayStaysRight
<1> QED
  BY <1>5, <1>6, <1>7, <1>8, <1>9, <1>11, <1>12, <1>13 DEF AttendanceInvariant

\* A request that inserts some rows, none of them on a hard leave.
LEMMA InsertingIsFine ==
  ASSUME AttendanceInvariant,
         NEW op \in {"create", "bulk", "row", "device", "sync"}, NEW rows \in SUBSET PunchRow,
         NEW at \in Punches \cup {NoPunch}, op = "row" => at = NoPunch,
         \A r, s \in rows : Same(r, s) => r = s,
         \A r \in rows : ~Refused(Key(r)),
         NEW c, c = [op |-> op, at |-> at, read |-> NoPunch, rows |-> rows, key |-> << >>,
                     leave |-> << >>]
  PROVE  c \in Clerk /\ IsSane(c) /\ \A k \in Keys \ rushed : LookHolds(c, k)
<1>1. /\ c.op = op /\ c.at = at /\ c.read = NoPunch /\ c.rows = rows /\ c.key = << >>
  OBVIOUS
<1>2. c \in Clerk
  BY DEF Clerk, ClerkOps
<1>3. IsSane(c)
  BY <1>1 DEF IsSane
<1>4. ASSUME NEW k \in Keys \ rushed PROVE LookHolds(c, k)
  <2>1. \A r \in rows : Key(r) = k => ~Hard(k)
    BY OneHardLeaveIsRefused DEF AttendanceInvariant, LeavesAreFine, LeaveIsFine
  <2> QED
    BY <1>1, <2>1 DEF LookHolds
<1> QED
  BY <1>2, <1>3, <1>4

\* A new row is a punch.
LEMMA RowIsAPunch ==
  ASSUME NEW e \in Staff, NEW type \in Types, NEW at \in Times,
         NEW day \in {Day(t) : t \in Times}
  PROVE  /\ Row(e, type, at, day) \in PunchRow
         /\ Row(e, type, at, day).who = e /\ Row(e, type, at, day).type = type
         /\ Row(e, type, at, day).at = at /\ Row(e, type, at, day).day = day
<1>1. 0 \in Int
  OBVIOUS
<1> QED
  BY <1>1, PunchRowIsMade DEF Row

\* The first types of a set of types.
LEMMA TypesAreTypes ==
  /\ "IN" \in Types /\ "OUT" \in Types /\ "check-in" \in Types /\ "check-out" \in Types
  /\ "CHECK-IN" \in Types /\ "CHECK-OUT" \in Types
BY DEF Types

\* What the invariant says of rows and leaves.
LEMMA InvariantGives ==
  ASSUME AttendanceInvariant
  PROVE  /\ punch \in [Punches -> PunchRow \cup {NoPunch}]
         /\ trash \in [Punches -> PunchRow \cup {NoPunch}]
         /\ off \in [Keys -> [DayLeaves -> DayLeave]]
BY DEF AttendanceInvariant, PunchesAreTyped, DaysAreTyped

\* A create that is asked for keeps the invariant.
LEMMA ReadForNewKeepsIt ==
  ASSUME AttendanceInvariant, NEW p \in Clerks, ReadForNew(p)
  PROVE  AttendanceInvariant'
<1>1. PICK e \in Staff, type \in {"IN", "OUT"}, at \in Times :
        /\ Acceptable(Row(e, type, at, DayOf(e, type, at)))
        /\ Asks(p, [Idle EXCEPT !.op = "create", !.rows = {Row(e, type, at, DayOf(e, type, at))}])
  BY DEF ReadForNew
<1>2. PICK row : row = Row(e, type, at, DayOf(e, type, at))
  OBVIOUS
<1>3. PICK c : c = [Idle EXCEPT !.op = "create", !.rows = {row}]
  OBVIOUS
<1>lit. c = [op |-> "create", at |-> NoPunch, read |-> NoPunch, rows |-> {row}, key |-> << >>, leave |-> << >>]
  BY <1>3 DEF Idle
<1>4. Asks(p, c)
  BY <1>3, <1>1, <1>2
<1>5. row \in PunchRow
  BY <1>2, RowIsAPunch, DayOfIsADay, InvariantGives, TypesAreTypes
<1>6. c \in Clerk /\ IsSane(c) /\ \A k \in Keys \ rushed : LookHolds(c, k)
  <2>1. ~Refused(Key(row))
    BY <1>1, <1>2 DEF Acceptable
  <2>2. \A r, s \in {row} : Same(r, s) => r = s
    OBVIOUS
  <2> QED
    BY <2>1, <2>2, <1>lit, <1>5, InsertingIsFine
<1> QED
  BY <1>4, <1>6, AskingKeepsTheInvariant

\* As does a create of several.
LEMMA ReadForBulkKeepsIt ==
  ASSUME AttendanceInvariant, NEW p \in Clerks, ReadForBulk(p)
  PROVE  AttendanceInvariant'
<1>1. PICK e \in Staff, at \in Times, later \in Times :
        LET rows == {Row(e, "IN", at, DayOf(e, "IN", at)),
                     Row(e, "OUT", later, DayOf(e, "OUT", later))}
        IN  /\ at < later
            /\ \A row \in rows : Acceptable(row)
            /\ Asks(p, [Idle EXCEPT !.op = "bulk", !.rows = rows])
  BY DEF ReadForBulk
<1>2. PICK row : row = Row(e, "IN", at, DayOf(e, "IN", at))
  OBVIOUS
<1>3. PICK out : out = Row(e, "OUT", later, DayOf(e, "OUT", later))
  OBVIOUS
<1>4. PICK c : c = [Idle EXCEPT !.op = "bulk", !.rows = {row, out}]
  OBVIOUS
<1>lit. c = [op |-> "bulk", at |-> NoPunch, read |-> NoPunch, rows |-> {row, out}, key |-> << >>, leave |-> << >>]
  BY <1>4 DEF Idle
<1>5. Asks(p, c) /\ Acceptable(row) /\ Acceptable(out)
  BY <1>4, <1>1, <1>2, <1>3
<1>6. row \in PunchRow /\ row.type = "IN"
  BY <1>2, RowIsAPunch, DayOfIsADay, InvariantGives, TypesAreTypes
<1>7. out \in PunchRow /\ out.type = "OUT"
  BY <1>3, RowIsAPunch, DayOfIsADay, InvariantGives, TypesAreTypes
<1>8. c \in Clerk /\ IsSane(c) /\ \A k \in Keys \ rushed : LookHolds(c, k)
  <2>1. \A r \in {row, out} : ~Refused(Key(r))
    BY <1>5 DEF Acceptable
  <2>2. \A r, s \in {row, out} : Same(r, s) => r = s
    BY <1>6, <1>7 DEF Same
  <2>3. {row, out} \in SUBSET PunchRow
    BY <1>6, <1>7
  <2> QED
    BY <2>1, <2>2, <2>3, <1>lit, InsertingIsFine
<1> QED
  BY <1>5, <1>8, AskingKeepsTheInvariant

\* As does a row of an upload.
LEMMA ReadRowKeepsIt ==
  ASSUME AttendanceInvariant, NEW p \in Clerks, ReadRow(p)
  PROVE  AttendanceInvariant'
<1>1. PICK e \in Staff, type \in {"IN", "OUT"}, at \in Times :
        /\ ~Refused(Key(Row(e, type, at, Day(at))))
        /\ Asks(p, [Idle EXCEPT !.op = "row", !.rows = {Row(e, type, at, Day(at))}])
  BY DEF ReadRow
<1>2. PICK row : row = Row(e, type, at, Day(at))
  OBVIOUS
<1>3. PICK c : c = [Idle EXCEPT !.op = "row", !.rows = {row}]
  OBVIOUS
<1>lit. c = [op |-> "row", at |-> NoPunch, read |-> NoPunch, rows |-> {row}, key |-> << >>, leave |-> << >>]
  BY <1>3 DEF Idle
<1>4. Asks(p, c)
  BY <1>3, <1>1, <1>2
<1>5. row \in PunchRow
  BY <1>2, RowIsAPunch, TypesAreTypes
<1>6. c \in Clerk /\ IsSane(c) /\ \A k \in Keys \ rushed : LookHolds(c, k)
  <2>1. ~Refused(Key(row))
    BY <1>1, <1>2
  <2>2. \A r, s \in {row} : Same(r, s) => r = s
    OBVIOUS
  <2> QED
    BY <2>1, <2>2, <1>lit, <1>5, InsertingIsFine
<1> QED
  BY <1>4, <1>6, AskingKeepsTheInvariant

\* As does a check-in or a check-out.
LEMMA ReadForDeviceKeepsIt ==
  ASSUME AttendanceInvariant, NEW p \in Clerks, ReadForDevice(p)
  PROVE  AttendanceInvariant'
<1>1. PICK e \in Staff, type \in {"IN", "OUT"}, at \in Times :
    LET row == Row(e, type, at, Day(at))
        ins == {x \in Of(Key(row)) : punch[x].type = "IN"}
        mate == IF type = "OUT" THEN Latest(ins) ELSE NoPunch
    IN  /\ type = "OUT" => ins # {}
        /\ Acceptable(row)
        /\ Asks(p, [Idle EXCEPT !.op = "device", !.at = mate,
                                !.rows = {IF type = "IN" THEN row
                                          ELSE [row EXCEPT !.hours = at - punch[mate].at]}])
  BY DEF ReadForDevice
<1>2. PICK row : row = Row(e, type, at, Day(at))
  OBVIOUS
<1>3. PICK ins : ins = {x \in Of(Key(row)) : punch[x].type = "IN"}
  OBVIOUS
<1>4. PICK mate : mate = IF type = "OUT" THEN Latest(ins) ELSE NoPunch
  OBVIOUS
<1>5. PICK new : new = IF type = "IN" THEN row ELSE [row EXCEPT !.hours = at - punch[mate].at]
  OBVIOUS
<1>6. PICK c : c = [Idle EXCEPT !.op = "device", !.at = mate, !.rows = {new}]
  OBVIOUS
<1>lit. c = [op |-> "device", at |-> mate, read |-> NoPunch, rows |-> {new}, key |-> << >>, leave |-> << >>]
  BY <1>6 DEF Idle
<1>7. (type = "OUT" => ins # {}) /\ Acceptable(row) /\ Asks(p, c)
  BY <1>6, <1>1, <1>2, <1>3, <1>4, <1>5
<1>8. punch \in [Punches -> PunchRow \cup {NoPunch}]
  BY InvariantGives
<1>9. mate \in Punches \cup {NoPunch} /\ (type = "OUT" => mate \in Stored)
  <2>1. ins \subseteq Stored
    BY <1>3, <1>8, PunchRowsAreTyped
  <2>2. CASE type = "OUT"
    <3>1. Latest(ins) \in ins
      BY <1>7, <1>8, <2>1, <2>2, LatestIsOne
    <3> QED
      BY <3>1, <1>4, <1>8, <2>1, <2>2, PunchRowsAreTyped
  <2>3. CASE type # "OUT"
    BY <1>4, <2>3
  <2> QED
    BY <2>2, <2>3
<1>10. new \in PunchRow /\ Key(new) = Key(row)
  <2>1. row \in PunchRow
    BY <1>2, RowIsAPunch, TypesAreTypes
  <2>2. CASE type = "IN"
    BY <1>5, <2>1, <2>2
  <2>3. CASE type # "IN"
    <3>1. at \in Nat /\ punch[mate].at \in Nat
      BY <1>8, <1>9, <2>3, PunchRowsAreTyped, PunchRowIsTyped, AttendanceConstants
    <3>2. PICK h : h = at - punch[mate].at
      OBVIOUS
    <3>3. h \in Int /\ new = [row EXCEPT !.hours = h]
      BY <3>1, <3>2, <1>5, <2>3
    <3>4. new \in PunchRow
      BY <3>3, <2>1 DEF PunchRow
    <3>5. new.who = row.who /\ new.day = row.day
      BY <3>3, <2>1 DEF PunchRow
    <3> QED
      BY <3>4, <3>5 DEF Key
  <2> QED
    BY <2>2, <2>3
<1>11. c \in Clerk /\ IsSane(c) /\ \A k \in Keys \ rushed : LookHolds(c, k)
  <2>1. \A r \in {new} : ~Refused(Key(r))
    BY <1>7, <1>10 DEF Acceptable
  <2>2. \A r, s \in {new} : Same(r, s) => r = s
    OBVIOUS
  <2> QED
    BY <2>1, <2>2, <1>lit, <1>9, <1>10, InsertingIsFine
<1> QED
  BY <1>7, <1>11, AskingKeepsTheInvariant

\* As does a reading of a biometric device.
LEMMA ReadFromDeviceKeepsIt ==
  ASSUME AttendanceInvariant, NEW p \in Clerks, ReadFromDevice(p)
  PROVE  AttendanceInvariant'
<1>1. PICK e \in Staff, type \in {"check-in", "check-out"}, at \in Times :
    LET row == Row(e, type, at, Day(at))
        same == Duplicates(row)
    IN  \/ /\ same = {}
           /\ ~Refused(Key(row))
           /\ Asks(p, [Idle EXCEPT !.op = "sync", !.rows = {row}])
        \/ /\ same # {} /\ Better(row, Earliest(same))
           /\ Asks(p, [Idle EXCEPT !.op = "resync", !.at = Earliest(same), !.rows = {row}])
  BY DEF ReadFromDevice
<1>2. PICK row : row = Row(e, type, at, Day(at))
  OBVIOUS
<1>3. PICK same : same = Duplicates(row)
  OBVIOUS
<1>4. row \in PunchRow
  BY <1>2, RowIsAPunch, TypesAreTypes
<1>5. CASE /\ ~Refused(Key(row))
           /\ Asks(p, [Idle EXCEPT !.op = "sync", !.rows = {row}])
  <2>1. PICK c : c = [Idle EXCEPT !.op = "sync", !.rows = {row}]
    OBVIOUS
  <2>lit. c = [op |-> "sync", at |-> NoPunch, read |-> NoPunch, rows |-> {row}, key |-> << >>, leave |-> << >>]
    BY <2>1 DEF Idle
  <2>2. Asks(p, c)
    BY <2>1, <1>5
  <2>3. c \in Clerk /\ IsSane(c) /\ \A k \in Keys \ rushed : LookHolds(c, k)
    <3>1. \A r, s \in {row} : Same(r, s) => r = s
      OBVIOUS
    <3> QED
      BY <3>1, <1>4, <1>5, <2>lit, InsertingIsFine
  <2> QED
    BY <2>2, <2>3, AskingKeepsTheInvariant
<1>6. CASE /\ same # {}
           /\ Asks(p, [Idle EXCEPT !.op = "resync", !.at = Earliest(same), !.rows = {row}])
  <2>1. PICK x : x = Earliest(same)
    OBVIOUS
  <2>2. x \in Punches
    <3>1. same \subseteq Stored
      BY <1>3, InvariantGives, PunchRowsAreTyped DEF Duplicates
    <3> QED
      BY <3>1, <1>6, <2>1, InvariantGives, LatestIsOne, PunchRowsAreTyped
  <2>3. PICK c : c = [Idle EXCEPT !.op = "resync", !.at = x, !.rows = {row}]
    OBVIOUS
  <2>lit. c = [op |-> "resync", at |-> x, read |-> NoPunch, rows |-> {row}, key |-> << >>, leave |-> << >>]
    BY <2>3 DEF Idle
  <2>4. Asks(p, c)
    BY <2>3, <2>1, <1>6
  <2>5. c.op = "resync" /\ c.at = x /\ c.rows = {row} /\ c.read = NoPunch
    BY <2>lit
  <2>6. c \in Clerk
    BY <2>2, <2>lit, <1>4 DEF Clerk, ClerkOps
  <2>7. IsSane(c)
    BY <2>2, <2>5 DEF IsSane
  <2>8. \A k \in Keys \ rushed : LookHolds(c, k)
    BY <2>5 DEF LookHolds, Inserting
  <2> QED
    BY <2>4, <2>6, <2>7, <2>8, AskingKeepsTheInvariant
<1> QED
  BY <1>1, <1>2, <1>3, <1>5, <1>6

\* As does an edit.
LEMMA ReadForEditKeepsIt ==
  ASSUME AttendanceInvariant, NEW p \in Clerks, NEW x \in Punches, ReadForEdit(p, x)
  PROVE  AttendanceInvariant'
<1>1. PICK old : old = punch[x]
  OBVIOUS
<1>2. PICK type \in {"IN", "OUT", punch[x].type}, at \in Times :
       LET was == punch[x]
           row == IF at = was.at THEN [was EXCEPT !.type = type]
                  ELSE [was EXCEPT !.type = type, !.at = at, !.day = DayOf(was.who, type, at)]
       IN  /\ row # was /\ ~Refused(Key(row))
           /\ Asks(p, [Idle EXCEPT !.op = "edit", !.at = x, !.read = was, !.rows = {row}])
  BY DEF ReadForEdit
<1>3. PICK row : row = IF at = old.at THEN [old EXCEPT !.type = type]
                  ELSE [old EXCEPT !.type = type, !.at = at, !.day = DayOf(old.who, type, at)]
  OBVIOUS
<1>4. ~Refused(Key(row))
  BY <1>1, <1>2, <1>3
<1>5. PICK c : c = [Idle EXCEPT !.op = "edit", !.at = x, !.read = old, !.rows = {row}]
  OBVIOUS
<1>lit. c = [op |-> "edit", at |-> x, read |-> old, rows |-> {row}, key |-> << >>, leave |-> << >>]
  BY <1>5 DEF Idle
<1>6. Asks(p, c)
  BY <1>1, <1>2, <1>3, <1>5
<1>7. old \in PunchRow /\ x \in Stored
  BY <1>1, InvariantGives, PunchRowsAreTyped DEF ReadForEdit, Stored
<1>8. row \in PunchRow /\ row.who = old.who
  <2>1. type \in Types
    BY <1>1, <1>2, <1>7, PunchRowIsTyped, TypesAreTypes
  <2>2. CASE at = old.at
    <3>1. row = [old EXCEPT !.type = type]
      BY <1>3, <2>2
    <3> QED
      BY <3>1, <2>1, <1>7 DEF PunchRow
  <2>3. CASE at # old.at
    <3>1. PICK day : day = DayOf(old.who, type, at)
      OBVIOUS
    <3>2. day \in {Day(t) : t \in Times}
      BY <3>1, InvariantGives, DayOfIsADay
    <3>3. row = [old EXCEPT !.type = type, !.at = at, !.day = day]
      BY <1>3, <2>3, <3>1
    <3> QED
      BY <3>2, <3>3, <2>1, <1>7 DEF PunchRow
  <2> QED
    BY <2>2, <2>3
<1>9. c.op = "edit" /\ c.at = x /\ c.read = old /\ c.rows = {row}
  BY <1>lit
<1>10. c \in Clerk
  BY <1>lit, <1>7, <1>8 DEF Clerk, ClerkOps
<1>11. IsSane(c)
  <2>1. Owned(x, old)
    <3>1. SameWho(punch[x], trash[x])
      BY DEF AttendanceInvariant, RowsKeepTheirOwner
    <3> QED
      BY <3>1, <1>1, <1>7, PunchRowIsTyped DEF Owned, SameWho, Stored
  <2> QED
    BY <2>1, <1>7, <1>8, <1>9 DEF IsSane
<1>12. ASSUME NEW k \in Keys \ rushed PROVE LookHolds(c, k)
  <2>1. Key(row) = k => ~Hard(k)
    BY <1>4, OneHardLeaveIsRefused DEF AttendanceInvariant, LeavesAreFine, LeaveIsFine
  <2> QED
    BY <2>1, <1>9 DEF LookHolds
<1> QED
  BY <1>6, <1>10, <1>11, <1>12, AskingKeepsTheInvariant

\* As does a removal.
LEMMA ReadForRemovalKeepsIt ==
  ASSUME AttendanceInvariant, NEW p \in Clerks, NEW x \in Punches, ReadForRemoval(p, x)
  PROVE  AttendanceInvariant'
<1>1. PICK old : old = punch[x]
  OBVIOUS
<1>2. PICK c : c = [Idle EXCEPT !.op = "remove", !.at = x, !.read = old]
  OBVIOUS
<1>lit. c = [op |-> "remove", at |-> x, read |-> old, rows |-> {}, key |-> << >>, leave |-> << >>]
  BY <1>2 DEF Idle
<1>3. Asks(p, c)
  BY <1>2, <1>1 DEF ReadForRemoval
<1>4. old \in PunchRow /\ x \in Stored
  BY <1>1, InvariantGives, PunchRowsAreTyped DEF ReadForRemoval, Stored
<1>5. c.op = "remove" /\ c.at = x /\ c.read = old /\ c.rows = {}
  BY <1>lit
<1>6. c \in Clerk
  BY <1>lit, <1>4 DEF Clerk, ClerkOps
<1>7. IsSane(c)
  <2>1. Owned(x, old)
    <3>1. SameWho(punch[x], trash[x])
      BY DEF AttendanceInvariant, RowsKeepTheirOwner
    <3> QED
      BY <3>1, <1>1, <1>4, PunchRowIsTyped DEF Owned, SameWho, Stored
  <2> QED
    BY <2>1, <1>4, <1>5 DEF IsSane
<1>8. \A k \in Keys \ rushed : LookHolds(c, k)
  BY <1>5 DEF LookHolds, Inserting
<1> QED
  BY <1>3, <1>6, <1>7, <1>8, AskingKeepsTheInvariant

\* As does a restore.
LEMMA ReadForRestoreKeepsIt ==
  ASSUME AttendanceInvariant, NEW p \in Clerks, NEW x \in Punches, ReadForRestore(p, x)
  PROVE  AttendanceInvariant'
<1>1. PICK old : old = trash[x]
  OBVIOUS
<1>2. PICK row : row = [old EXCEPT !.type = Capitals(@)]
  OBVIOUS
<1>3. PICK c : c = [Idle EXCEPT !.op = "restore", !.at = x, !.read = old, !.rows = {row}]
  OBVIOUS
<1>lit. c = [op |-> "restore", at |-> x, read |-> old, rows |-> {row}, key |-> << >>, leave |-> << >>]
  BY <1>3 DEF Idle
<1>4. Asks(p, c)
  BY <1>3, <1>1, <1>2 DEF ReadForRestore
<1>5. old \in PunchRow /\ ~FullDay(Key(old))
  BY <1>1, InvariantGives DEF ReadForRestore
<1>6. row \in PunchRow /\ row.who = old.who /\ row.day = old.day
  <2>1. PICK t : t = Capitals(old.type)
    OBVIOUS
  <2>2. t \in Types
    BY <2>1, <1>5, PunchRowIsTyped, TypesAreTypes DEF Capitals
  <2>3. row = [old EXCEPT !.type = t]
    BY <1>2, <2>1
  <2> QED
    BY <2>2, <2>3, <1>5 DEF PunchRow
<1>7. c.op = "restore" /\ c.at = x /\ c.read = old /\ c.rows = {row}
  BY <1>lit
<1>8. c \in Clerk
  BY <1>lit, <1>5, <1>6 DEF Clerk, ClerkOps
<1>9. IsSane(c)
  <2>1. Owned(x, old)
    <3>1. SameWho(punch[x], trash[x])
      BY DEF AttendanceInvariant, RowsKeepTheirOwner
    <3> QED
      BY <3>1, <1>1, <1>5, PunchRowIsTyped DEF Owned, SameWho
  <2> QED
    BY <2>1, <1>5, <1>6, <1>7 DEF IsSane
<1>10. \A k \in Keys \ rushed : LookHolds(c, k)
  <2>1. ~Hard(Key(row))
    BY <1>5, <1>6 DEF FullDay, Hard, Key
  <2> QED
    BY <2>1, <1>7 DEF LookHolds
<1> QED
  BY <1>4, <1>8, <1>9, <1>10, AskingKeepsTheInvariant

\* As does the creation or change of a leave.
LEMMA CheckLeaveKeepsIt ==
  ASSUME AttendanceInvariant, NEW p \in Clerks, NEW k \in Keys, CheckLeave(p, k)
  PROVE  AttendanceInvariant'
<1>1. PICK x \in DayLeaves, kind \in Absences :
        /\ kind # "none" => \A y \in DayLeaves \ {x} : ~On(k, y)
        /\ kind = "hard" => Of(k) = {}
        /\ Asks(p, [Idle EXCEPT !.op = "leave", !.key = k,
                               !.leave = [row |-> x, now |-> [NoLeave EXCEPT !.kind = kind]]])
  BY DEF CheckLeave
<1>2. PICK now : now = [NoLeave EXCEPT !.kind = kind]
  OBVIOUS
<1>3. now \in DayLeave /\ now.kind = kind /\ now.removed = FALSE
  BY <1>2 DEF NoLeave, DayLeave
<1>4. PICK leave : leave = [row |-> x, now |-> now]
  OBVIOUS
<1>5. PICK c : c = [Idle EXCEPT !.op = "leave", !.key = k, !.leave = leave]
  OBVIOUS
<1>lit. c = [op |-> "leave", at |-> NoPunch, read |-> NoPunch, rows |-> {}, key |-> k, leave |-> leave]
  BY <1>5 DEF Idle
<1>6. Asks(p, c)
  BY <1>1, <1>2, <1>4, <1>5
<1>7. leave \in LeaveNow /\ leave.row = x /\ leave.now = now
  BY <1>3, <1>4 DEF LeaveNow
<1>8. c.op = "leave" /\ c.key = k /\ c.leave = leave /\ c.rows = {}
  BY <1>lit
<1>9. c \in Clerk
  BY <1>lit, <1>7 DEF Clerk, ClerkOps
<1>10. IsSane(c)
  BY <1>3, <1>7, <1>8 DEF IsSane
<1>11. \A d \in Keys \ rushed : LookHolds(c, d)
  BY <1>1, <1>3, <1>7, <1>8 DEF LookHolds, Inserting
<1> QED
  BY <1>6, <1>9, <1>10, <1>11, AskingKeepsTheInvariant

\* As does a removal of one.
LEMMA ReadLeaveKeepsIt ==
  ASSUME AttendanceInvariant, NEW p \in Clerks, NEW k \in Keys, ReadLeave(p, k)
  PROVE  AttendanceInvariant'
<1>1. PICK x \in DayLeaves :
        Asks(p, [Idle EXCEPT !.op = "unleave", !.key = k,
                            !.leave = [row |-> x, now |-> [off[k][x] EXCEPT !.removed = TRUE]]])
  BY DEF ReadLeave
<1>2. PICK now : now = [off[k][x] EXCEPT !.removed = TRUE]
  OBVIOUS
<1>3. now \in DayLeave /\ now.removed = TRUE
  <2>1. off[k][x] \in DayLeave
    BY InvariantGives
  <2> QED
    BY <2>1, <1>2 DEF DayLeave
<1>4. PICK leave : leave = [row |-> x, now |-> now]
  OBVIOUS
<1>5. PICK c : c = [Idle EXCEPT !.op = "unleave", !.key = k, !.leave = leave]
  OBVIOUS
<1>lit. c = [op |-> "unleave", at |-> NoPunch, read |-> NoPunch, rows |-> {}, key |-> k, leave |-> leave]
  BY <1>5 DEF Idle
<1>6. Asks(p, c)
  BY <1>1, <1>2, <1>4, <1>5
<1>7. leave \in LeaveNow /\ leave.row = x /\ leave.now = now
  BY <1>3, <1>4 DEF LeaveNow
<1>8. c.op = "unleave" /\ c.key = k /\ c.leave = leave /\ c.rows = {}
  BY <1>lit
<1>9. c \in Clerk
  BY <1>lit, <1>7 DEF Clerk, ClerkOps
<1>10. IsSane(c)
  BY <1>3, <1>7, <1>8 DEF IsSane
<1>11. \A d \in Keys \ rushed : LookHolds(c, d)
  BY <1>8 DEF LookHolds, Inserting
<1> QED
  BY <1>6, <1>9, <1>10, <1>11, AskingKeepsTheInvariant

\* So does whatever starts a request.
LEMMA StartAttendanceKeepsIt ==
  ASSUME AttendanceInvariant, NEW p \in Clerks, StartAttendance(p)
  PROVE  AttendanceInvariant'
BY ReadForNewKeepsIt, ReadForBulkKeepsIt, ReadRowKeepsIt, ReadForDeviceKeepsIt,
   ReadFromDeviceKeepsIt, ReadForEditKeepsIt, ReadForRemovalKeepsIt, ReadForRestoreKeepsIt,
   CheckLeaveKeepsIt, ReadLeaveKeepsIt DEF StartAttendance

\* A request that puts a row in the table, if there is none like it.
LEMMA PutKeepsTypes ==
  ASSUME PunchesAreTyped, NEW x \in Punches, NEW row \in PunchRow, ~Taken(row, {x}),
         punch' = [punch EXCEPT ![x] = row],
         trash' \in [Punches -> PunchRow \cup {NoPunch}]
  PROVE  PunchesAreTyped'
<1>1. punch \in [Punches -> PunchRow \cup {NoPunch}] /\ \A y \in Stored : ~Taken(punch[y], {y})
  BY DEF PunchesAreTyped
<1>2. \A y \in Punches : punch'[y] = IF y = x THEN row ELSE punch[y]
  BY <1>1
<1>3. punch' \in [Punches -> PunchRow \cup {NoPunch}]
  BY <1>1
<1>4. \A y \in Stored \ {x} : ~Same(punch[y], row)
  BY DEF Taken
<1>5. \A y, z \in Stored : y # z => ~Same(punch[z], punch[y])
  BY <1>1 DEF Taken
<1>6. ASSUME NEW y \in Punches, punch'[y] # NoPunch, NEW z \in Punches, punch'[z] # NoPunch,
             y # z, Same(punch'[z], punch'[y])
      PROVE  FALSE
  <2>1. CASE y = x
    <3>1. punch'[y] = row /\ punch'[z] = punch[z] /\ z \in Stored
      BY <1>2, <1>6, <2>1 DEF Stored
    <3> QED
      BY <3>1, <2>1, <1>4, <1>6
  <2>2. CASE z = x
    <3>1. punch'[z] = row /\ punch'[y] = punch[y] /\ y \in Stored
      BY <1>2, <1>6, <2>2 DEF Stored
    <3> QED
      BY <3>1, <2>2, <1>4, <1>6 DEF Same
  <2>3. CASE y # x /\ z # x
    <3>1. punch'[z] = punch[z] /\ punch'[y] = punch[y] /\ y \in Stored /\ z \in Stored
      BY <1>2, <1>6, <2>3 DEF Stored
    <3> QED
      BY <3>1, <1>5, <1>6
  <2> QED
    BY <2>1, <2>2, <2>3
<1>7. \A y \in Stored' : ~Taken(punch[y], {y})'
  BY <1>6 DEF Stored, Taken, Same
<1> QED
  BY <1>3, <1>7 DEF PunchesAreTyped

\* A request that is over after it has written rows of the days K.
LEMMA WritingKeepsTheInvariant ==
  ASSUME AttendanceInvariant, NEW p \in Clerks, Answered(p), NEW K,
         PunchesAreTyped', off' \in [Keys -> [DayLeaves -> DayLeave]], logs' = logs,
         doubtful' \subseteq Keys, rushed' \subseteq Keys, \A j \in calcs' : IsDayJob(j),
         RowsKeepTheirOwner',
         \A x \in Punches, r \in PunchRow : Owned(x, r) => Owned(x, r)',
         DaysChange(K), \A q \in Clerks \ {p} : Told(q, K),
         \A k \in Keys : DayIsRight(k)'
  PROVE  AttendanceInvariant'
<1>1. ClerksAreTyped /\ ClerksAreSane /\ LooksHold /\ LeavesAreFine /\ DaysAreTyped
  BY DEF AttendanceInvariant
<1>2. ClerksAreTyped' /\ ClerksAreSane'
  BY <1>1, AnswerKeepsClerks
<1>3. LooksHold' /\ LeavesAreFine'
  BY <1>1, AnswerKeepsLooks
<1>4. DaysAreTyped'
  BY <1>1 DEF DaysAreTyped, IsDayJob
<1> QED
  BY <1>2, <1>3, <1>4 DEF AttendanceInvariant

\* Rows are new ones, as they were, or have other hours.
InsertsRows(c, news) ==
  \A x \in Punches :
    \/ punch[x] = NoPunch /\ trash[x] = NoPunch /\ punch'[x] \in news
    \/ punch'[x] = punch[x]
    \/ /\ x = c.at /\ news # {} /\ punch[x] # NoPunch
       /\ punch'[x] # NoPunch /\ Same(punch'[x], punch[x]) /\ punch'[x].day = punch[x].day

\* What a request that inserts does to the rows.
LEMMA WhatIsInserted ==
  ASSUME NEW p \in Clerks, InsertPunches(p), AttendanceInvariant,
         NEW c, c = clerk[p], NEW news, news = {r \in c.rows : ~Taken(r, {})}
  PROVE  /\ c \in Clerk /\ c.rows \subseteq PunchRow /\ c.at \in Punches \cup {NoPunch}
         /\ punch' \in [Punches -> PunchRow \cup {NoPunch}]
         /\ InsertsRows(c, news)
         /\ \A x, y \in Punches :
              punch[x] = NoPunch /\ punch[y] = NoPunch /\ punch'[x] = punch'[y]
                /\ punch'[x] # NoPunch => x = y
<1>1. c \in Clerk /\ c.rows \subseteq PunchRow /\ c.at \in Punches \cup {NoPunch}
  BY DEF AttendanceInvariant, ClerksAreTyped, Clerk
<1>2. punch \in [Punches -> PunchRow \cup {NoPunch}] /\ (c.at # NoPunch => punch[c.at] # NoPunch)
  BY InvariantGives DEF InsertPunches
<1> DEFINE N == {r \in clerk[p].rows : ~Taken(r, {})}
<1>3. PICK place \in [N -> Unused] :
        /\ \A r, s \in N : place[r] = place[s] => r = s
        /\ punch' = [x \in Punches |->
             CASE \E r \in N : place[r] = x -> CHOOSE r \in N : place[r] = x
               [] x = clerk[p].at /\ N # {} ->
                    [punch[x] EXCEPT !.hours = (CHOOSE r \in N : TRUE).hours]
               [] OTHER -> punch[x]]
  BY DEF InsertPunches
<1>n. news = N /\ c = clerk[p]
  OBVIOUS
<1> HIDE DEF N
<1>4. \A r \in news : r \in PunchRow /\ r # NoPunch /\ place[r] \in Punches
        /\ punch[place[r]] = NoPunch /\ trash[place[r]] = NoPunch
  BY <1>1, <1>3, <1>n, AttendanceConstants DEF Unused
<1>5. ASSUME NEW x \in Punches, NEW r \in N, place[r] = x PROVE punch'[x] = r
  <2>1. \E s \in N : place[s] = x
    BY <1>5
  <2>2. punch'[x] =
          CASE \E s \in N : place[s] = x -> CHOOSE s \in N : place[s] = x
            [] x = clerk[p].at /\ N # {} ->
                 [punch[x] EXCEPT !.hours = (CHOOSE s \in N : TRUE).hours]
            [] OTHER -> punch[x]
    BY ONLY <1>3, <1>5, Zenon
  <2>3. PICK t : t = CHOOSE s \in N : place[s] = x
    OBVIOUS
  <2>a. ~(x = clerk[p].at /\ N # {})
    BY <1>2, <1>4, <1>5, <1>n, AttendanceConstants
  <2>4. punch'[x] = t
    BY ONLY <2>1, <2>2, <2>3, <2>a
  <2>5. t \in N /\ place[t] = x
    BY <2>1, <2>3
  <2> QED
    BY <2>4, <2>5, <1>3, <1>5
<1>6. ASSUME NEW x \in Punches, ~\E r \in news : place[r] = x, x = c.at, news # {}
      PROVE  /\ punch[x] # NoPunch /\ punch'[x] \in PunchRow
             /\ Same(punch'[x], punch[x]) /\ punch'[x].day = punch[x].day
  <2>1. PICK h : h = (CHOOSE r \in N : TRUE).hours
    OBVIOUS
  <2>2. h \in Int
    BY <2>1, <1>4, <1>6, <1>n, PunchRowIsTyped
  <2>3. punch'[x] = [punch[x] EXCEPT !.hours = h]
    BY <1>3, <1>6, <1>n, <2>1
  <2>4. punch[x] # NoPunch /\ punch[x] \in PunchRow
    BY <1>1, <1>2, <1>6, AttendanceConstants
  <2>5. \A r \in PunchRow : [r EXCEPT !.hours = h] \in PunchRow
          /\ [r EXCEPT !.hours = h].who = r.who /\ [r EXCEPT !.hours = h].type = r.type
          /\ [r EXCEPT !.hours = h].at = r.at /\ [r EXCEPT !.hours = h].day = r.day
    BY <2>2 DEF PunchRow
  <2> QED
    BY <2>3, <2>4, <2>5 DEF Same
<1>7. ASSUME NEW x \in Punches, ~\E r \in news : place[r] = x, ~(x = c.at /\ news # {})
      PROVE  punch'[x] = punch[x]
  BY <1>3, <1>7, <1>n
<1>8. punch' \in [Punches -> PunchRow \cup {NoPunch}]
  <2>1. \A x \in Punches : punch'[x] \in PunchRow \cup {NoPunch}
    BY <1>2, <1>4, <1>5, <1>n, <1>6, <1>7
  <2>2. punch' = [x \in Punches |-> punch'[x]]
    BY <1>3
  <2> QED
    BY <2>1, <2>2
<1>9. InsertsRows(c, news)
  BY <1>4, <1>5, <1>n, <1>6, <1>7, AttendanceConstants DEF InsertsRows
<1>10. ASSUME NEW x \in Punches, NEW y \in Punches, punch[x] = NoPunch, punch[y] = NoPunch,
              punch'[x] = punch'[y], punch'[x] # NoPunch
       PROVE  x = y
  <2>1. PICK r \in news : place[r] = x
    BY <1>6, <1>7, <1>10
  <2>2. PICK s \in news : place[s] = y
    BY <1>6, <1>7, <1>10
  <2>3. punch'[x] = r /\ punch'[y] = s
    BY <1>5, <1>n, <2>1, <2>2
  <2> QED
    BY <2>1, <2>2, <2>3, <1>10
<1> QED
  BY <1>1, <1>8, <1>9, <1>10

\* A request that inserts keeps the rows unique.
LEMMA InsertKeepsTypes ==
  ASSUME NEW p \in Clerks, InsertPunches(p), AttendanceInvariant
  PROVE  PunchesAreTyped'
<1>1. PICK c : c = clerk[p]
  OBVIOUS
<1>2. PICK news : news = {r \in c.rows : ~Taken(r, {})}
  OBVIOUS
<1>3. /\ punch' \in [Punches -> PunchRow \cup {NoPunch}]
      /\ InsertsRows(c, news)
      /\ \A x, y \in Punches :
              punch[x] = NoPunch /\ punch[y] = NoPunch /\ punch'[x] = punch'[y]
                /\ punch'[x] # NoPunch => x = y
  BY <1>1, <1>2, WhatIsInserted
<1>4. \A y, z \in Stored : y # z => ~Same(punch[z], punch[y])
  BY DEF AttendanceInvariant, PunchesAreTyped, Taken
<1>5. \A r \in news, y \in Stored : ~Same(punch[y], r)
  BY <1>2 DEF Taken
<1>6. \A r, s \in news : Same(r, s) => r = s
  BY <1>1, <1>2 DEF AttendanceInvariant, ClerksAreSane, IsSane
<1>7. \A x \in Punches : punch'[x] # NoPunch =>
        \/ punch[x] = NoPunch /\ punch'[x] \in news
        \/ x \in Stored /\ Same(punch'[x], punch[x])
  <2>1. \A r : Same(r, r)
    BY DEF Same
  <2> QED
    BY <1>3, <2>1 DEF InsertsRows, Stored
<1>8. \A r, s : Same(r, s) => Same(s, r)
  BY DEF Same
<1>9. \A r, s, t : Same(r, s) /\ Same(s, t) => Same(r, t)
  BY DEF Same
<1>10. ASSUME NEW y \in Punches, punch'[y] # NoPunch, NEW z \in Punches, punch'[z] # NoPunch,
             y # z, Same(punch'[z], punch'[y])
      PROVE  FALSE
  <2>1. CASE punch[y] = NoPunch /\ punch'[y] \in news /\ punch[z] = NoPunch /\ punch'[z] \in news
    BY <2>1, <1>3, <1>6, <1>10
  <2>2. CASE punch[y] = NoPunch /\ punch'[y] \in news /\ z \in Stored /\ Same(punch'[z], punch[z])
    BY <2>2, <1>5, <1>8, <1>9, <1>10
  <2>3. CASE punch[z] = NoPunch /\ punch'[z] \in news /\ y \in Stored /\ Same(punch'[y], punch[y])
    BY <2>3, <1>5, <1>8, <1>9, <1>10
  <2>4. CASE y \in Stored /\ Same(punch'[y], punch[y]) /\ z \in Stored /\ Same(punch'[z], punch[z])
    BY <2>4, <1>4, <1>8, <1>9, <1>10
  <2> QED
    BY <1>7, <1>10, <2>1, <2>2, <2>3, <2>4
<1>11. \A y \in Stored' : ~Taken(punch[y], {y})'
  BY <1>10 DEF Stored, Taken, Same
<1>12. trash' \in [Punches -> PunchRow \cup {NoPunch}]
  BY InvariantGives DEF InsertPunches
<1> QED
  BY <1>3, <1>11, <1>12 DEF PunchesAreTyped

\* A request that inserts keeps the invariant.
LEMMA InsertPunchesKeepsIt ==
  ASSUME NEW p \in Clerks, InsertPunches(p), AttendanceInvariant
  PROVE  AttendanceInvariant'
<1>1. PICK c : c = clerk[p]
  OBVIOUS
<1>2. PICK news : news = {r \in c.rows : ~Taken(r, {})}
  OBVIOUS
<1>3. PICK K : K = {Key(r) : r \in news}
  OBVIOUS
<1>4. PICK M : M = IF c.op = "bulk" THEN {Key(r) : r \in c.rows} ELSE K
  OBVIOUS
<1>5. PICK D : D = {Key(punch[x]) : x \in {c.at} \ {NoPunch}} \ K
  OBVIOUS
<1>6. /\ c.op \in {"create", "bulk", "row", "device", "sync"}
      /\ c.at # NoPunch => punch[c.at] # NoPunch
      /\ IF c.op = "row" THEN LeftAlone(K) ELSE Recalculate(M, D)
      /\ Rushed(p, K) /\ Answered(p)
      /\ trash' = trash /\ off' = off /\ logs' = logs
  <2>1. /\ c.op \in {"create", "bulk", "row", "device", "sync"}
        /\ c.at # NoPunch => punch[c.at] # NoPunch
    BY <1>1 DEF InsertPunches
  <2>2. IF c.op = "row" THEN LeftAlone(K) ELSE Recalculate(M, D)
    BY <1>1, <1>2, <1>3, <1>4, <1>5 DEF InsertPunches
  <2>3. Rushed(p, K) /\ Answered(p) /\ trash' = trash /\ off' = off /\ logs' = logs
    BY <1>1, <1>2, <1>3 DEF InsertPunches
  <2> QED
    BY <2>1, <2>2, <2>3
<1>7. /\ c \in Clerk /\ c.rows \subseteq PunchRow /\ c.at \in Punches \cup {NoPunch}
      /\ InsertsRows(c, news)
  <2>1. InsertPunches(p) /\ AttendanceInvariant /\ p \in Clerks
    OBVIOUS
  <2>2. c \in Clerk /\ c.rows \subseteq PunchRow /\ c.at \in Punches \cup {NoPunch}
    BY ONLY <2>1, <1>1, <1>2, WhatIsInserted
  <2>3. InsertsRows(c, news)
    BY ONLY <2>1, <1>1, <1>2, WhatIsInserted
  <2> QED
    BY <2>2, <2>3
<1>8. K \subseteq Keys /\ M \subseteq Keys /\ K \subseteq M
  <2>1. \A r \in c.rows : Key(r) \in Keys
    BY <1>7, PunchRowIsTyped
  <2> QED
    BY <2>1, <1>2, <1>3, <1>4
<1>9. D \subseteq Keys
  BY <1>5, <1>6, <1>7, InvariantGives, PunchRowIsTyped
<1>10. ASSUME NEW k \in Keys, k \notin K PROVE off'[k] = off[k] /\ (Of(k) = {} => Of(k)' = {})
  <2>1. off'[k] = off[k]
    BY <1>6
  <2>2. ASSUME NEW x \in Of(k)' PROVE x \in Of(k)
    <3>1. x \in Punches /\ punch'[x] # NoPunch /\ Key(punch'[x]) = k
      BY DEF Of, Stored, Key
    <3>2. punch'[x] \notin news
      BY <3>1, <1>3, <1>10
    <3>3. punch[x] # NoPunch /\ Key(punch[x]) = Key(punch'[x])
      BY <3>1, <3>2, <1>7 DEF InsertsRows, Same, Key
    <3> QED
      BY <3>1, <3>3 DEF Of, Stored
  <2> QED
    BY <2>1, <2>2
<1>11. ASSUME NEW k \in Keys, k \notin K, c.at # NoPunch => news = {} \/ Key(punch[c.at]) # k
       PROVE  Untouched(k)
  <2>1. ASSUME NEW x \in Punches
        PROVE  \/ punch'[x] = punch[x]
               \/ /\ punch[x] = NoPunch \/ Key(punch[x]) # k
                  /\ punch'[x] = NoPunch \/ Key(punch'[x]) # k
    <3>1. CASE punch[x] = NoPunch /\ trash[x] = NoPunch /\ punch'[x] \in news
      BY <3>1, <1>3, <1>11
    <3>2. CASE punch'[x] = punch[x]
      BY <3>2
    <3>3. CASE /\ x = c.at /\ news # {} /\ punch[x] # NoPunch
               /\ punch'[x] # NoPunch /\ Same(punch'[x], punch[x]) /\ punch'[x].day = punch[x].day
      <4>1. c.at # NoPunch
        BY <3>3, AttendanceConstants
      <4>2. Key(punch'[x]) = Key(punch[x])
        BY <3>3 DEF Same, Key
      <4> QED
        BY <3>3, <4>1, <4>2, <1>11
    <3> QED
      BY <1>7, <3>1, <3>2, <3>3 DEF InsertsRows
  <2> QED
    BY <1>6, <2>1, OtherPunchesDoNotTouch
<1>12. DaysAreTyped
  BY DEF AttendanceInvariant
<1>13. (\A j \in calcs' : IsDayJob(j)) /\ doubtful' \subseteq Keys /\ \A k \in Keys : DayIsRight(k)'
  <2>1. \A k \in Keys : DayIsRight(k)
    BY DEF AttendanceInvariant
  <2>2. CASE c.op = "row"
    <3>1. c.at = NoPunch
      BY <2>2, <1>1 DEF AttendanceInvariant, ClerksAreSane, IsSane
    <3>2. LeftAlone(K) /\ \A k \in Keys \ K : Untouched(k)
      BY <2>2, <3>1, <1>6, <1>11
    <3>3. (\A j \in calcs' : IsDayJob(j)) /\ doubtful' \subseteq Keys
      BY <3>2, <1>8, <1>12, LeftAloneIsTyped DEF DaysAreTyped
    <3>4. \A k \in Keys : DayIsRight(k)'
      BY <3>2, <2>1, <1>6, LeftAloneKeepsDays
    <3> QED
      BY <3>3, <3>4
  <2>3. CASE c.op # "row"
    <3>1. Recalculate(M, D)
      BY <2>3, <1>6
    <3>2. \A k \in Keys \ (M \cup D) : Untouched(k)
      <4>1. ASSUME NEW k \in Keys, k \notin M, k \notin D PROVE Untouched(k)
        <5>1. k \notin K
          BY <4>1, <1>8
        <5>2. c.at # NoPunch => Key(punch[c.at]) # k
          BY <4>1, <5>1, <1>5
        <5> QED
          BY <5>1, <5>2, <1>11
      <4> QED
        BY <4>1
    <3>3. (\A j \in calcs' : IsDayJob(j)) /\ doubtful' \subseteq Keys
      BY <3>1, <1>8, <1>9, <1>12, RecalculateIsTyped DEF DaysAreTyped
    <3>4. \A k \in Keys : DayIsRight(k)'
      BY <3>1, <3>2, <2>1, <1>6, RecalculateKeepsDays
    <3> QED
      BY <3>3, <3>4
  <2> QED
    BY <2>2, <2>3
<1>14. PunchesAreTyped'
  BY InsertKeepsTypes
<1>15. RowsKeepTheirOwner'
  <2>1. \A x \in Punches : SameWho(punch[x], trash[x])
    BY DEF AttendanceInvariant, RowsKeepTheirOwner
  <2> QED
    BY <2>1, <1>6, <1>7 DEF InsertsRows, RowsKeepTheirOwner, SameWho, Same
<1>16. ASSUME NEW x \in Punches, NEW r \in PunchRow, Owned(x, r) PROVE Owned(x, r)'
  BY <1>6, <1>7, <1>16 DEF InsertsRows, Owned, SameWho, Same
<1>17. /\ rushed \subseteq rushed' /\ rushed' \subseteq Keys
       /\ \A k \in K, q \in Clerks \ {p} : k \in LookedAt(clerk[q]) => k \in rushed'
  BY <1>6, <1>8, <1>12, RushedTells DEF DaysAreTyped
<1>18. ASSUME NEW k \in K \ rushed' PROVE LeaveIsFine(k)'
  <2>1. k \in Keys \ rushed /\ OneLeave(k)
    BY <1>8, <1>17 DEF AttendanceInvariant, LeavesAreFine, LeaveIsFine
  <2>2. LookHolds(c, k)
    BY <2>1, <1>1 DEF AttendanceInvariant, LooksHold
  <2>3. \E r \in c.rows : Key(r) = k
    BY <1>2, <1>3
  <2>4. ~Hard(k)
    BY <2>2, <2>3, <1>6 DEF LookHolds, Inserting
  <2> QED
    BY <2>1, <2>4, <1>6, LeavesStay DEF LeaveIsFine
<1>19. off' \in [Keys -> [DayLeaves -> DayLeave]]
  BY <1>6, InvariantGives
<1>20. DaysChange(K)
  BY <1>10, <1>17, <1>18 DEF DaysChange
<1>21. \A q \in Clerks \ {p} : Told(q, K)
  BY <1>17 DEF Told
<1>22. \A x \in Punches, r \in PunchRow : Owned(x, r) => Owned(x, r)'
  BY <1>16
<1>23. Answered(p) /\ logs' = logs
  BY <1>6
<1>hyp. AttendanceInvariant /\ p \in Clerks
  OBVIOUS
<1> QED
  BY ONLY <1>hyp, <1>13, <1>14, <1>15, <1>17, <1>19, <1>20, <1>21, <1>22, <1>23,
     WritingKeepsTheInvariant

\* A request about one row.
LEMMA OneRow ==
  ASSUME NEW r, NEW S, S = {r} PROVE (CHOOSE s \in S : TRUE) = r
OBVIOUS

\* What an edit makes of a punch.
LEMMA EditedIsAPunch ==
  ASSUME AttendanceInvariant, NEW p \in Clerks, NEW c, c = clerk[p],
         c.op \in {"edit", "resync"}, punch[c.at] # NoPunch,
         NEW row, c.rows = {row}
  PROVE  /\ row \in PunchRow /\ c.at \in Punches /\ punch[c.at] \in PunchRow
         /\ Edited(c) \in PunchRow /\ Edited(c).who = punch[c.at].who
         /\ c.op = "resync" => Key(Edited(c)) = Key(punch[c.at])
         /\ c.op = "edit" =>
              /\ c.read \in PunchRow /\ row.who = c.read.who
              /\ Key(Edited(c)) \in {Key(punch[c.at]), Key(row)}
<1>1. c \in Clerk /\ IsSane(c)
  BY DEF AttendanceInvariant, ClerksAreTyped, ClerksAreSane
<1>2. row \in PunchRow /\ c.at \in Punches
  BY <1>1 DEF Clerk, IsSane
<1>3. PICK old : old = punch[c.at]
  OBVIOUS
<1>4. old \in PunchRow
  BY <1>2, <1>3, InvariantGives
<1>5. (CHOOSE r \in c.rows : TRUE) = row
  BY OneRow
<1>6. CASE c.op = "resync"
  <2>1. PICK t : t = row.at
    OBVIOUS
  <2>2. t \in Times
    BY <2>1, <1>2, PunchRowIsTyped
  <2>3. Edited(c) = [old EXCEPT !.at = t]
    BY <1>3, <1>5, <1>6, <2>1 DEF Edited
  <2>4. Edited(c) \in PunchRow /\ Edited(c).who = old.who /\ Edited(c).day = old.day
    BY <2>2, <2>3, <1>4 DEF PunchRow
  <2> QED
    BY <2>4, <1>2, <1>3, <1>4, <1>6 DEF Key
<1>7. CASE c.op = "edit"
  <2>1. /\ c.read \in PunchRow /\ row.who = c.read.who
        /\ Owned(c.at, c.read)
    BY <1>1, <1>7 DEF IsSane
  <2>2. PICK type : type = IF row.type = c.read.type THEN old.type ELSE row.type
    OBVIOUS
  <2>3. PICK at : at = IF row.at = c.read.at THEN old.at ELSE row.at
    OBVIOUS
  <2>4. PICK day : day = IF row.at = c.read.at THEN old.day ELSE row.day
    OBVIOUS
  <2>5. type \in Types /\ at \in Times /\ day \in {Day(t) : t \in Times}
    BY <1>2, <1>4, <2>2, <2>3, <2>4, PunchRowIsTyped
  <2>6. c.op # "resync"
    BY <1>7
  <2>7. Edited(c) =
          [old EXCEPT !.type = IF row.type = c.read.type THEN @ ELSE row.type,
                      !.at = IF row.at = c.read.at THEN @ ELSE row.at,
                      !.day = IF row.at = c.read.at THEN @ ELSE row.day]
    BY <1>3, <1>5, <2>6 DEF Edited
  <2>8. Edited(c) = [old EXCEPT !.type = type, !.at = at, !.day = day]
    BY ONLY <2>2, <2>3, <2>4, <2>7
  <2>9. Edited(c) \in PunchRow /\ Edited(c).who = old.who /\ Edited(c).day = day
    BY <2>5, <2>8, <1>4 DEF PunchRow
  <2>10. old.who = row.who
    BY <2>1, <1>3, <1>4, PunchRowIsTyped DEF Owned, SameWho
  <2> QED
    BY <2>1, <2>4, <2>9, <2>10, <1>2, <1>3, <1>4, <1>7 DEF Key
<1> QED
  BY <1>6, <1>7

\* An edit keeps the invariant.
LEMMA EditPunchKeepsIt ==
  ASSUME NEW p \in Clerks, EditPunch(p), AttendanceInvariant
  PROVE  AttendanceInvariant'
<1>1. PICK c : c = clerk[p]
  OBVIOUS
<1>2. /\ c.op \in {"edit", "resync"} /\ punch[c.at] # NoPunch
      /\ ~Taken(Edited(c), {c.at})
      /\ punch' = [punch EXCEPT ![c.at] = Edited(c)]
      /\ Recalculate(DaysToRecalculate(c),
                     {k \in {Key(punch[c.at])} : c.op = "resync" \/ punch[c.at] # c.read})
      /\ Rushed(p, {Key(Edited(c))}) /\ Answered(p)
      /\ trash' = trash /\ off' = off /\ logs' = logs
  BY <1>1 DEF EditPunch
<1>3. c \in Clerk /\ IsSane(c)
  BY <1>1 DEF AttendanceInvariant, ClerksAreTyped, ClerksAreSane
<1>4. PICK row : c.rows = {row}
  BY <1>2, <1>3 DEF IsSane
<1>5. /\ row \in PunchRow /\ c.at \in Punches /\ punch[c.at] \in PunchRow
      /\ Edited(c) \in PunchRow /\ Edited(c).who = punch[c.at].who
      /\ c.op = "resync" => Key(Edited(c)) = Key(punch[c.at])
      /\ c.op = "edit" =>
           /\ c.read \in PunchRow /\ row.who = c.read.who
           /\ Key(Edited(c)) \in {Key(punch[c.at]), Key(row)}
  BY <1>1, <1>2, <1>4, EditedIsAPunch
<1>6. PICK new : new = Edited(c)
  OBVIOUS
<1>7. PICK old : old = punch[c.at]
  OBVIOUS
<1>8. PICK x : x = c.at
  OBVIOUS
<1>9. PICK M : M = DaysToRecalculate(c)
  OBVIOUS
<1>10. PICK D : D = {k \in {Key(old)} : c.op = "resync" \/ old # c.read}
  OBVIOUS
<1>11. /\ x \in Punches /\ old = punch[x] /\ old \in PunchRow /\ new \in PunchRow
       /\ old # NoPunch /\ new # NoPunch /\ new.who = old.who
  BY <1>2, <1>5, <1>6, <1>7, <1>8, PunchRowIsTyped
<1>12. punch \in [Punches -> PunchRow \cup {NoPunch}] /\ trash \in [Punches -> PunchRow \cup {NoPunch}]
  BY InvariantGives
<1>13. \A y \in Punches : punch'[y] = IF y = x THEN new ELSE punch[y]
  BY <1>2, <1>6, <1>8, <1>12
<1>14. M \subseteq Keys /\ D \subseteq Keys /\ Key(new) \in Keys /\ Key(old) \in M \cup D
         /\ Key(new) \in M \cup D
  <2>1. Key(new) \in Keys /\ Key(old) \in Keys /\ Key(row) \in Keys
    BY <1>5, <1>11, PunchRowIsTyped
  <2>2. CASE c.op = "resync"
    <3>1. M = {Key(row)}
      BY <2>2, <1>4, <1>9, OneRow DEF DaysToRecalculate
    <3>2. Key(old) \in D /\ Key(new) = Key(old)
      BY <2>2, <1>5, <1>6, <1>7, <1>10
    <3> QED
      BY <2>1, <3>1, <3>2, <1>10
  <2>3. CASE c.op = "edit"
    <3>1. M = {Key(new), Key(c.read)} /\ Key(c.read) \in Keys
      BY <2>3, <1>5, <1>6, <1>9, PunchRowIsTyped DEF DaysToRecalculate
    <3>2. old = c.read \/ Key(old) \in D
      BY <1>10
    <3>3. D \subseteq Keys
      BY <2>1, <1>10
    <3> QED
      BY <2>1, <3>1, <3>2, <3>3
  <2> QED
    BY <2>2, <2>3, <1>2
<1>15. Recalculate(M, D) /\ Rushed(p, {Key(new)})
  <2>1. D = {k \in {Key(punch[c.at])} : c.op = "resync" \/ punch[c.at] # c.read}
    BY <1>7, <1>10
  <2> QED
    BY <2>1, <1>2, <1>6, <1>9
<1>16. ASSUME NEW k \in Keys, k \notin M \cup D PROVE Untouched(k)
  <2>1. \A y \in Punches :
           \/ punch'[y] = punch[y]
           \/ /\ punch[y] = NoPunch \/ Key(punch[y]) # k
              /\ punch'[y] = NoPunch \/ Key(punch'[y]) # k
    BY <1>11, <1>13, <1>14, <1>16
  <2> QED
    BY <2>1, <1>2, OtherPunchesDoNotTouch
<1>17. ASSUME NEW k \in Keys, k # Key(new) PROVE off'[k] = off[k] /\ (Of(k) = {} => Of(k)' = {})
  <2>1. ASSUME NEW y \in Of(k)' PROVE y \in Of(k)
    <3>1. y \in Punches /\ punch'[y] # NoPunch /\ Key(punch'[y]) = k
      BY DEF Of, Stored, Key
    <3> QED
      BY <3>1, <1>13, <1>17 DEF Of, Stored
  <2> QED
    BY <2>1, <1>2
<1>18. DaysAreTyped
  BY DEF AttendanceInvariant
<1>19. (\A j \in calcs' : IsDayJob(j)) /\ doubtful' \subseteq Keys
  BY <1>14, <1>15, <1>18, RecalculateIsTyped DEF DaysAreTyped
<1>20. \A k \in Keys : DayIsRight(k)'
  <2>1. \A k \in Keys : DayIsRight(k)
    BY DEF AttendanceInvariant
  <2> QED
    BY <2>1, <1>2, <1>15, <1>16, RecalculateKeepsDays
<1>21. PunchesAreTyped'
  <2>1. PunchesAreTyped /\ ~Taken(new, {x}) /\ punch' = [punch EXCEPT ![x] = new]
    BY <1>2, <1>6, <1>8 DEF AttendanceInvariant
  <2>2. trash' \in [Punches -> PunchRow \cup {NoPunch}]
    BY <1>2, <1>12
  <2> QED
    BY <2>1, <2>2, <1>11, PutKeepsTypes
<1>22. RowsKeepTheirOwner'
  <2>1. \A y \in Punches : SameWho(punch[y], trash[y])
    BY DEF AttendanceInvariant, RowsKeepTheirOwner
  <2> QED
    BY <2>1, <1>2, <1>11, <1>13 DEF RowsKeepTheirOwner, SameWho
<1>23. ASSUME NEW y \in Punches, NEW r \in PunchRow, Owned(y, r) PROVE Owned(y, r)'
  BY <1>2, <1>11, <1>13, <1>23 DEF Owned, SameWho
<1>24. /\ rushed \subseteq rushed' /\ rushed' \subseteq Keys
       /\ \A k \in {Key(new)}, q \in Clerks \ {p} : k \in LookedAt(clerk[q]) => k \in rushed'
  <2>1. {Key(new)} \subseteq Keys /\ rushed \subseteq Keys
    BY <1>14, <1>18 DEF DaysAreTyped
  <2> QED
    BY <2>1, <1>15, RushedTells
<1>25. ASSUME NEW k \in {Key(new)} \ rushed' PROVE LeaveIsFine(k)'
  <2>1. k \in Keys \ rushed /\ LeaveIsFine(k)
    BY <1>14, <1>24 DEF AttendanceInvariant, LeavesAreFine
  <2>2. LookHolds(c, k)
    BY <2>1, <1>1 DEF AttendanceInvariant, LooksHold
  <2>3. Hard(k)' = Hard(k) /\ OneLeave(k)'
    BY <2>1, <1>2, LeavesStay DEF LeaveIsFine
  <2>4. CASE k = Key(old)
    <3>1. x \in Of(k)
      BY <2>4, <1>11 DEF Of, Stored
    <3> QED
      BY <3>1, <2>1, <2>3 DEF LeaveIsFine
  <2>5. CASE k # Key(old)
    <3>1. c.op = "edit" /\ k = Key(row)
      BY <2>5, <1>2, <1>5, <1>6, <1>7, <1>25
    <3>2. ~Hard(k)
      BY <3>1, <2>2, <1>4 DEF LookHolds, Inserting
    <3> QED
      BY <3>2, <2>3 DEF LeaveIsFine
  <2> QED
    BY <2>4, <2>5
<1>26. off' \in [Keys -> [DayLeaves -> DayLeave]]
  BY <1>2, InvariantGives
<1>27. PICK K : K = {Key(new)}
  OBVIOUS
<1>28. DaysChange(K) /\ \A q \in Clerks \ {p} : Told(q, K)
  BY <1>17, <1>24, <1>25, <1>27 DEF DaysChange, Told
<1>hyp. AttendanceInvariant /\ p \in Clerks
  OBVIOUS
<1> QED
  BY ONLY <1>hyp, <1>2, <1>19, <1>20, <1>21, <1>22, <1>23, <1>24, <1>26, <1>28, WritingKeepsTheInvariant

\* A removal keeps the invariant.
LEMMA RemovePunchKeepsIt ==
  ASSUME NEW p \in Clerks, RemovePunch(p), AttendanceInvariant
  PROVE  AttendanceInvariant'
<1>1. PICK c : c = clerk[p]
  OBVIOUS
<1>2. /\ c.op = "remove" /\ punch[c.at] # NoPunch
      /\ trash' = [trash EXCEPT ![c.at] = c.read]
      /\ punch' = [punch EXCEPT ![c.at] = NoPunch]
      /\ LeftAlone({Key(punch[c.at])}) /\ Answered(p)
      /\ off' = off /\ logs' = logs /\ rushed' = rushed
  BY <1>1 DEF RemovePunch
<1>3. c.at \in Punches /\ c.read \in PunchRow /\ Owned(c.at, c.read)
  BY <1>1, <1>2 DEF AttendanceInvariant, ClerksAreSane, IsSane
<1>4. PICK x : x = c.at
  OBVIOUS
<1>5. PICK old : old = punch[x]
  OBVIOUS
<1>6. punch \in [Punches -> PunchRow \cup {NoPunch}] /\ trash \in [Punches -> PunchRow \cup {NoPunch}]
  BY InvariantGives
<1>7. x \in Punches /\ old \in PunchRow /\ c.read # NoPunch /\ c.read \in PunchRow
  BY <1>2, <1>3, <1>4, <1>5, <1>6, AttendanceConstants
<1>8. /\ \A y \in Punches : punch'[y] = IF y = x THEN NoPunch ELSE punch[y]
      /\ \A y \in Punches : trash'[y] = IF y = x THEN c.read ELSE trash[y]
  BY <1>2, <1>4, <1>6
<1>9. Key(old) \in Keys /\ LeftAlone({Key(old)})
  BY <1>2, <1>4, <1>5, <1>7, PunchRowIsTyped
<1>10. ASSUME NEW k \in Keys, k # Key(old) PROVE Untouched(k)
  <2>1. \A y \in Punches :
           \/ punch'[y] = punch[y]
           \/ /\ punch[y] = NoPunch \/ Key(punch[y]) # k
              /\ punch'[y] = NoPunch \/ Key(punch'[y]) # k
    BY <1>5, <1>8, <1>10
  <2> QED
    BY <2>1, <1>2, OtherPunchesDoNotTouch
<1>11. ASSUME NEW k \in Keys PROVE off'[k] = off[k] /\ (Of(k) = {} => Of(k)' = {})
  <2>1. ASSUME NEW y \in Of(k)' PROVE y \in Of(k)
    <3>1. y \in Punches /\ punch'[y] # NoPunch /\ Key(punch'[y]) = k
      BY DEF Of, Stored, Key
    <3> QED
      BY <3>1, <1>8 DEF Of, Stored
  <2> QED
    BY <2>1, <1>2
<1>12. DaysAreTyped
  BY DEF AttendanceInvariant
<1>13. (\A j \in calcs' : IsDayJob(j)) /\ doubtful' \subseteq Keys
  BY <1>9, <1>12, LeftAloneIsTyped DEF DaysAreTyped
<1>14. \A k \in Keys : DayIsRight(k)'
  <2>1. \A k \in Keys : DayIsRight(k)
    BY DEF AttendanceInvariant
  <2>2. \A k \in Keys \ {Key(old)} : Untouched(k)
    BY <1>10
  <2> QED
    BY <2>1, <2>2, <1>2, <1>9, LeftAloneKeepsDays
<1>15. PunchesAreTyped'
  <2>1. punch' \in [Punches -> PunchRow \cup {NoPunch}] /\ trash' \in [Punches -> PunchRow \cup {NoPunch}]
    BY <1>2, <1>6, <1>7
  <2>2. \A y, z \in Stored : y # z => ~Same(punch[z], punch[y])
    BY DEF AttendanceInvariant, PunchesAreTyped, Taken
  <2>3. ASSUME NEW y \in Punches, punch'[y] # NoPunch, NEW z \in Punches, punch'[z] # NoPunch,
               y # z, Same(punch'[z], punch'[y])
        PROVE  FALSE
    BY <2>2, <2>3, <1>8 DEF Stored
  <2>4. \A y \in Stored' : ~Taken(punch[y], {y})'
    BY <2>3 DEF Stored, Taken, Same
  <2> QED
    BY <2>1, <2>4 DEF PunchesAreTyped
<1>16. RowsKeepTheirOwner'
  <2>1. \A y \in Punches : SameWho(punch[y], trash[y])
    BY DEF AttendanceInvariant, RowsKeepTheirOwner
  <2> QED
    BY <2>1, <1>8 DEF RowsKeepTheirOwner, SameWho
<1>17. old.who = c.read.who
  BY <1>3, <1>4, <1>5, <1>7, AttendanceConstants DEF Owned, SameWho
<1>18. ASSUME NEW y \in Punches, NEW r \in PunchRow, Owned(y, r) PROVE Owned(y, r)'
  <2>1. r # NoPunch /\ old # NoPunch
    BY <1>7, AttendanceConstants
  <2> QED
    BY <2>1, <1>5, <1>7, <1>8, <1>17, <1>18 DEF Owned, SameWho
<1>19. off' \in [Keys -> [DayLeaves -> DayLeave]] /\ rushed' \subseteq Keys /\ rushed \subseteq rushed'
  BY <1>2, <1>12, InvariantGives DEF DaysAreTyped
<1>20. PICK K : K = {}
  OBVIOUS
<1>21. DaysChange(K) /\ \A q \in Clerks \ {p} : Told(q, K)
  BY <1>11, <1>20, <1>19 DEF DaysChange, Told
<1>hyp. AttendanceInvariant /\ p \in Clerks
  OBVIOUS
<1> QED
  BY ONLY <1>hyp, <1>2, <1>13, <1>14, <1>15, <1>16, <1>18, <1>19, <1>21, WritingKeepsTheInvariant

\* A restore keeps the invariant.
LEMMA RestorePunchKeepsIt ==
  ASSUME NEW p \in Clerks, RestorePunch(p), AttendanceInvariant
  PROVE  AttendanceInvariant'
<1>1. PICK c : c = clerk[p]
  OBVIOUS
<1>2. c.op = "restore"
  BY <1>1 DEF RestorePunch
<1>3. c \in Clerk /\ IsSane(c)
  BY <1>1 DEF AttendanceInvariant, ClerksAreTyped, ClerksAreSane
<1>4. PICK row : c.rows = {row}
  BY <1>2, <1>3 DEF IsSane
<1>5. (CHOOSE r \in c.rows : TRUE) = row
  BY <1>4, OneRow
<1>6. /\ punch[c.at] = NoPunch /\ ~Taken(row, {})
      /\ punch' = [punch EXCEPT ![c.at] = row]
      /\ trash' = [trash EXCEPT ![c.at] = IF @ = c.read THEN NoPunch ELSE @]
      /\ LeftAlone({Key(row)}) /\ Rushed(p, {Key(row)}) /\ Answered(p)
      /\ off' = off /\ logs' = logs
  BY <1>1, <1>5 DEF RestorePunch
<1>7. /\ row \in PunchRow /\ c.at \in Punches /\ c.read \in PunchRow /\ Owned(c.at, c.read)
      /\ row.who = c.read.who
  BY <1>2, <1>3, <1>4 DEF Clerk, IsSane
<1>8. PICK x : x = c.at
  OBVIOUS
<1>9. punch \in [Punches -> PunchRow \cup {NoPunch}] /\ trash \in [Punches -> PunchRow \cup {NoPunch}]
  BY InvariantGives
<1>10. /\ x \in Punches /\ Key(row) \in Keys /\ row # NoPunch /\ c.read # NoPunch
       /\ punch[x] = NoPunch
  BY <1>6, <1>7, <1>8, PunchRowIsTyped
<1>11. /\ \A y \in Punches : punch'[y] = IF y = x THEN row ELSE punch[y]
       /\ \A y \in Punches : y # x => trash'[y] = trash[y]
       /\ trash'[x] \in {NoPunch, trash[x]}
  BY <1>6, <1>8, <1>9, <1>10
<1>12. trash' \in [Punches -> PunchRow \cup {NoPunch}]
  BY <1>6, <1>9
<1>13. ASSUME NEW k \in Keys, k # Key(row)
       PROVE  Untouched(k) /\ off'[k] = off[k] /\ (Of(k) = {} => Of(k)' = {})
  <2>1. \A y \in Punches :
           \/ punch'[y] = punch[y]
           \/ /\ punch[y] = NoPunch \/ Key(punch[y]) # k
              /\ punch'[y] = NoPunch \/ Key(punch'[y]) # k
    BY <1>10, <1>11, <1>13
  <2>2. Untouched(k)
    BY <2>1, <1>6, OtherPunchesDoNotTouch
  <2> QED
    BY <2>2 DEF Untouched
<1>14. DaysAreTyped
  BY DEF AttendanceInvariant
<1>15. (\A j \in calcs' : IsDayJob(j)) /\ doubtful' \subseteq Keys
  BY <1>6, <1>10, <1>14, LeftAloneIsTyped DEF DaysAreTyped
<1>16. \A k \in Keys : DayIsRight(k)'
  <2>1. \A k \in Keys : DayIsRight(k)
    BY DEF AttendanceInvariant
  <2>2. \A k \in Keys \ {Key(row)} : Untouched(k)
    BY <1>13
  <2> QED
    BY <2>1, <2>2, <1>6, LeftAloneKeepsDays
<1>17. PunchesAreTyped'
  <2>1. PunchesAreTyped /\ ~Taken(row, {x}) /\ punch' = [punch EXCEPT ![x] = row]
    BY <1>6, <1>8 DEF AttendanceInvariant, Taken
  <2> QED
    BY <2>1, <1>7, <1>10, <1>12, PutKeepsTypes
<1>18. SameWho(row, trash[x]) /\ \A r \in PunchRow : Owned(x, r) => r.who = row.who
  <2>1. trash[x] # NoPunch /\ trash[x].who = row.who
    BY <1>7, <1>8, <1>10 DEF Owned, SameWho
  <2> QED
    BY <2>1, <1>10, AttendanceConstants DEF Owned, SameWho
<1>19. RowsKeepTheirOwner'
  <2>1. \A y \in Punches : SameWho(punch[y], trash[y])
    BY DEF AttendanceInvariant, RowsKeepTheirOwner
  <2> QED
    BY <2>1, <1>11, <1>18 DEF RowsKeepTheirOwner, SameWho
<1>20. ASSUME NEW y \in Punches, NEW r \in PunchRow, Owned(y, r) PROVE Owned(y, r)'
  BY <1>10, <1>11, <1>18, <1>20 DEF Owned, SameWho
<1>21. /\ rushed \subseteq rushed' /\ rushed' \subseteq Keys
       /\ \A k \in {Key(row)}, q \in Clerks \ {p} : k \in LookedAt(clerk[q]) => k \in rushed'
  <2>1. {Key(row)} \subseteq Keys /\ rushed \subseteq Keys
    BY <1>10, <1>14 DEF DaysAreTyped
  <2> QED
    BY <2>1, <1>6, RushedTells
<1>22. ASSUME NEW k \in {Key(row)} \ rushed' PROVE LeaveIsFine(k)'
  <2>1. k \in Keys \ rushed /\ OneLeave(k)
    BY <1>10, <1>21 DEF AttendanceInvariant, LeavesAreFine, LeaveIsFine
  <2>2. LookHolds(c, k)
    BY <2>1, <1>1 DEF AttendanceInvariant, LooksHold
  <2>3. ~Hard(k)
    BY <2>2, <1>2, <1>4 DEF LookHolds, Inserting
  <2> QED
    BY <2>1, <2>3, <1>6, LeavesStay DEF LeaveIsFine
<1>23. off' \in [Keys -> [DayLeaves -> DayLeave]]
  BY <1>6, InvariantGives
<1>24. PICK K : K = {Key(row)}
  OBVIOUS
<1>25. DaysChange(K) /\ \A q \in Clerks \ {p} : Told(q, K)
  BY <1>13, <1>21, <1>22, <1>24 DEF DaysChange, Told
<1>hyp. AttendanceInvariant /\ p \in Clerks
  OBVIOUS
<1> QED
  BY ONLY <1>hyp, <1>6, <1>15, <1>16, <1>17, <1>19, <1>20, <1>21, <1>23, <1>25, WritingKeepsTheInvariant

\* A leave that is there no more.
LEMMA LeaveGoes ==
  ASSUME NEW k \in Keys, NEW x \in DayLeaves, LeaveIsFine(k), Of(k)' = Of(k),
         \A y \in DayLeaves \ {x} : off'[k][y] = off[k][y], ~On(k, x)'
  PROVE  LeaveIsFine(k)'
<1>1. \A y \in DayLeaves : On(k, y)' => y # x /\ On(k, y) /\ off'[k][y] = off[k][y]
  BY DEF On
<1>2. OneLeave(k)'
  BY <1>1 DEF LeaveIsFine, OneLeave
<1>3. ASSUME Hard(k)' PROVE Hard(k)
  <2>1. PICK y \in DayLeaves : On(k, y)' /\ off'[k][y].kind = "hard"
    BY <1>3 DEF Hard, OffFor
  <2> QED
    BY <2>1, <1>1 DEF Hard, OffFor
<1> QED
  BY <1>2, <1>3 DEF LeaveIsFine

\* A leave that is the only one.
LEMMA LeaveComes ==
  ASSUME NEW k \in Keys, NEW x \in DayLeaves, Of(k)' = Of(k),
         \A y \in DayLeaves \ {x} : ~On(k, y) /\ off'[k][y] = off[k][y],
         off'[k][x].kind = "hard" => Of(k) = {}
  PROVE  LeaveIsFine(k)'
<1>1. \A y \in DayLeaves : On(k, y)' => y = x
  BY DEF On
<1>2. OneLeave(k)'
  BY <1>1 DEF OneLeave
<1>3. ASSUME Hard(k)' PROVE Of(k) = {}
  <2>1. PICK y \in DayLeaves : On(k, y)' /\ off'[k][y].kind = "hard"
    BY <1>3 DEF Hard, OffFor
  <2> QED
    BY <2>1, <1>1
<1> QED
  BY <1>2, <1>3 DEF LeaveIsFine

\* A decision about a leave keeps the invariant.
LEMMA DecideLeaveKeepsIt ==
  ASSUME NEW p \in Clerks, DecideLeave(p), AttendanceInvariant
  PROVE  AttendanceInvariant'
<1>1. PICK c : c = clerk[p]
  OBVIOUS
<1>2. /\ c.op \in {"leave", "unleave"}
      /\ off' = [off EXCEPT ![c.key][c.leave.row] = c.leave.now]
      /\ LeftAlone({c.key}) /\ Rushed(p, {c.key}) /\ Answered(p)
      /\ punch' = punch /\ trash' = trash /\ logs' = logs
  BY <1>1 DEF DecideLeave
<1>3. /\ c.key \in Keys /\ c.leave.row \in DayLeaves /\ c.leave.now \in DayLeave
      /\ c.leave.now.removed = (c.op = "unleave")
  <2>1. c.key \in Keys /\ c.leave \in LeaveNow /\ c.leave.now.removed = (c.op = "unleave")
    BY <1>1, <1>2 DEF AttendanceInvariant, ClerksAreSane, IsSane
  <2> QED
    BY <2>1 DEF LeaveNow
<1>4. off \in [Keys -> [DayLeaves -> DayLeave]]
  BY InvariantGives
<1>5. /\ off' \in [Keys -> [DayLeaves -> DayLeave]]
      /\ \A k \in Keys \ {c.key} : off'[k] = off[k]
      /\ off'[c.key][c.leave.row] = c.leave.now
      /\ \A y \in DayLeaves \ {c.leave.row} : off'[c.key][y] = off[c.key][y]
  BY <1>2, <1>3, <1>4
<1>6. \A k : Of(k)' = Of(k) /\ RowsOf(k)' = RowsOf(k)
  BY <1>2 DEF Of, RowsOf, Stored, Key
<1>7. \A k \in Keys \ {c.key} : Untouched(k) /\ off'[k] = off[k]
  BY <1>5, <1>6 DEF Untouched
<1>8. DaysAreTyped
  BY DEF AttendanceInvariant
<1>9. (\A j \in calcs' : IsDayJob(j)) /\ doubtful' \subseteq Keys
  BY <1>2, <1>3, <1>8, LeftAloneIsTyped DEF DaysAreTyped
<1>10. \A k \in Keys : DayIsRight(k)'
  <2>1. \A k \in Keys : DayIsRight(k)
    BY DEF AttendanceInvariant
  <2> QED
    BY <2>1, <1>2, <1>7, LeftAloneKeepsDays
<1>11. PunchesAreTyped'
  BY <1>2 DEF AttendanceInvariant, PunchesAreTyped, Stored, Taken, Same
<1>12. RowsKeepTheirOwner'
  BY <1>2 DEF AttendanceInvariant, RowsKeepTheirOwner
<1>13. \A x \in Punches, r \in PunchRow : Owned(x, r) => Owned(x, r)'
  BY <1>2 DEF Owned
<1>14. /\ rushed \subseteq rushed' /\ rushed' \subseteq Keys
       /\ \A k \in {c.key}, q \in Clerks \ {p} : k \in LookedAt(clerk[q]) => k \in rushed'
  <2>1. {c.key} \subseteq Keys /\ rushed \subseteq Keys
    BY <1>3, <1>8 DEF DaysAreTyped
  <2> QED
    BY <2>1, <1>2, RushedTells
<1>15. ASSUME NEW k \in {c.key} \ rushed' PROVE LeaveIsFine(k)'
  <2>1. k \in Keys \ rushed /\ LeaveIsFine(k) /\ k = c.key
    BY <1>3, <1>14 DEF AttendanceInvariant, LeavesAreFine
  <2>2. CASE c.op = "unleave" \/ c.leave.now.kind = "none"
    <3>1. ~On(k, c.leave.row)'
      BY <2>1, <2>2, <1>3, <1>5 DEF On
    <3> QED
      BY <3>1, <2>1, <1>3, <1>5, <1>6, LeaveGoes
  <2>3. CASE c.op = "leave" /\ c.leave.now.kind # "none"
    <3>1. LookHolds(c, k)
      BY <2>1, <1>1 DEF AttendanceInvariant, LooksHold
    <3>2. /\ \A y \in DayLeaves \ {c.leave.row} : ~On(k, y)
          /\ c.leave.now.kind = "hard" => Of(k) = {}
      BY <3>1, <2>1, <2>3 DEF LookHolds
    <3> QED
      BY <3>2, <2>1, <1>3, <1>5, <1>6, LeaveComes
  <2> QED
    BY <2>2, <2>3, <1>2
<1>16. PICK K : K = {c.key}
  OBVIOUS
<1>17. DaysChange(K) /\ \A q \in Clerks \ {p} : Told(q, K)
  BY <1>6, <1>7, <1>14, <1>15, <1>16 DEF DaysChange, Told
<1>hyp. AttendanceInvariant /\ p \in Clerks
  OBVIOUS
<1> QED
  BY ONLY <1>hyp, <1>2, <1>5, <1>9, <1>10, <1>11, <1>12, <1>13, <1>14, <1>17, WritingKeepsTheInvariant

\* A restored leave keeps the invariant.
LEMMA RestoreLeaveKeepsIt ==
  ASSUME NEW k \in Keys, NEW x \in DayLeaves, RestoreLeave(k, x), AttendanceInvariant
  PROVE  AttendanceInvariant'
<1>1. /\ off' = [off EXCEPT ![k][x].removed = FALSE] /\ LeftAlone({k})
      /\ rushed' = IF \/ Of(k) # {} \/ OffFor(k) # {}
                      \/ \E q \in Clerks : k \in LookedAt(clerk[q])
                   THEN rushed \cup {k} ELSE rushed
      /\ punch' = punch /\ trash' = trash /\ logs' = logs /\ clerk' = clerk
  BY DEF RestoreLeave
<1>2. off \in [Keys -> [DayLeaves -> DayLeave]]
  BY InvariantGives
<1>3. PICK now : now = [off[k][x] EXCEPT !.removed = FALSE]
  OBVIOUS
<1>4. now \in DayLeave /\ off' = [off EXCEPT ![k][x] = now]
  <2>1. off[k][x] \in DayLeave
    BY <1>2
  <2>2. now \in DayLeave
    BY <2>1, <1>3 DEF DayLeave
  <2>3. off' = [off EXCEPT ![k][x] = now]
    BY <1>1, <1>3
  <2> QED
    BY <2>2, <2>3
<1>5. /\ off' \in [Keys -> [DayLeaves -> DayLeave]]
      /\ \A d \in Keys \ {k} : off'[d] = off[d]
      /\ \A y \in DayLeaves \ {x} : off'[k][y] = off[k][y]
  BY <1>2, <1>4
<1>6. \A d : Of(d)' = Of(d) /\ RowsOf(d)' = RowsOf(d)
  BY <1>1 DEF Of, RowsOf, Stored, Key
<1>7. \A d \in Keys \ {k} : Untouched(d)
  BY <1>5, <1>6 DEF Untouched
<1>8. DaysAreTyped
  BY DEF AttendanceInvariant
<1>9. (\A j \in calcs' : IsDayJob(j)) /\ doubtful' \subseteq Keys
  BY <1>1, <1>8, LeftAloneIsTyped DEF DaysAreTyped
<1>10. \A d \in Keys : DayIsRight(d)'
  <2>1. \A d \in Keys : DayIsRight(d)
    BY DEF AttendanceInvariant
  <2> QED
    BY <2>1, <1>1, <1>7, LeftAloneKeepsDays
<1>11. PunchesAreTyped' /\ RowsKeepTheirOwner'
  BY <1>1 DEF AttendanceInvariant, PunchesAreTyped, Stored, Taken, Same, RowsKeepTheirOwner
<1>12. ClerksAreTyped' /\ ClerksAreSane'
  <2>1. ASSUME NEW q \in Clerks PROVE IsSane(clerk[q])'
    <3>1. clerk'[q] = clerk[q] /\ IsSane(clerk[q])
      BY <1>1 DEF AttendanceInvariant, ClerksAreSane
    <3> QED
      BY <3>1, <1>1 DEF IsSane, Owned, Same
  <2> QED
    BY <2>1, <1>1 DEF AttendanceInvariant, ClerksAreTyped, ClerksAreSane
<1>13. /\ rushed \subseteq rushed' /\ rushed' \subseteq Keys
       /\ \A q \in Clerks : k \in LookedAt(clerk[q]) => k \in rushed'
       /\ k \notin rushed' => Of(k) = {} /\ OffFor(k) = {}
  BY <1>1, <1>8 DEF DaysAreTyped
<1>14. ASSUME NEW d \in {k} \ rushed' PROVE LeaveIsFine(d)'
  <2>1. d = k /\ Of(k) = {} /\ OffFor(k) = {}
    BY <1>13
  <2>2. \A y \in DayLeaves : ~On(k, y)
    BY <2>1 DEF OffFor
  <2> QED
    BY <2>1, <2>2, <1>5, <1>6, LeaveComes
<1>15. LooksHold' /\ LeavesAreFine'
  <2>1. LooksHold /\ LeavesAreFine
    BY DEF AttendanceInvariant
  <2>2. \A q \in Clerks : clerk'[q] = clerk[q] /\ Told(q, {k})
    BY <1>1, <1>13 DEF Told
  <2>3. DaysChange({k})
    BY <1>5, <1>6, <1>13, <1>14 DEF DaysChange
  <2> QED
    BY ONLY <2>1, <2>2, <2>3, LooksStay
<1>16. DaysAreTyped'
  BY <1>1, <1>5, <1>8, <1>9, <1>13 DEF DaysAreTyped, IsDayJob
<1> QED
  BY <1>10, <1>11, <1>12, <1>15, <1>16 DEF AttendanceInvariant

\* A request that fails has done nothing.
LEMMA FailRequestKeepsIt ==
  ASSUME NEW p \in Clerks, FailRequest(p), AttendanceInvariant
  PROVE  AttendanceInvariant'
<1>1. Answered(p) /\ UNCHANGED <<punch, trash, off, logs, calcs, doubtful, rushed>>
  BY DEF FailRequest
<1>2. \A k : Of(k)' = Of(k) /\ RowsOf(k)' = RowsOf(k) /\ Untouched(k) /\ RunningOn(k)' = RunningOn(k)
  BY <1>1 DEF Of, RowsOf, Stored, Key, Untouched, RunningOn
<1>3. \A k \in Keys : DayIsRight(k)'
  BY <1>1, <1>2, DayStaysRight DEF AttendanceInvariant
<1>4. PunchesAreTyped'
  BY <1>1 DEF AttendanceInvariant, PunchesAreTyped, Stored, Taken, Same
<1>5. RowsKeepTheirOwner' /\ \A x \in Punches, r \in PunchRow : Owned(x, r) => Owned(x, r)'
  BY <1>1 DEF AttendanceInvariant, RowsKeepTheirOwner, Owned
<1>6. /\ off' \in [Keys -> [DayLeaves -> DayLeave]] /\ logs' = logs /\ doubtful' \subseteq Keys
      /\ rushed' \subseteq Keys /\ rushed \subseteq rushed' /\ \A j \in calcs' : IsDayJob(j)
  BY <1>1 DEF AttendanceInvariant, DaysAreTyped
<1>7. PICK K : K = {}
  OBVIOUS
<1>8. DaysChange(K) /\ \A q \in Clerks \ {p} : Told(q, K)
  BY <1>1, <1>2, <1>7, <1>6 DEF DaysChange, Told
<1>hyp. AttendanceInvariant /\ p \in Clerks
  OBVIOUS
<1> QED
  BY ONLY <1>hyp, <1>1, <1>3, <1>4, <1>5, <1>6, <1>8, WritingKeepsTheInvariant

\* As long as punches, leaves and requests stay, only the days matter.
LEMMA CalculatingKeepsTheInvariant ==
  ASSUME AttendanceInvariant, UNCHANGED <<punch, trash, off, clerk, rushed>>,
         logs' \in [Keys -> [LogTypes -> Nat]], doubtful' \subseteq Keys,
         \A j \in calcs' : IsDayJob(j), \A k \in Keys : DayIsRight(k)'
  PROVE  AttendanceInvariant'
<1>1. \A k : Of(k)' = Of(k)
  BY DEF Of, Stored, Key
<1>leaves. \A k : /\ Hard(k)' = Hard(k) /\ OneLeave(k)' = OneLeave(k)
                  /\ \A y : On(k, y)' = On(k, y)
  BY LeavesStay
<1>2. PunchesAreTyped'
  BY DEF AttendanceInvariant, PunchesAreTyped, Stored, Taken, Same
<1>3. DaysAreTyped'
  BY DEF AttendanceInvariant, DaysAreTyped, IsDayJob
<1>4. ClerksAreTyped'
  BY DEF AttendanceInvariant, ClerksAreTyped
<1>5. RowsKeepTheirOwner'
  BY DEF AttendanceInvariant, RowsKeepTheirOwner
<1>6. ClerksAreSane'
  <2>1. ASSUME NEW q \in Clerks PROVE IsSane(clerk[q])'
    <3>1. clerk'[q] = clerk[q] /\ IsSane(clerk[q])
      BY DEF AttendanceInvariant, ClerksAreSane
    <3> QED
      BY <3>1 DEF IsSane, Owned, Same
  <2> QED
    BY <2>1 DEF ClerksAreSane
<1>7. LooksHold'
  <2>1. ASSUME NEW q \in Clerks, NEW k \in Keys \ rushed' PROVE LookHolds(clerk[q], k)'
    <3>1. clerk'[q] = clerk[q] /\ LookHolds(clerk[q], k)
      BY <2>1 DEF AttendanceInvariant, LooksHold
    <3> QED
      BY <3>1, <1>1, <1>leaves DEF LookHolds, Key
  <2> QED
    BY <2>1 DEF LooksHold
<1>8. LeavesAreFine'
  BY <1>1, <1>leaves DEF AttendanceInvariant, LeavesAreFine, LeaveIsFine
<1> QED
  BY <1>2, <1>3, <1>4, <1>5, <1>6, <1>7, <1>8 DEF AttendanceInvariant

\* A day that is to be calculated keeps the invariant.
LEMMA AskForDayKeepsIt ==
  ASSUME AttendanceInvariant, NEW k \in Keys, AskForDay(k)
  PROVE  AttendanceInvariant'
<1>1. Recalculate({k}, {}) /\ UNCHANGED <<punch, trash, off, logs, clerk, rushed>>
  BY DEF AskForDay
<1>2. DaysAreTyped /\ \A d \in Keys : DayIsRight(d)
  BY DEF AttendanceInvariant
<1>3. (\A j \in calcs' : IsDayJob(j)) /\ doubtful' \subseteq Keys
  <2>1. {k} \subseteq Keys /\ {} \subseteq Keys
    OBVIOUS
  <2> QED
    BY <2>1, <1>1, <1>2, RecalculateIsTyped DEF DaysAreTyped
<1>4. \A d : Untouched(d)
  BY <1>1 DEF Of, RowsOf, Stored, Key, Untouched
<1>5. \A d \in Keys : DayIsRight(d)'
  BY <1>1, <1>2, <1>4, RecalculateKeepsDays
<1>6. logs' \in [Keys -> [LogTypes -> Nat]]
  BY <1>1, <1>2 DEF DaysAreTyped
<1> QED
  BY <1>1, <1>3, <1>5, <1>6, CalculatingKeepsTheInvariant

\* A step of a calculation disturbs no other day.
LEMMA OtherDaysStayRight ==
  ASSUME AttendanceInvariant, NEW k, Elsewhere,
         \A d \in Keys \ {k} : logs'[d] = logs[d],
         \A d \in Keys \ {k} : RunningOn(d)' = RunningOn(d), doubtful \subseteq doubtful'
  PROVE  \A d \in Keys \ {k} : DayIsRight(d)'
<1>1. \A d : Untouched(d)
  BY DEF Elsewhere, Of, RowsOf, Stored, Key, Untouched
<1>2. \A d \in Keys : DayIsRight(d)
  BY DEF AttendanceInvariant
<1> QED
  BY <1>1, <1>2, DayStaysRight

\* A calculation that goes on.
LEMMA CalculationGoesOn ==
  ASSUME NEW j \in calcs, NEW i, i.key = j.key, calcs' = (calcs \ {j}) \cup {i}, NEW d
  PROVE  /\ d # j.key => RunningOn(d)' = RunningOn(d)
         /\ (\A a, b \in RunningOn(j.key) : a = b) => RunningOn(j.key)' = {i}
BY DEF RunningOn

\* A calculation that is over.
LEMMA CalculationIsOver ==
  ASSUME NEW j \in calcs, calcs' = calcs \ {j}, NEW d
  PROVE  /\ d # j.key => RunningOn(d)' = RunningOn(d)
         /\ (\A a, b \in RunningOn(j.key) : a = b) => RunningOn(j.key)' = {}
BY DEF RunningOn

\* The fields of a calculation that has read its day
LEMMA ReadingAJob ==
  ASSUME NEW j, NEW i, NEW key, NEW no, NEW stage, NEW rows, NEW hourly, NEW kept,
         NEW news, NEW h,
         j = [key |-> key, no |-> no, stage |-> stage, rows |-> rows, hourly |-> hourly,
              kept |-> kept],
         i = [j EXCEPT !.stage = "delete", !.rows = news, !.hourly = h]
  PROVE  i = [key |-> key, no |-> no, stage |-> "delete", rows |-> news, hourly |-> h,
              kept |-> kept]
OBVIOUS

\* A calculation that reads its day keeps the invariant.
LEMMA ReadDayKeepsIt ==
  ASSUME AttendanceInvariant, NEW j \in calcs, ReadDay(j)
  PROVE  AttendanceInvariant'
<1>1. DaysAreTyped /\ IsDayJob(j) /\ j.key \in Keys
  BY DEF AttendanceInvariant, DaysAreTyped, IsDayJob
<1>2. /\ j.stage = "read" /\ doubtful' = doubtful /\ Elsewhere
      /\ UNCHANGED <<punch, trash, off, clerk, rushed>>
  BY DEF ReadDay, Elsewhere
<1>3. PICK k : k = j.key
  OBVIOUS
<1>4. Untouched(k)
  BY <1>2 DEF Of, RowsOf, Stored, Key, Untouched
<1>5. DayIsRight(k)
  BY <1>1, <1>3 DEF AttendanceInvariant
<1>6. j \in RunningOn(k)
  BY <1>3 DEF RunningOn
<1>7. /\ FullDay(k)' = FullDay(k) /\ Hourly(k)' = Hourly(k)
      /\ Of(k)' = Of(k) /\ RowsOf(k)' = RowsOf(k)
  BY <1>4, LeavesStay DEF Untouched
<1>8. CASE FullDay(k) \/ Of(k) = {}
  <2>1. logs' = [logs EXCEPT ![k] = Unlogged] /\ calcs' = calcs \ {j}
    BY <1>3, <1>8 DEF ReadDay, Cleared
  <2>2. logs' \in [Keys -> [LogTypes -> Nat]] /\ logs'[k] = Unlogged
          /\ \A d \in Keys \ {k} : logs'[d] = logs[d]
    <3>1. Unlogged \in [LogTypes -> Nat]
      BY DEF LogTypes, Unlogged
    <3> QED
      BY <2>1, <3>1, <1>1, <1>3 DEF DaysAreTyped
  <2>3. \A d \in Keys \ {k} : RunningOn(d)' = RunningOn(d)
    BY <2>1, <1>3, CalculationIsOver
  <2>4. \A d \in Keys \ {k} : DayIsRight(d)'
    BY <2>2, <2>3, <1>2, OtherDaysStayRight
  <2>5. DayIsRight(k)'
    <3>1. CASE k \in doubtful
      BY <3>1, <1>2 DEF DayIsRight
    <3>2. CASE k \notin doubtful
      <4>1. RunningOn(k)' = {}
        BY <2>1, <3>2, <1>3, <1>5, CalculationIsOver DEF DayIsRight
      <4>2. Due(k)' = Unlogged
        BY <1>7, <1>8 DEF Due
      <4>3. LogsAreDue(k)'
        BY <4>2, <2>2 DEF LogsAreDue
      <4> QED
        BY <4>1, <4>3 DEF DayIsRight
    <3> QED
      BY <3>1, <3>2
  <2>6. (\A i \in calcs' : IsDayJob(i)) /\ doubtful' \subseteq Keys
    BY <2>1, <1>1, <1>2 DEF DaysAreTyped
  <2> QED
    BY <2>2, <2>4, <2>5, <2>6, <1>2, CalculatingKeepsTheInvariant
<1>9. CASE ~(FullDay(k) \/ Of(k) = {})
  <2>1. PICK i : i = [j EXCEPT !.stage = "delete", !.rows = RowsOf(j.key),
                               !.hourly = Hourly(j.key)]
    OBVIOUS
  <2>2. calcs' = (calcs \ {j}) \cup {i} /\ logs' = logs
    BY <2>1, <1>3, <1>9 DEF ReadDay, Becomes
  <2>3. i = [key |-> k, no |-> j.no, stage |-> "delete", rows |-> RowsOf(k),
             hourly |-> Hourly(k), kept |-> j.kept]
    <3>1. PICK h : h = Hourly(k)
      OBVIOUS
    <3>2. PICK news : news = RowsOf(k)
      OBVIOUS
    <3>3. i = [j EXCEPT !.stage = "delete", !.rows = news, !.hourly = h]
      BY <2>1, <3>1, <3>2, <1>3
    <3>4. PICK no, stage, rows, hourly, kept :
            /\ j = [key |-> k, no |-> no, stage |-> stage, rows |-> rows, hourly |-> hourly,
                    kept |-> kept]
            /\ no = j.no /\ kept = j.kept
      BY <1>1, <1>3 DEF IsDayJob
    <3>5. i = [key |-> k, no |-> no, stage |-> "delete", rows |-> news, hourly |-> h,
               kept |-> kept]
      BY ONLY <3>3, <3>4, ReadingAJob
    <3> QED
      BY ONLY <3>1, <3>2, <3>4, <3>5
  <2>4. /\ i.key = k /\ i.stage = "delete" /\ i.rows = RowsOf(k) /\ i.kept = j.kept
        /\ i.hourly = Hourly(k)
    BY ONLY <2>3
  <2>5. IsDayJob(i)
    <3>1. RowsOf(k) \subseteq PunchRow /\ IsFiniteSet(RowsOf(k))
      BY InvariantGives, PunchRowsAreTyped
    <3>2. j.kept \subseteq LogTypes
      BY <1>1 DEF IsDayJob
    <3>3. i = [key |-> i.key, no |-> i.no, stage |-> i.stage, rows |-> i.rows,
               hourly |-> i.hourly, kept |-> i.kept]
      BY ONLY <2>3
    <3> QED
      BY <3>1, <3>2, <3>3, <2>4, <1>1, <1>3 DEF IsDayJob
  <2>6. \A d \in Keys \ {k} : RunningOn(d)' = RunningOn(d)
    BY <2>2, <2>4, <1>3, CalculationGoesOn
  <2>7. \A d \in Keys \ {k} : DayIsRight(d)'
    BY <2>2, <2>6, <1>2, OtherDaysStayRight
  <2>8. DayIsRight(k)'
    <3>1. CASE k \in doubtful
      BY <3>1, <1>2 DEF DayIsRight
    <3>2. CASE k \notin doubtful
      <4>1. RunningOn(k)' = {i}
        BY <2>2, <2>4, <3>2, <1>3, <1>5, CalculationGoesOn DEF DayIsRight
      <4>2. i.kept = {}
        BY <2>4, <3>2, <1>5, <1>6 DEF DayIsRight, ReadsRight
      <4>3. ReadsRight(i, k)'
        BY <4>2, <2>4, <1>7, <1>9 DEF ReadsRight
      <4> QED
        BY <4>1, <4>3 DEF DayIsRight
    <3> QED
      BY <3>1, <3>2
  <2>9. (\A a \in calcs' : IsDayJob(a)) /\ doubtful' \subseteq Keys
          /\ logs' \in [Keys -> [LogTypes -> Nat]]
    BY <2>2, <2>5, <1>1, <1>2 DEF DaysAreTyped
  <2> QED
    BY <2>7, <2>8, <2>9, <1>2, CalculatingKeepsTheInvariant
<1> QED
  BY <1>8, <1>9

\* A calculation that deletes the day's logs keeps the invariant.
LEMMA DeleteLogsKeepsIt ==
  ASSUME AttendanceInvariant, NEW j \in calcs, DeleteLogs(j)
  PROVE  AttendanceInvariant'
<1>1. DaysAreTyped /\ IsDayJob(j) /\ j.key \in Keys
  BY DEF AttendanceInvariant, DaysAreTyped, IsDayJob
<1>2. PICK i : i = [j EXCEPT !.stage = "create"]
  OBVIOUS
<1>3. /\ j.stage = "delete" /\ doubtful' = doubtful /\ logs' = logs /\ Elsewhere
      /\ UNCHANGED <<punch, trash, off, clerk, rushed>>
      /\ calcs' = (calcs \ {j}) \cup {i}
  BY <1>2 DEF DeleteLogs, Becomes, Elsewhere
<1>4. PICK k : k = j.key
  OBVIOUS
<1>5. i = [key |-> k, no |-> j.no, stage |-> "create", rows |-> j.rows,
           hourly |-> j.hourly, kept |-> j.kept]
  <2>1. j = [key |-> k, no |-> j.no, stage |-> j.stage, rows |-> j.rows,
             hourly |-> j.hourly, kept |-> j.kept]
    BY <1>1, <1>4 DEF IsDayJob
  <2> QED
    BY ONLY <2>1, <1>2
<1>6. /\ i.key = k /\ i.stage = "create" /\ i.rows = j.rows /\ i.kept = j.kept
      /\ i.hourly = j.hourly
  BY ONLY <1>5
<1>7. IsDayJob(i)
  <2>1. i = [key |-> i.key, no |-> i.no, stage |-> i.stage, rows |-> i.rows,
             hourly |-> i.hourly, kept |-> i.kept]
    BY ONLY <1>5
  <2> QED
    BY <2>1, <1>1, <1>4, <1>6 DEF IsDayJob
<1>8. Untouched(k)
  BY <1>3 DEF Of, RowsOf, Stored, Key, Untouched
<1>9. DayIsRight(k) /\ j \in RunningOn(k)
  BY <1>1, <1>4 DEF AttendanceInvariant, RunningOn
<1>10. \A d \in Keys \ {k} : RunningOn(d)' = RunningOn(d)
  BY <1>3, <1>4, <1>6, CalculationGoesOn
<1>11. \A d \in Keys \ {k} : DayIsRight(d)'
  BY <1>3, <1>10, OtherDaysStayRight
<1>12. DayIsRight(k)'
  <2>1. CASE k \in doubtful
    BY <2>1, <1>3 DEF DayIsRight
  <2>2. CASE k \notin doubtful
    <3>1. RunningOn(k)' = {i}
      BY <2>2, <1>3, <1>4, <1>6, <1>9, CalculationGoesOn DEF DayIsRight
    <3>2. ReadsRight(j, k)
      BY <2>2, <1>9 DEF DayIsRight
    <3>3. ReadsRight(j, k)'
      BY <3>2, <1>8, UntouchedIsDue
    <3>4. ReadsRight(i, k)'
      BY <3>3, <1>3, <1>6 DEF ReadsRight
    <3> QED
      BY <3>1, <3>4 DEF DayIsRight
  <2> QED
    BY <2>1, <2>2
<1>13. (\A a \in calcs' : IsDayJob(a)) /\ doubtful' \subseteq Keys
         /\ logs' \in [Keys -> [LogTypes -> Nat]]
  BY <1>1, <1>3, <1>7 DEF DaysAreTyped
<1> QED
  BY <1>3, <1>11, <1>12, <1>13, CalculatingKeepsTheInvariant

\* The calculations that are left when one has created its logs
LEMMA RestOfCalculations ==
  ASSUME NEW j \in calcs, NEW made, made \subseteq LogTypes, \A i \in calcs : IsDayJob(i),
         calcs' = {IF i.key = j.key /\ i.stage = "create" THEN [i EXCEPT !.kept = @ \cup made]
                   ELSE i : i \in calcs \ {j}}
  PROVE  /\ \A i \in calcs' : IsDayJob(i)
         /\ \A d : d # j.key => RunningOn(d)' = RunningOn(d)
         /\ (\A a, b \in RunningOn(j.key) : a = b) => RunningOn(j.key)' = {}
<1>1. ASSUME NEW i \in calcs
      PROVE  IsDayJob([i EXCEPT !.kept = @ \cup made]) /\ [i EXCEPT !.kept = @ \cup made].key = i.key
  <2>1. PICK key, no, stage, rows, hourly, kept :
          /\ i = [key |-> key, no |-> no, stage |-> stage, rows |-> rows, hourly |-> hourly,
                  kept |-> kept]
          /\ key = i.key /\ stage = i.stage /\ rows = i.rows /\ kept = i.kept
    BY DEF IsDayJob
  <2>2. /\ key \in Keys /\ stage \in {"read", "delete", "create"}
        /\ rows \subseteq PunchRow /\ IsFiniteSet(rows) /\ kept \subseteq LogTypes
    BY <2>1 DEF IsDayJob
  <2>3. PICK more : more = kept \cup made
    OBVIOUS
  <2>4. PICK n : n = [i EXCEPT !.kept = @ \cup made]
    OBVIOUS
  <2>5. n = [i EXCEPT !.kept = more]
    BY <2>1, <2>3, <2>4
  <2>6. n = [key |-> key, no |-> no, stage |-> stage, rows |-> rows, hourly |-> hourly,
             kept |-> more]
    BY ONLY <2>1, <2>5
  <2>7. n.key = key /\ n.no = no /\ n.stage = stage /\ n.rows = rows /\ n.hourly = hourly /\ n.kept = more
    BY ONLY <2>6
  <2>8. IsDayJob(n)
    BY <2>2, <2>3, <2>6, <2>7 DEF IsDayJob
  <2> QED
    BY <2>1, <2>4, <2>7, <2>8
<1>2. ASSUME NEW e \in calcs'
      PROVE  \E i \in calcs \ {j} :
               /\ e = i \/ (i.key = j.key /\ e = [i EXCEPT !.kept = @ \cup made])
               /\ e.key = i.key
  BY <1>1
<1>3. \A i \in calcs' : IsDayJob(i)
  BY <1>1, <1>2
<1>4. ASSUME NEW d, d # j.key PROVE RunningOn(d)' = RunningOn(d)
  <2>1. \A e \in calcs' : e.key = d => e \in calcs
    BY <1>2, <1>4
  <2>2. \A i \in calcs : i.key = d => i \in calcs'
    BY <1>4
  <2> QED
    BY <2>1, <2>2 DEF RunningOn
<1>5. ASSUME \A a, b \in RunningOn(j.key) : a = b PROVE RunningOn(j.key)' = {}
  <2>1. \A i \in calcs \ {j} : i.key # j.key
    BY <1>5 DEF RunningOn
  <2> QED
    BY <2>1, <1>2 DEF RunningOn
<1> QED
  BY <1>3, <1>4, <1>5

\* A calculation that creates its logs keeps the invariant.
LEMMA CreateLogsKeepsIt ==
  ASSUME AttendanceInvariant, NEW j \in calcs, CreateLogs(j)
  PROVE  AttendanceInvariant'
<1>1. DaysAreTyped /\ IsDayJob(j) /\ j.key \in Keys
  BY DEF AttendanceInvariant, DaysAreTyped, IsDayJob
<1>2. PICK news : news = LogsOf(j.rows, j.hourly)
  OBVIOUS
<1>3. PICK made : made = {f \in LogTypes : news[f] > 0}
  OBVIOUS
<1>4. PICK stays : stays = {f \in LogTypes \ made : f = "overtime" \/ f \in j.kept}
  OBVIOUS
<1>5. PICK k : k = j.key
  OBVIOUS
<1>6. /\ j.stage = "create" /\ doubtful' = doubtful /\ Elsewhere
      /\ UNCHANGED <<punch, trash, off, clerk, rushed>>
  BY DEF CreateLogs, Elsewhere
<1>7. logs' = [logs EXCEPT ![k] = [f \in LogTypes |-> IF f \in stays THEN @[f] ELSE news[f]]]
  BY <1>2, <1>3, <1>4, <1>5 DEF CreateLogs
<1>8. calcs' = {IF i.key = j.key /\ i.stage = "create" THEN [i EXCEPT !.kept = @ \cup made]
                ELSE i : i \in calcs \ {j}}
  BY <1>2, <1>3 DEF CreateLogs
<1>9. news \in [LogTypes -> Nat]
  <2>1. IsFiniteSet(j.rows) /\ \A r \in j.rows : r.at \in Nat /\ r.hours \in Int
    BY <1>1, PunchRowIsTyped DEF IsDayJob
  <2> QED
    BY <2>1, <1>2, LogsAreTyped
<1>10. /\ \A i \in calcs' : IsDayJob(i)
       /\ \A d : d # k => RunningOn(d)' = RunningOn(d)
       /\ (\A a, b \in RunningOn(k) : a = b) => RunningOn(k)' = {}
  <2>1. made \subseteq LogTypes /\ \A i \in calcs : IsDayJob(i)
    BY <1>1, <1>3 DEF DaysAreTyped
  <2> QED
    BY <2>1, <1>5, <1>8, RestOfCalculations
<1>11. /\ logs' \in [Keys -> [LogTypes -> Nat]]
       /\ \A d \in Keys \ {k} : logs'[d] = logs[d]
       /\ \A f \in LogTypes : logs'[k][f] = IF f \in stays THEN logs[k][f] ELSE news[f]
  <2>1. logs \in [Keys -> [LogTypes -> Nat]] /\ k \in Keys /\ logs[k] \in [LogTypes -> Nat]
    BY <1>1, <1>5 DEF DaysAreTyped
  <2>2. PICK l : l = [f \in LogTypes |-> IF f \in stays THEN logs[k][f] ELSE news[f]]
    OBVIOUS
  <2>3. l \in [LogTypes -> Nat]
    BY <2>1, <2>2, <1>9
  <2>4. logs' = [logs EXCEPT ![k] = l]
    BY <1>7, <2>2
  <2>5. logs'[k] = l /\ logs' \in [Keys -> [LogTypes -> Nat]]
          /\ \A d \in Keys \ {k} : logs'[d] = logs[d]
    BY <2>1, <2>3, <2>4
  <2> QED
    BY <2>2, <2>5
<1>12. \A d \in Keys \ {k} : DayIsRight(d)'
  BY <1>6, <1>10, <1>11, OtherDaysStayRight
<1>13. DayIsRight(k)'
  <2>1. CASE k \in doubtful
    BY <2>1, <1>6 DEF DayIsRight
  <2>2. CASE k \notin doubtful
    <3>1. DayIsRight(k) /\ j \in RunningOn(k)
      BY <1>1, <1>5 DEF AttendanceInvariant, RunningOn
    <3>2. RunningOn(k)' = {} /\ ReadsRight(j, k)
      BY <3>1, <2>2, <1>10 DEF DayIsRight
    <3>3. /\ j.kept = {} /\ ~FullDay(k) /\ Of(k) # {}
          /\ j.rows = RowsOf(k) /\ j.hourly = Hourly(k)
      BY <3>2, <1>6 DEF ReadsRight
    <3>4. Due(k) = news
      BY <3>3, <1>2 DEF Due
    <3>5. Untouched(k)
      BY <1>6 DEF Of, RowsOf, Stored, Key, Untouched
    <3>6. Due(k)' = news /\ ~FullDay(k)' /\ Of(k)' # {}
      BY <3>3, <3>4, <3>5, UntouchedIsDue DEF Untouched
    <3>7. \A f \in LogTypes \ {"overtime"} : logs'[k][f] = news[f]
      BY <3>3, <1>4, <1>11
    <3>8. news["overtime"] > 0 => logs'[k]["overtime"] = news["overtime"]
      <4>1. "overtime" \in LogTypes
        BY DEF LogTypes, Unlogged
      <4> QED
        BY <4>1, <1>3, <1>4, <1>11
    <3>9. LogsAreDue(k)'
      BY <3>6, <3>7, <3>8 DEF LogsAreDue
    <3> QED
      BY <3>2, <3>9 DEF DayIsRight
  <2> QED
    BY <2>1, <2>2
<1>14. doubtful' \subseteq Keys
  BY <1>1, <1>6 DEF DaysAreTyped
<1> QED
  BY <1>6, <1>10, <1>11, <1>12, <1>13, <1>14, CalculatingKeepsTheInvariant

\* A calculation that fails leaves its day in doubt.
LEMMA FailJobKeepsIt ==
  ASSUME AttendanceInvariant, NEW j \in calcs, FailJob(j)
  PROVE  AttendanceInvariant'
<1>1. DaysAreTyped /\ j.key \in Keys
  BY DEF AttendanceInvariant, DaysAreTyped, IsDayJob
<1>2. /\ calcs' = calcs \ {j} /\ doubtful' = doubtful \cup {j.key} /\ logs' = logs /\ Elsewhere
      /\ UNCHANGED <<punch, trash, off, clerk, rushed>>
  BY DEF FailJob, Elsewhere
<1>3. \A d \in Keys \ {j.key} : RunningOn(d)' = RunningOn(d)
  BY <1>2, CalculationIsOver
<1>4. \A d \in Keys \ {j.key} : DayIsRight(d)'
  BY <1>2, <1>3, OtherDaysStayRight
<1>5. DayIsRight(j.key)'
  BY <1>2 DEF DayIsRight
<1>6. (\A i \in calcs' : IsDayJob(i)) /\ doubtful' \subseteq Keys
        /\ logs' \in [Keys -> [LogTypes -> Nat]]
  BY <1>1, <1>2 DEF DaysAreTyped
<1> QED
  BY <1>2, <1>4, <1>5, <1>6, CalculatingKeepsTheInvariant

\* Nothing has happened yet.
LEMMA AttendanceBegins == AttendanceInit => AttendanceInvariant
<1> SUFFICES ASSUME AttendanceInit PROVE AttendanceInvariant
  OBVIOUS
<1>1. /\ punch = [x \in Punches |-> NoPunch] /\ trash = [x \in Punches |-> NoPunch]
      /\ off = NobodyIsOff /\ logs = [k \in Keys |-> Unlogged]
      /\ clerk = [p \in Clerks |-> Idle] /\ calcs = {} /\ doubtful = {} /\ rushed = {}
  BY DEF AttendanceInit, NothingInProgress
<1>2. Stored = {} /\ \A k : Of(k) = {} /\ RunningOn(k) = {}
  BY <1>1 DEF Stored, Of, RunningOn
<1>3. PunchesAreTyped
  BY <1>1, <1>2 DEF PunchesAreTyped
<1>4. Unlogged \in [LogTypes -> Nat]
  BY DEF LogTypes, Unlogged
<1>5. DaysAreTyped
  BY <1>1, <1>4 DEF DaysAreTyped, NobodyIsOff, NoLeave, DayLeave, Absences
<1>6. ClerksAreTyped /\ ClerksAreSane /\ LooksHold
  BY <1>1, IdleIsFine DEF ClerksAreTyped, ClerksAreSane, LooksHold
<1>7. RowsKeepTheirOwner
  BY <1>1 DEF RowsKeepTheirOwner, SameWho
<1>8. LeavesAreFine
  <2>1. \A k \in Keys, x \in DayLeaves : ~On(k, x)
    BY <1>1 DEF On, NobodyIsOff, NoLeave
  <2> QED
    BY <2>1, <1>2 DEF LeavesAreFine, LeaveIsFine, OneLeave
<1>9. ASSUME NEW k \in Keys PROVE DayIsRight(k)
  <2>1. Due(k) = Unlogged /\ logs[k] = Unlogged
    BY <1>1, <1>2 DEF Due
  <2>2. LogsAreDue(k)
    BY <2>1 DEF LogsAreDue
  <2> QED
    BY <2>2, <1>2 DEF DayIsRight
<1> QED
  BY <1>3, <1>5, <1>6, <1>7, <1>8, <1>9 DEF AttendanceInvariant

\* Every step keeps the invariant.
LEMMA AttendanceStepKeepsIt ==
  AttendanceInvariant /\ [AttendanceNext]_attendanceVars => AttendanceInvariant'
<1> SUFFICES ASSUME AttendanceInvariant, [AttendanceNext]_attendanceVars
             PROVE  AttendanceInvariant'
  OBVIOUS
<1>1. CASE \E p \in Clerks : StartAttendance(p)
  BY <1>1, StartAttendanceKeepsIt
<1>2. CASE \E p \in Clerks : ContinueAttendance(p)
  BY <1>2, InsertPunchesKeepsIt, EditPunchKeepsIt, RemovePunchKeepsIt, RestorePunchKeepsIt,
     DecideLeaveKeepsIt, FailRequestKeepsIt DEF ContinueAttendance
<1>3. CASE \E k \in Keys : AskForDay(k)
  BY <1>3, AskForDayKeepsIt
<1>restore. CASE \E k \in Keys, x \in DayLeaves : RestoreLeave(k, x)
  BY <1>restore, RestoreLeaveKeepsIt
<1>4. CASE CalculateDays
  BY <1>4, ReadDayKeepsIt, DeleteLogsKeepsIt, CreateLogsKeepsIt, FailJobKeepsIt
     DEF CalculateDays
<1>5. CASE UNCHANGED attendanceVars
  <2>1. UNCHANGED <<punch, trash, off, clerk, rushed>> /\ logs' = logs /\ calcs' = calcs
          /\ doubtful' = doubtful
    BY <1>5 DEF attendanceVars
  <2>2. \A k : Untouched(k) /\ RunningOn(k)' = RunningOn(k)
    BY <2>1 DEF Of, RowsOf, Stored, Key, Untouched, RunningOn
  <2>3. \A k \in Keys : DayIsRight(k)'
    BY <2>1, <2>2, DayStaysRight DEF AttendanceInvariant
  <2>4. DaysAreTyped
    BY DEF AttendanceInvariant
  <2> QED
    BY <2>1, <2>3, <2>4, CalculatingKeepsTheInvariant DEF DaysAreTyped
<1> QED
  BY <1>1, <1>2, <1>3, <1>restore, <1>4, <1>5 DEF AttendanceNext

\* What the invariant says of the types.
LEMMA AttendanceIsTyped == AttendanceInvariant => AttendanceTypeOK
<1> SUFFICES ASSUME AttendanceInvariant PROVE AttendanceTypeOK
  OBVIOUS
<1>1. PunchesAreTyped /\ DaysAreTyped /\ ClerksAreTyped
  BY DEF AttendanceInvariant
<1>2. \A p \in Clerks : clerk[p].rows \subseteq PunchRow /\ clerk[p].at \in Punches \cup {NoPunch}
  BY <1>1 DEF ClerksAreTyped, Clerk
<1>3. \A j \in calcs : j.key \in Keys /\ j.rows \subseteq PunchRow /\ j.kept \subseteq LogTypes
  BY <1>1 DEF DaysAreTyped, IsDayJob
<1> QED
  BY <1>1, <1>2, <1>3 DEF AttendanceTypeOK, PunchesAreTyped, DaysAreTyped

\* What it says of punches, leaves and logs.
LEMMA AttendanceIsRight == AttendanceInvariant => AttendanceAddsUp
<1> SUFFICES ASSUME AttendanceInvariant PROVE AttendanceAddsUp
  OBVIOUS
<1>1. LogsFollowPunches
  BY DEF AttendanceInvariant, DayIsRight, LogsAreDue, LogsFollowPunches
<1>2. NobodyPunchesOnLeave
  BY DEF AttendanceInvariant, LeavesAreFine, LeaveIsFine, NobodyPunchesOnLeave
<1>3. ASSUME NEW k \in Keys PROVE NothingIsChargedTwice(RowsOf(k), Hourly(k))
  <2>1. RowsOf(k) \subseteq PunchRow /\ IsFiniteSet(RowsOf(k))
    BY InvariantGives, PunchRowsAreTyped
  <2>2. \A r \in RowsOf(k) : r.at \in Nat /\ r.hours \in Int
    BY <2>1, PunchRowIsTyped
  <2> QED
    BY <2>1, <2>2, ChargedOnce
<1> QED
  BY <1>1, <1>2, <1>3 DEF AttendanceAddsUp

\* The inductive invariant of punches, requests and calculations.
THEOREM AttendanceInvariantHolds == AttendanceSpec => []AttendanceInvariant
<1>1. AttendanceInit => AttendanceInvariant
  BY AttendanceBegins
<1>2. AttendanceInvariant /\ [AttendanceNext]_attendanceVars => AttendanceInvariant'
  BY AttendanceStepKeepsIt
<1> QED
  BY <1>1, <1>2, PTL DEF AttendanceSpec

\* Punches, requests, leaves and daily logs are of their types, and no two stored punches
\* are of one employee, type and instant.
THEOREM AttendanceTypes == AttendanceSpec => []AttendanceTypeOK
BY AttendanceInvariantHolds, AttendanceIsTyped, PTL

\* Whatever requests and calculations run at once: the logs of a day that is not in doubt
\* are those of its punches and leaves once no calculation of it runs, nobody has punched on
\* a day of sick or unpaid leave unless the two were looked at at once or the leave was
\* restored, which looks for no punches, and no time is charged twice.
THEOREM AttendanceAlwaysAddsUp == AttendanceSpec => []AttendanceAddsUp
BY AttendanceInvariantHolds, AttendanceIsRight, PTL

-----------------------------------------------------------------------------
(* The personnel *)

\* The invariants of salaries and employment say what their variables are.
LEMMA EmploymentIsTyped == EmploymentInvariant /\ SalariesInvariant => EmploymentTypeOK
<1> SUFFICES ASSUME EmploymentInvariant, SalariesInvariant PROVE EmploymentTypeOK
  OBVIOUS
<1>1. RowsAreTyped /\ SheetsAreTyped
  BY DEF SalariesInvariant
<1>2. \A p \in Desks : sheet[p].who \subseteq Employees /\ sheet[p].stale \subseteq sheet[p].who
  BY <1>1 DEF SheetsAreTyped, Sheet
<1>3. \A h \in DOMAIN bin : bin[h] \in BinEntry
  BY <1>1, BinIsTyped DEF RowsAreTyped
<1>4. SalariesTypeOK
  BY <1>1, <1>2, <1>3 DEF SalariesTypeOK, RowsAreTyped, Record, BinEntry
<1>5. StaffIsTyped /\ BusesAreTyped
  BY DEF EmploymentInvariant, StaffInvariant, BusInvariant
<1> QED
  BY <1>4, <1>5 DEF EmploymentTypeOK, StaffIsTyped, BusesAreTyped, EmployeeRow, BusRow, SeatRow,
     StaffMonths

\* The variables of employment and salaries are of their types.
THEOREM EmploymentTypes == EmploymentSpec => []EmploymentTypeOK
BY EmploymentIsSound, EmploymentIsTyped, PTL

\* And so are all of the personnel.
THEOREM PersonnelTypes == PersonnelSpec => []PersonnelTypeOK
<1>1. PayrollTypeOK /\ AttendanceTypeOK /\ EmploymentTypeOK /\ PayslipsTypeOK => PersonnelTypeOK
  BY DEF PersonnelTypeOK
<1> QED
  BY <1>1, PayrollTypes, AttendanceTypes, EmploymentTypes, PayslipsTypes, PTL
     DEF PersonnelSpec
=============================================================================
