---------------------------- MODULE PayrollRuns ----------------------------
(***************************************************************************)
(* The payroll runs of one period: PayrollService                          *)
(* (src/backend-nest/src/payroll/payroll.service.ts) and the worker of its *)
(* queue (payroll.queue.processor.ts).                                     *)
(*                                                                         *)
(* A calculation commits a new run, then takes the period's advisory lock  *)
(* to delete another run, then computes, inline or as a job of the queue.  *)
(* The computation is a sequence of statements with no transaction around  *)
(* them.  The queue tries a job several times, and hands a job whose       *)
(* worker it has not heard of to the next one.                             *)
(*                                                                         *)
(* Abstracted: what an item says, how employees make up a batch, totals.   *)
(***************************************************************************)
EXTENDS Naturals, FiniteSets

CONSTANTS
  Runs,         \* identifiers of payroll runs
  NoRun,        \* the run of a process that has none
  Procs,        \* the requests and workers running at a time
  NoProc,       \* nobody
  NumBatches,   \* the batches of employees that a run is made of
  MaxAttempts,  \* how often the queue tries a job
  MaxStalls     \* how often it hands on a job that has stalled

ASSUME NoRunAssumption == NoRun \notin Runs
ASSUME NoProcAssumption == NoProc \notin Procs
ASSUME BoundsAssumption ==
  NumBatches \in Nat /\ MaxAttempts \in Nat \ {0} /\ MaxStalls \in Nat

VARIABLES
  runs,        \* the payroll_runs rows
  items,       \* items[r]: the batches whose payroll_items rows exist
  lock,        \* the holder of the period's advisory lock
  jobs,        \* jobs[r]: the job that computes run r
  proc,        \* proc[p]: what p is doing
  abandoned,   \* runs whose calculation was cut short without being marked, or
               \* whose last marking failed
  doubled,     \* runs that two processes have computed at once
  crossed,     \* whether two calculations have overlapped
  erased       \* whether a run was deleted by hand

vars == <<runs, items, lock, jobs, proc, abandoned, doubled, crossed, erased>>

Statuses == {"queued", "processing", "completed", "failed", "approved", "draft"}

Run ==
  [status : Statuses \cup {"absent", "deleted"},
   approval : {"pending", "approved", "rejected"}]

NotYet == [status |-> "absent", approval |-> "pending"]

Exists(r) == runs[r].status \in Statuses

\* A job with the failed attempts and the stalls it has behind it.
Job ==
  [state : {"none", "waiting", "active", "done"}, owner : Procs \cup {NoProc},
   attempts : Nat, stalls : Nat]

NoJob == [state |-> "none", owner |-> NoProc, attempts |-> 0, stalls |-> 0]

Computing == {"check", "start", "clear", "insert"}
Marking == {"fail", "failAgain"}
CleaningUp == {"created", "cleanup", "deleting"}

\* The next step, the handler it belongs to, its run, the run it is about to
\* delete, and the batches it has inserted.
Process ==
  [at : {"idle", "enqueue", "delete"} \cup CleaningUp \cup Computing \cup Marking,
   via : {"calculate", "async", "job", "delete"}, run : Runs \cup {NoRun},
   old : Runs \cup {NoRun}, inserted : Nat]

Free == [at |-> "idle", via |-> "delete", run |-> NoRun, old |-> NoRun, inserted |-> 0]

Init ==
  /\ runs = [r \in Runs |-> NotYet]
  /\ items = [r \in Runs |-> {}]
  /\ lock = NoProc
  /\ jobs = [r \in Runs |-> NoJob]
  /\ proc = [p \in Procs |-> Free]
  /\ abandoned = {}
  /\ doubled = {}
  /\ crossed = FALSE
  /\ erased = FALSE

-----------------------------------------------------------------------------
At(p, at) == proc[p].at = at

Goes(p, at) == proc' = [proc EXCEPT ![p].at = at]

Ends(p) == proc' = [proc EXCEPT ![p] = Free]

\* An exception in phase 1 of a calculation leaves the handler: the transaction
\* rolls back, and nobody marks the run.
Abandons(p) ==
  /\ Ends(p)
  /\ lock' = IF lock = p THEN NoProc ELSE lock
  /\ abandoned' = abandoned \cup {proc[p].run}

WithoutRun(r) ==
  /\ runs' = [runs EXCEPT ![r] = [NotYet EXCEPT !.status = "deleted"]]
  /\ items' = [items EXCEPT ![r] = {}]

-----------------------------------------------------------------------------
(* calculate and calculateAsync *)

\* Both create their run before they take the lock.
CreateRun(p, r, via) ==
  /\ At(p, "idle")
  /\ runs[r].status = "absent"
  /\ runs' = [runs EXCEPT ![r].status = "queued"]
  /\ proc' = [proc EXCEPT ![p] = [Free EXCEPT !.at = "created", !.via = via, !.run = r]]
  /\ crossed' = (crossed \/ \E q \in Procs : proc[q].at \in CleaningUp)
  /\ UNCHANGED <<items, lock, jobs, abandoned, doubled, erased>>

\* Mutant of Others: the query does not leave out the new run.
AllRuns(r) == {s \in Runs : Exists(s)}

Others(r) == {s \in Runs \ {r} : Exists(s)}

\* Phase 1: with the lock, findFirst returns any other run.  calculateAsync lets
\* an approved one be.
FindOld(p) ==
  /\ At(p, "created")
  /\ lock = NoProc
  /\ lock' = p
  /\ \E old \in IF Others(proc[p].run) = {} THEN {NoRun} ELSE Others(proc[p].run) :
       LET kept == /\ old # NoRun
                   /\ proc[p].via = "async"
                   /\ runs[old].approval = "approved"
       IN  proc' = [proc EXCEPT ![p].at = "cleanup",
                                ![p].old = IF kept THEN NoRun ELSE old]
  /\ UNCHANGED <<runs, items, jobs, abandoned, doubled, crossed, erased>>

CleanedUp(p) ==
  /\ lock' = NoProc
  /\ proc' = [proc EXCEPT ![p].at = IF proc[p].via = "async" THEN "enqueue" ELSE "check",
                          ![p].old = NoRun]

NothingToDelete(p) ==
  /\ At(p, "cleanup")
  /\ proc[p].old = NoRun
  /\ CleanedUp(p)
  /\ UNCHANGED <<runs, items, jobs, abandoned, doubled, crossed, erased>>

\* deletePayrollRun reads the run again and refuses an approved one...
CheckOld(p) ==
  /\ At(p, "cleanup")
  /\ LET old == proc[p].old
     IN  /\ old # NoRun
         /\ Exists(old)
         /\ runs[old].approval # "approved"
  /\ Goes(p, "deleting")
  /\ UNCHANGED <<runs, items, lock, jobs, abandoned, doubled, crossed, erased>>

\* ...and deletes its items and the run itself.
DeleteOld(p) ==
  /\ At(p, "deleting")
  /\ Exists(proc[p].old)
  /\ WithoutRun(proc[p].old)
  /\ CleanedUp(p)
  /\ UNCHANGED <<jobs, abandoned, doubled, crossed, erased>>

\* The run to delete is gone or approved, or a statement fails.
CleanupThrows(p) ==
  /\ proc[p].at \in CleaningUp
  /\ Abandons(p)
  /\ UNCHANGED <<runs, items, jobs, doubled, crossed, erased>>

\* enqueuePayrollJob: the queue takes the job...
Enqueue(p) ==
  /\ At(p, "enqueue")
  /\ jobs' = [jobs EXCEPT ![proc[p].run].state = "waiting"]
  /\ Ends(p)
  /\ UNCHANGED <<runs, items, lock, abandoned, doubled, crossed, erased>>

\* ...or it cannot, and the job is run inline; when only its answer was lost the
\* job is run twice.
RunInline(p) ==
  /\ At(p, "enqueue")
  /\ \/ UNCHANGED jobs
     \/ jobs' = [jobs EXCEPT ![proc[p].run].state = "waiting"]
  /\ Goes(p, "check")
  /\ UNCHANGED <<runs, items, lock, abandoned, doubled, crossed, erased>>

-----------------------------------------------------------------------------
(* processPayrollRun *)

Check(p) ==
  /\ At(p, "check")
  /\ Exists(proc[p].run)
  /\ Goes(p, "start")
  /\ UNCHANGED <<runs, items, lock, jobs, abandoned, doubled, crossed, erased>>

Begin(p) ==
  /\ At(p, "start")
  /\ Exists(proc[p].run)
  /\ runs' = [runs EXCEPT ![proc[p].run].status = "processing"]
  /\ Goes(p, "clear")
  /\ UNCHANGED <<items, lock, jobs, abandoned, doubled, crossed, erased>>

\* "Ensures idempotent retry for the same run id."
Clear(p) ==
  /\ At(p, "clear")
  /\ items' = [items EXCEPT ![proc[p].run] = {}]
  /\ Goes(p, "insert")
  /\ UNCHANGED <<runs, lock, jobs, abandoned, doubled, crossed, erased>>

\* Mutant of Insert: the loop runs once too often.
InsertOneMore(p) ==
  /\ At(p, "insert")
  /\ LET r == proc[p].run
         batch == proc[p].inserted + 1
     IN  /\ batch <= NumBatches + 1
         /\ Exists(r)
         /\ batch \notin items[r]
         /\ items' = [items EXCEPT ![r] = @ \cup {batch}]
  /\ proc' = [proc EXCEPT ![p].inserted = @ + 1]
  /\ UNCHANGED <<runs, lock, jobs, abandoned, doubled, crossed, erased>>

\* Mutant of Insert: a batch that fails is skipped, as an employee is.
InsertOrSkip(p) ==
  /\ At(p, "insert")
  /\ proc[p].inserted < NumBatches
  /\ \/ /\ Exists(proc[p].run)
        /\ items' = [items EXCEPT ![proc[p].run] = @ \cup {proc[p].inserted + 1}]
     \/ UNCHANGED items
  /\ proc' = [proc EXCEPT ![p].inserted = @ + 1]
  /\ UNCHANGED <<runs, lock, jobs, abandoned, doubled, crossed, erased>>

\* createMany of the next batch: a run and an employee have one item.
Insert(p) ==
  /\ At(p, "insert")
  /\ LET r == proc[p].run
         batch == proc[p].inserted + 1
     IN  /\ batch <= NumBatches
         /\ Exists(r)
         /\ batch \notin items[r]
         /\ items' = [items EXCEPT ![r] = @ \cup {batch}]
  /\ proc' = [proc EXCEPT ![p].inserted = @ + 1]
  /\ UNCHANGED <<runs, lock, jobs, abandoned, doubled, crossed, erased>>

\* The worker's job is done, unless the queue has handed it on.
JobDone(p) ==
  LET r == proc[p].run
  IN  jobs' = IF proc[p].via = "job" /\ jobs[r].owner = p
              THEN [jobs EXCEPT ![r].state = "done", ![r].owner = NoProc] ELSE jobs

Finish(p) ==
  /\ At(p, "insert")
  /\ proc[p].inserted = NumBatches
  /\ Exists(proc[p].run)
  /\ runs' = [runs EXCEPT ![proc[p].run].status = "completed"]
  /\ JobDone(p)
  /\ Ends(p)
  /\ UNCHANGED <<items, lock, abandoned, doubled, crossed, erased>>

\* There are no employees, the run is gone, an item is there already, or the
\* database fails.
Throw(p) ==
  /\ proc[p].at \in Computing
  /\ Goes(p, "fail")
  /\ UNCHANGED <<runs, items, lock, jobs, abandoned, doubled, crossed, erased>>

-----------------------------------------------------------------------------
(* markPayrollRunFailed *)

\* The update fails if the run is gone, and may fail if it is there; both are only
\* logged.  After the last marking of a run nobody comes back to it.
Mark(r, last) ==
  \/ /\ runs' = IF Exists(r) THEN [runs EXCEPT ![r].status = "failed"] ELSE runs
     /\ UNCHANGED abandoned
  \/ /\ Exists(r)
     /\ abandoned' = IF last THEN abandoned \cup {r} ELSE abandoned
     /\ UNCHANGED runs

\* Mutant of MarkFailed: calculate only throws.
OnlyThrow(p) ==
  /\ At(p, "fail")
  /\ proc[p].via = "calculate"
  /\ Ends(p)
  /\ UNCHANGED <<runs, items, lock, jobs, abandoned, doubled, crossed, erased>>

\* calculate marks once and throws.
MarkFailed(p) ==
  /\ At(p, "fail")
  /\ proc[p].via = "calculate"
  /\ Mark(proc[p].run, TRUE)
  /\ Ends(p)
  /\ UNCHANGED <<items, lock, jobs, doubled, crossed, erased>>

\* Mutant of MarkJobFailed: attempts are not counted.
RetryForEver(p) ==
  /\ At(p, "fail")
  /\ proc[p].via \in {"async", "job"}
  /\ LET r == proc[p].run
         owned == proc[p].via = "job" /\ jobs[r].owner = p
     IN  /\ Mark(r, FALSE)
         /\ jobs' = IF owned
                    THEN [jobs EXCEPT ![r].state = "waiting", ![r].owner = NoProc]
                    ELSE jobs
         /\ IF proc[p].via = "async" THEN Goes(p, "failAgain") ELSE Ends(p)
  /\ UNCHANGED <<items, lock, doubled, crossed, erased>>

\* processPayrollRunJob marks and throws: calculateAsync, which ran it inline,
\* marks again; the queue tries the job again, and onFailed marks again after
\* the last attempt.
MarkJobFailed(p) ==
  /\ At(p, "fail")
  /\ proc[p].via \in {"async", "job"}
  /\ LET r == proc[p].run
         owned == proc[p].via = "job" /\ jobs[r].owner = p
         last == jobs[r].attempts + 1 = MaxAttempts
     IN  /\ Mark(r, FALSE)
         /\ jobs' = IF owned
                    THEN [jobs EXCEPT ![r].state = IF last THEN "done" ELSE "waiting",
                                      ![r].owner = NoProc, ![r].attempts = @ + 1]
                    ELSE jobs
         /\ IF proc[p].via = "async" \/ (owned /\ last) THEN Goes(p, "failAgain") ELSE Ends(p)
  /\ UNCHANGED <<items, lock, doubled, crossed, erased>>

\* Mutant of MarkAgain: neither onFailed nor calculateAsync marks the run.
LeaveUnmarked(p) ==
  /\ At(p, "failAgain")
  /\ Ends(p)
  /\ UNCHANGED <<runs, items, lock, jobs, abandoned, doubled, crossed, erased>>

MarkAgain(p) ==
  /\ At(p, "failAgain")
  /\ Mark(proc[p].run, TRUE)
  /\ Ends(p)
  /\ UNCHANGED <<items, lock, jobs, doubled, crossed, erased>>

-----------------------------------------------------------------------------
(* The queue *)

TakeJob(p, r) ==
  /\ At(p, "idle")
  /\ jobs[r].state = "waiting"
  /\ jobs' = [jobs EXCEPT ![r].state = "active", ![r].owner = p]
  /\ proc' = [proc EXCEPT ![p] = [Free EXCEPT !.at = "check", !.via = "job", !.run = r]]
  /\ doubled' = IF \E q \in Procs : proc[q].run = r /\ proc[q].at \in Computing
                THEN doubled \cup {r} ELSE doubled
  /\ UNCHANGED <<runs, items, lock, abandoned, crossed, erased>>

\* The queue has not heard of the worker, which may be gone or only slow.
Stall(r) ==
  /\ jobs[r].state = "active"
  /\ jobs[r].stalls < MaxStalls
  /\ jobs' = [jobs EXCEPT ![r].state = "waiting", ![r].owner = NoProc, ![r].stalls = @ + 1]
  /\ UNCHANGED <<runs, items, lock, proc, abandoned, doubled, crossed, erased>>

\* A job that stalls too often fails; as its attempts are not used up, onFailed
\* does not mark the run.
StallTooOften(r) ==
  /\ jobs[r].state = "active"
  /\ jobs[r].stalls = MaxStalls
  /\ jobs' = [jobs EXCEPT ![r].state = "done", ![r].owner = NoProc]
  /\ abandoned' = abandoned \cup {r}
  /\ UNCHANGED <<runs, items, lock, proc, doubled, crossed, erased>>

\* The process stops: a transaction rolls back, a job stays active.  One that has
\* failed for good is not marked again.
Crash(p) ==
  /\ ~At(p, "idle")
  /\ Ends(p)
  /\ lock' = IF lock = p THEN NoProc ELSE lock
  /\ abandoned' = IF proc[p].via \in {"calculate", "async"} \/ At(p, "failAgain")
                  THEN abandoned \cup {proc[p].run} ELSE abandoned
  /\ UNCHANGED <<runs, items, jobs, doubled, crossed, erased>>

-----------------------------------------------------------------------------
(* approve, reject and deletePayrollRun *)

Approve(r) ==
  /\ Exists(r)
  /\ runs' = [runs EXCEPT ![r].status = "approved", ![r].approval = "approved"]
  /\ UNCHANGED <<items, lock, jobs, proc, abandoned, doubled, crossed, erased>>

Reject(r) ==
  /\ Exists(r)
  /\ runs' = [runs EXCEPT ![r].status = "draft", ![r].approval = "rejected"]
  /\ UNCHANGED <<items, lock, jobs, proc, abandoned, doubled, crossed, erased>>

\* The check and the deletion are two steps here too, without the lock.
ReadForDelete(p, r) ==
  /\ At(p, "idle")
  /\ Exists(r)
  /\ runs[r].approval # "approved"
  /\ proc' = [proc EXCEPT ![p] = [Free EXCEPT !.at = "delete", !.run = r]]
  /\ UNCHANGED <<runs, items, lock, jobs, abandoned, doubled, crossed, erased>>

DeletePayrollRun(p) ==
  /\ At(p, "delete")
  /\ Exists(proc[p].run)
  /\ WithoutRun(proc[p].run)
  /\ erased' = TRUE
  /\ Ends(p)
  /\ UNCHANGED <<lock, jobs, abandoned, doubled, crossed>>

\* The run is gone, or the database fails.
DeleteThrows(p) ==
  /\ At(p, "delete")
  /\ Ends(p)
  /\ UNCHANGED <<runs, items, lock, jobs, abandoned, doubled, crossed, erased>>

-----------------------------------------------------------------------------
Calculate(p) ==
  \/ FindOld(p) \/ NothingToDelete(p) \/ CheckOld(p) \/ DeleteOld(p) \/ CleanupThrows(p)
  \/ Enqueue(p) \/ RunInline(p)

Compute(p) ==
  \/ Check(p) \/ Begin(p) \/ Clear(p) \/ Insert(p) \/ Finish(p) \/ Throw(p)
  \/ MarkFailed(p) \/ MarkJobFailed(p) \/ MarkAgain(p)

Delete(p) == DeletePayrollRun(p) \/ DeleteThrows(p)

\* Calculations are asked for and done...
Work ==
  \/ \E p \in Procs, r \in Runs :
       CreateRun(p, r, "calculate") \/ CreateRun(p, r, "async") \/ TakeJob(p, r)
  \/ \E p \in Procs : Calculate(p) \/ Compute(p) \/ Delete(p)
  \/ \E r \in Runs : Stall(r) \/ StallTooOften(r)

\* ...while users decide on runs and processes die.
Disturb ==
  \/ \E r \in Runs : Approve(r) \/ Reject(r) \/ \E p \in Procs : ReadForDelete(p, r)
  \/ \E p \in Procs : Crash(p)

Next == Work \/ Disturb

\* A process that runs goes on, the worker takes jobs, and the queue notices a
\* worker that is gone.
Gone(r) ==
  /\ jobs[r].state = "active"
  /\ LET worker == proc[jobs[r].owner]
     IN  worker.via # "job" \/ worker.run # r

Fairness ==
  /\ \A p \in Procs : WF_vars(Calculate(p) \/ Compute(p) \/ Delete(p))
  /\ \A r \in Runs : WF_vars(Gone(r) /\ (Stall(r) \/ StallTooOften(r)))
  /\ \A r \in Runs : SF_vars(\E p \in Procs : TakeJob(p, r))

PayrollSpec == Init /\ [][Next]_vars /\ Fairness

-----------------------------------------------------------------------------
(* Properties *)

\* Types.
PayrollTypeOK ==
  /\ runs \in [Runs -> Run]
  /\ items \in [Runs -> SUBSET (1..NumBatches)]
  /\ lock \in Procs \cup {NoProc}
  /\ jobs \in [Runs -> Job]
  /\ proc \in [Procs -> Process]
  /\ abandoned \subseteq Runs
  /\ doubled \subseteq Runs
  /\ crossed \in BOOLEAN
  /\ erased \in BOOLEAN

\* "Ensures idempotent retry for the same run id": a run that says it is
\* completed has an item for every employee, whatever attempts have failed or
\* died before, unless two processes have computed it at once.
CompletedRunsAreComplete ==
  \A r \in Runs \ doubled :
    runs[r].status = "completed" => items[r] = 1..NumBatches

\* A run that waits or is being processed has somebody who works on it or a job
\* that will ("leaving the run stuck at `queued' forever" is what onFailed is
\* there to prevent), unless the process of its calculation died, its cleanup
\* threw, its worker stalled too often, the last attempt to mark it failed has itself
\* failed, or two processes have computed it at once.
Attended(r) ==
  \/ \E p \in Procs : proc[p].run = r
  \/ jobs[r].state \in {"waiting", "active"}

NoRunIsStuck ==
  \A r \in Runs \ (abandoned \cup doubled) :
    runs[r].status \in {"queued", "processing"} => Attended(r)

\* The two together: what ends is complete and what is not complete ends.
RunsEndComplete == CompletedRunsAreComplete /\ NoRunIsStuck

\* Calculating a period again replaces its run by a new one: a period that has
\* been calculated has a run, as long as calculations do not overlap and nobody
\* deletes runs by hand.
PeriodKeepsARun ==
  crossed \/ erased \/ (\A r \in Runs : runs[r].status = "absent")
    \/ \E r \in Runs : Exists(r)

\* The job has ended, and its run does not wait and is not in processing, but for the
\* exceptions of NoRunIsStuck.
Settled(r) ==
  /\ jobs[r].state = "done"
  /\ runs[r].status \in {"queued", "processing"} => r \in abandoned \cup doubled

\* Every job ends, whatever its attempts throw and its workers die of: failed attempts
\* are counted, and stalled ones too.  It leaves its run completed or marked, but for the
\* exceptions of Settled: a job that stalled too often marks nothing, and the last
\* marking may fail.
JobsGetDone == \A r \in Runs : jobs[r].state = "waiting" ~> Settled(r)

\* What the test of calculateAsync says of overlapping calculations: "the second
\* replaces the first".
OverlappingCalculationsLeaveARun ==
  erased \/ abandoned # {} \/ (\E p \in Procs : ~At(p, "idle"))
    \/ (\A r \in Runs : runs[r].status = "absent")
    \/ \E r \in Runs : Exists(r)
=============================================================================
