--------------------------- MODULE MCPayrollRuns ---------------------------
(***************************************************************************)
(* PayrollRuns for TLC: a bounded number of decisions and crashes, and     *)
(* the runs that may become jobs.                                          *)
(***************************************************************************)
EXTENDS PayrollRuns, TLC

CONSTANTS MaxDisturbances, AsyncRuns

VARIABLE left   \* how many decisions and crashes are still to come

MCInit == Init /\ left = MaxDisturbances

MCWork ==
  /\ Work
  /\ \A p \in Procs : proc'[p].via = "async" => proc'[p].run \in AsyncRuns
  /\ UNCHANGED left

MCDisturb == Disturb /\ left > 0 /\ left' = left - 1

\* Without fairness the processes are interchangeable.
MCSafety == MCInit /\ [][MCWork \/ MCDisturb]_<<vars, left>>

Symmetry == Permutations(Procs)

MCSpec == MCSafety /\ Fairness
=============================================================================
