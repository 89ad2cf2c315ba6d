---------------------------- MODULE MCJobWatcher ----------------------------
(* Small instances of JobWatcher. *)
EXTENDS JobWatcher

Ending(cond, pod) == [cond |-> cond, pod |-> pod]
MCFailures == {Ending("BackoffLimitExceeded", "crashed"), Ending("BackoffLimitExceeded", "none"),
               Ending("DeadlineExceeded", "none")}

Budget(jobs, error, restart, move, evict, ill, fence) ==
    [jobs |-> jobs, error |-> error, restart |-> restart, move |-> move, evict |-> evict, ill |-> ill,
     fence |-> fence]

(* Two Jobs with a failing command, a restart, an eviction or a fence; one *)
(* Job whose Config moves or whose pod gets into trouble.                  *)
MCBudgets == {Budget(2, 1, 0, 0, 0, 0, 0), Budget(2, 0, 1, 0, 0, 0, 0), Budget(2, 0, 0, 0, 1, 0, 0),
              Budget(2, 0, 0, 0, 0, 0, 1), Budget(1, 0, 0, 1, 0, 0, 0), Budget(1, 0, 0, 0, 0, 1, 0)}
=============================================================================
