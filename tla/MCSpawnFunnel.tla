--------------------------- MODULE MCSpawnFunnel ----------------------------
(* Small instances of SpawnFunnel. *)
EXTENDS SpawnFunnel

(* The pod quota of the batch class is the smaller bound. *)
Quotas == {[classes |-> {"batch"}, pods |-> 1], [classes |-> {"other"}, pods |-> 0],
           [classes |-> {"batch", "other"}, pods |-> None]}

AgentConfig(name, max) ==
    [assignee |-> <<name, 0>>, taskType |-> "code", taskTypes |-> {}, dflt |-> {},
     phases |-> {}, statuses |-> {}, max |-> max, quotas |-> Quotas, class |-> "batch",
     validNamespace |-> TRUE]

MCConfigs == <<AgentConfig("coder", 2)>>

Live == [vault |-> "v", cluster |-> "home", status |-> "in_progress", phase |-> "execution",
         stage |-> "prod", assignee |-> <<"coder", 0>>, prev |-> None, type |-> "code",
         ref |-> None, max |-> None, trig |-> 0, scope |-> None,
         job |-> 0, started |-> 0, queued |-> 0]
Retagged == [Live EXCEPT !.cluster = "other"]
Completed == [Live EXCEPT !.status = "completed"]

MCEdits == {Live, Retagged, Completed}
MCVaults == {"v"}
Symmetry == Permutations(Tasks)

(* Both tasks compete for the one slot, or one runs alone and is edited. *)
Both(n, kinds) ==
    {[rec |-> [t \in Tasks |-> Live], evt |-> [t \in Tasks |-> n], trouble |-> kinds]}
Single(kinds) ==
    {[rec |-> [t \in Tasks |-> IF t = s THEN Live ELSE Completed],
      evt |-> [t \in Tasks |-> IF t = s THEN 0 ELSE 1],
      trouble |-> {<<"edit", s>>} \union kinds] : s \in Tasks}

MCStarts ==
    Both(0, {}) \union Both(1, {<<"spawn">>})
        \union UNION {Single({<<k>>}) : k \in {"crash", "timeout", "index", "notify", "refusal"}}
=============================================================================
