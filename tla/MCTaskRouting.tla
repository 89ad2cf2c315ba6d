---------------------------- MODULE MCTaskRouting ---------------------------
(* Small instances of TaskRouting. *)
EXTENDS TaskRouting

AgentConfig(name, k, type) ==
    [assignee |-> <<name, k>>, taskType |-> type, taskTypes |-> {}, dflt |-> {},
     phases |-> {}, statuses |-> {}, max |-> 1, quotas |-> {}, class |-> None,
     validNamespace |-> TRUE]

(* The vault has a coder of its own beside the shared one, for the same    *)
(* type, whose default the shared one is, and a writer.                    *)
MCConfigs == <<[AgentConfig("coder", 0, "code") EXCEPT !.dflt = {"code"}],
               AgentConfig("coder", 1, "code"), AgentConfig("writer", 0, "docs")>>

MCFirst ==
    [vault |-> "v", cluster |-> "home", status |-> "in_progress", phase |-> "planning",
     stage |-> "prod", assignee |-> <<"coder", 0>>, prev |-> None, type |-> "code",
     ref |-> "abc", max |-> 2, trig |-> 0, scope |-> None, job |-> 0, started |-> 0,
     queued |-> 0, refusal |-> None]

Advance == [phase |-> "execution"]
Edits == {Advance, [assignee |-> None], [type |-> "docs"],
          [status |-> "completed"], [cluster |-> "other"]}

Budget(patch, lose, restart, full, run, crash) ==
    [patch |-> patch, lose |-> lose, restart |-> restart, full |-> full, run |-> run,
     crash |-> crash]

(* Every edit around a run; a new phase between two runs; the count of one *)
(* of two or three runs lost; four runs around a wait behind the cap; a    *)
(* wait with an edit, a lost stamp or a restart in it.                     *)
MCBudgets == {Budget(Edits, 0, 0, 0, 1, 1), Budget({Advance}, 0, 0, 0, 2, 1),
              Budget({}, 1, 0, 0, 2, 1), Budget({}, 1, 0, 0, 3, 0), Budget({}, 0, 0, 1, 4, 0),
              Budget({}, 0, 1, 0, 1, 1), Budget(Edits, 0, 0, 2, 0, 0),
              Budget({}, 1, 0, 3, 0, 0), Budget({}, 0, 1, 2, 0, 0)}
MCVaults == {"v"}
=============================================================================
