------------------------------ MODULE TaskGate ------------------------------
(***************************************************************************)
(* The decisions of pkg/handler and pkg/config_resolver.go that depend on  *)
(* a task record and on the Configs alone: which Config a task is routed   *)
(* to, which gate of the event path and of the reconcile pass refuses it,  *)
(* in what order waiting tasks are admitted, how many Jobs an assignee may *)
(* run, and what the trigger budget writes.  The modules SpawnFunnel and   *)
(* TaskRouting take every step that acts on a task through them.           *)
(*                                                                         *)
(* A task record is its frontmatter: the fields are the keys of the file.  *)
(* An assignee is <<name, k>>, the name followed by k vault suffixes, so   *)
(* that "the composed name" (name-vault) is <<name, k + 1>>.               *)
(***************************************************************************)
EXTENDS Integers, Sequences, FiniteSets, FiniteSetsExt, SequencesExt

CONSTANTS
    Cluster,         \* the executor's own cluster
    RunUntagged,     \* it also runs tasks that name no cluster
    StageFilter,     \* tasks of another stage are refused
    Branch,          \* the executor's stage
    AcceptedVaults,  \* the vault stamps it accepts (its own and the aliases)
    Configs,         \* the Config resources, in the order the lister returns them
    None             \* a frontmatter key that is absent or empty

NotFound == [none |-> "not_found"]   \* ErrConfigNotFound
Ambiguous == [none |-> "ambiguous"]  \* ErrConfigAmbiguous
NoConfig == [none |-> "nil"]         \* a nil Config: the task names no assignee

ASSUME GateConstants ==
    /\ RunUntagged \in BOOLEAN
    /\ StageFilter \in BOOLEAN

(* The declared maximum is an int; a pod quota is not negative (the API    *)
(* server refuses one that is).                                            *)
ASSUME ConfigConstants ==
    /\ Configs \in Seq(Range(Configs))
    /\ \A config \in Range(Configs) :
          /\ config \notin {NotFound, Ambiguous, NoConfig}
          /\ config.max \in Int
          /\ \A quota \in config.quotas : quota.pods \in Nat \union {None}

TerminalStatuses == {"completed", "aborted"}
TerminalPhases == {"human_review", "done"}
defaultTriggerPhases == {"planning", "execution", "ai_review"}
defaultTriggerStatuses == {"in_progress"}
defaultMaxTriggers == 3

IsTerminalStatus(status) == status \in TerminalStatuses

IsTerminal(phase) == phase \in TerminalPhases

IsConfig(config) == config \notin {NotFound, Ambiguous, NoConfig}

-----------------------------------------------------------------------------
(* Which Config a task is routed to. *)

EffectiveTaskTypes(config) ==
    config.taskTypes \union (IF config.taskType = None THEN {} ELSE {config.taskType})

TaskTypeInSet(type, types) == type # None /\ type \in types

Assignees == {config.assignee : config \in Range(Configs)}

(* The first Config with the name: Resolve stops at it. *)
ConfigNamed ==
    [a \in Assignees |-> Configs[Min({i \in DOMAIN Configs : Configs[i].assignee = a})]]

Composed(assignee) == <<assignee[1], assignee[2] + 1>>

(* The Config with the composed name wins over the one with the plain name. *)
Resolve(assignee) ==
    CASE Composed(assignee) \in Assignees -> ConfigNamed[Composed(assignee)]
      [] Composed(assignee) \notin Assignees /\ assignee \in Assignees -> ConfigNamed[assignee]
      [] OTHER -> NotFound

(* The one Config of matches with that assignee, composed name first; two  *)
(* Configs with the first name that occurs settle nothing.                 *)
narrowByAssignee(matches, assignee) ==
    LET hits(a) == SelectSeq(matches, LAMBDA c : c.assignee = a)
        found == IF hits(Composed(assignee)) # <<>> THEN hits(Composed(assignee))
                                                    ELSE hits(assignee)
    IN  IF Len(found) = 1 THEN found[1] ELSE NotFound

narrowByDefault(matches, type) ==
    LET hits == SelectSeq(matches, LAMBDA c : TaskTypeInSet(type, c.dflt))
    IN  IF Len(hits) = 1 THEN hits[1] ELSE NotFound

ResolveByTaskType(type, prefer) ==
    LET matches == SelectSeq(Configs, LAMBDA c : TaskTypeInSet(type, EffectiveTaskTypes(c)))
        preferred == IF prefer = None THEN NotFound ELSE narrowByAssignee(matches, prefer)
        designated == narrowByDefault(matches, type)
    IN  CASE matches = <<>> -> NotFound
          [] Len(matches) = 1 -> matches[1]
          [] OTHER -> IF preferred # NotFound THEN preferred
                      ELSE IF designated # NotFound THEN designated
                      ELSE Ambiguous

(* The event path: an empty assignee is no Config, not an error. *)
resolveConfig(task) ==
    IF task.assignee = None THEN NoConfig ELSE Resolve(task.assignee)

(* The recorded previous assignee counts only while its Config declares the type. *)
inTypePreviousAssignee(task) ==
    IF /\ task.prev # None
       /\ Resolve(task.prev) # NotFound
       /\ TaskTypeInSet(task.type, EffectiveTaskTypes(Resolve(task.prev)))
    THEN task.prev ELSE None

\* Mutant: the declared type is asked before the assignee.
resolveByTypeFirst(task) ==
    IF task.type = None THEN resolveConfig(task)
    ELSE ResolveByTaskType(task.type, inTypePreviousAssignee(task))

(* The reconcile pass: a task that lost its assignee is routed by its type. *)
resolveConfigForReconcile(task) ==
    IF resolveConfig(task) # NoConfig \/ task.type = None
    THEN resolveConfig(task)
    ELSE ResolveByTaskType(task.type, inTypePreviousAssignee(task))

taskTypeMismatch(task, config) ==
    /\ IsConfig(config)
    /\ EffectiveTaskTypes(config) # {}
    /\ ~TaskTypeInSet(task.type, EffectiveTaskTypes(config))

-----------------------------------------------------------------------------
(* The gates, in the order the code asks them. *)

effectiveTriggerPhases(config) ==
    IF IsConfig(config) /\ config.phases # {} THEN config.phases ELSE defaultTriggerPhases

effectiveTriggerStatuses(config) ==
    IF IsConfig(config) /\ config.statuses # {} THEN config.statuses ELSE defaultTriggerStatuses

isForeignCluster(task) ==
    IF task.cluster = None THEN ~RunUntagged ELSE task.cluster # Cluster

stageSkipResult(task) == StageFilter /\ task.stage # Branch

Accepts(vault) == vault # None /\ vault \in AcceptedVaults

(* The event path's gates, the first that refuses decides. *)
parseAndFilter(task) ==
    LET config == resolveConfig(task)
    IN  IF isForeignCluster(task) THEN "foreign_cluster"
        ELSE IF config = NotFound THEN "unknown_assignee"
        ELSE IF taskTypeMismatch(task, config) THEN "type_mismatch"
        ELSE IF IsTerminalStatus(task.status) THEN "terminal_status"
        ELSE IF task.status \notin effectiveTriggerStatuses(config) THEN "status"
        ELSE IF IsTerminal(task.phase) THEN "terminal_phase"
        ELSE IF task.phase \notin effectiveTriggerPhases(config) THEN "phase"
        ELSE IF stageSkipResult(task) THEN "stage"
        ELSE IF task.assignee = None THEN "assignee"
        ELSE "run"

(* The reconcile pass's.  "restore": eligible, but its routing value has   *)
(* to be written back first.                                               *)
reconcileTask(task) ==
    LET config == resolveConfigForReconcile(task)
    IN  IF isForeignCluster(task) THEN "foreign_cluster"
        ELSE IF config = Ambiguous THEN "resolve_error"
        ELSE IF config = NotFound THEN "unresolved_config"
        ELSE IF taskTypeMismatch(task, config) THEN "type_mismatch"
        ELSE IF IsTerminalStatus(task.status) THEN "terminal_status"
        ELSE IF task.status \notin effectiveTriggerStatuses(config) THEN "status"
        ELSE IF task.phase \notin effectiveTriggerPhases(config) THEN "phase"
        ELSE IF IsTerminal(task.phase) THEN "terminal_phase"
        ELSE IF stageSkipResult(task) THEN "stage"
        ELSE IF task.assignee = None /\ config = NoConfig THEN "no_routing"
        ELSE IF task.assignee = None THEN "restore"
        ELSE "run"

(* A pass runs only over a snapshot that holds a task of this vault. *)
classifyVaults(tasks) ==
    LET stamps == {t.vault : t \in tasks} \ {None}
    IN  CASE tasks = {} -> "ok"
          [] tasks # {} /\ stamps = {} -> "unstamped"
          [] \E v \in stamps : Accepts(v) -> "ok"
          [] OTHER -> "mismatch"

ownedTasks(tasks) == {t \in tasks : Accepts(t.vault)}

-----------------------------------------------------------------------------
(* Admission: who is first, and how many may run. *)

(* A task that never ran comes first; then the one that waits longest. *)
admissionPriority(task) ==
    IF task.started = 0 THEN 0
    ELSE IF task.queued # 0 THEN task.queued ELSE task.started

InAdmissionOrder(tasks) ==
    \A i, j \in DOMAIN tasks :
        i < j => admissionPriority(tasks[i]) <= admissionPriority(tasks[j])

(* The smallest pod limit of the quotas scoped to the priority class.  A   *)
(* read of the quotas that fails leaves the declared maximum, and is left  *)
(* out here.                                                               *)
podQuotaFromQuotas(quotas, class) ==
    LET limits == {q.pods : q \in {r \in quotas : class \in r.classes /\ r.pods # None}}
    IN  IF limits = {} THEN [limit |-> 0, bounded |-> FALSE]
        ELSE [limit |-> Min(limits), bounded |-> TRUE]

effectiveConcurrencyCap(max, quota) ==
    LET pods == Max({quota.limit, 0})
    IN  CASE ~quota.bounded -> [cap |-> Max({max, 0}), bounded |-> FALSE]
          [] quota.bounded /\ max <= 0 -> [cap |-> pods, bounded |-> TRUE]
          [] OTHER -> [cap |-> Min({pods, max}), bounded |-> TRUE]

(* Neither a quota nor a positive maximum: the assignee is not capped. *)
CapOf(config) ==
    effectiveConcurrencyCap(config.max, podQuotaFromQuotas(config.quotas, config.class))

Capped(config) == CapOf(config).cap > 0 \/ CapOf(config).bounded

AtConcurrencyCap(running, config) == Capped(config) /\ running >= CapOf(config).cap

-----------------------------------------------------------------------------
(* The trigger budget. *)

triggerScope(task) == <<task.phase, task.ref>>

maxTriggers(task) == IF task.max = None THEN defaultMaxTriggers ELSE task.max

\* Mutant: one run too many.
checkTriggerBudgetOffByOne(task) ==
    /\ task.max # None \/ task.ref # None
    /\ task.scope \in {None, triggerScope(task)}
    /\ task.trig > maxTriggers(task)

checkTriggerBudget(task) ==
    /\ task.max # None \/ task.ref # None
    /\ task.scope \in {None, triggerScope(task)}
    /\ task.trig >= maxTriggers(task)

(* What a spawn writes: a new scope starts at one, a task without a scope  *)
(* adopts the present one and keeps its count, otherwise one is added to   *)
(* whatever the file holds when the controller applies the command.        *)
triggerBudgetWrite(task) ==
    CASE task.scope \notin {None, triggerScope(task)} ->
            [op |-> "scope", scope |-> triggerScope(task), trig |-> 1]
      [] task.scope = None ->
            [op |-> "scope", scope |-> triggerScope(task), trig |-> task.trig + 1]
      [] OTHER -> [op |-> "increment"]

-----------------------------------------------------------------------------
(* The vault index, the second opinion on what is over. *)

(* items is the list the index returns; the last entry of an id decides. *)
indexTerminalIDs(items) ==
    {items[i].id : i \in {k \in DOMAIN items :
        /\ IsTerminalStatus(items[k].status) \/ IsTerminal(items[k].phase)
        /\ \A l \in DOMAIN items : items[l].id = items[k].id => l <= k}}

=============================================================================
