------------------------------ MODULE ClaimKey ------------------------------
(***************************************************************************)
(* The key a task claims (pkg/claim/key.go, claimOwnerRepo and             *)
(* splitOwnerRepo of pkg/handler/claim_wiring.go, ClaimTarget of           *)
(* pkg/claim/vault_api_client.go).                                         *)
(*                                                                         *)
(* Every executor, and the vault API, derives the key for itself, and      *)
(* recovery reads the target back out of a listed key: the mapping must    *)
(* give one key to what must not run twice, and no key to two things.      *)
(*                                                                         *)
(* A text is a sequence of symbols.  Of the symbols that stand for single  *)
(* characters, "A" is the capital of "a" and "~" is outside [A-Za-z0-9._-];*)
(* a longer symbol stands for a word nothing looks into.                   *)
(***************************************************************************)
EXTENDS Integers, Sequences, FiniteSets, FiniteSetsExt, SequencesExt

VARIABLE asked  \* the tasks whose keys are asked for, and the targets

Text == Seq(STRING)
TaskFields == [type : STRING, id : Text, repo : Text, cloneURL : Text,
               body : Seq([owner : Text, repo : Text, number : Text])]
TargetFields == [id : Text, owner : Text, repo : Text, number : Text]

(* Any texts may be asked for. *)
AskedOK == asked.tasks \subseteq TaskFields /\ asked.targets \subseteq TargetFields

Empty == <<>>
Absent == <<"absent">>  \* the second result is false, or an error is returned

ToLower(text) == [i \in DOMAIN text |-> IF text[i] = "A" THEN "a" ELSE text[i]]

Digits == {"0", "1", "2", "3", "4", "5", "6", "7", "8", "9"}

Slashes(text) == {i \in DOMAIN text : text[i] = "/"}

\* Mutant: the components are joined by a hyphen.
HyphenJoined(text, part) == text \o <<"-">> \o part

Joined(text, part) == text \o <<"/">> \o part

Key(kind, text) == <<"claims", "/", kind, "/">> \o text

-----------------------------------------------------------------------------
(* The components of a key. *)

isSafeClaimRune(symbol) == symbol \notin {"/", "~"}

validateClaimComponent(text) ==
    /\ text # Empty
    /\ \A i \in 2..Len(text) : ~(text[i - 1] = "." /\ text[i] = ".")
    /\ Head(text) # "."
    /\ ~IsSuffix(<<".", "lock">>, text)
    /\ \A i \in DOMAIN text : isSafeClaimRune(text[i])

(* splitOwnerRepo of the frontmatter value: at the first slash, neither    *)
(* side empty.                                                             *)
splitOwnerRepo(raw) ==
    LET cut == Min(Slashes(raw))
    IN  IF Slashes(raw) = {} \/ cut \in {1, Len(raw)} THEN [owner |-> Empty, repo |-> Empty]
        ELSE [owner |-> SubSeq(raw, 1, cut - 1), repo |-> SubSeq(raw, cut + 1, Len(raw))]

(* `repo` wins, then `clone_url`, here the path of one. *)
claimOwnerRepo(task) ==
    LET own == splitOwnerRepo(task.repo)
    IN  IF own.owner # Empty THEN own ELSE splitOwnerRepo(task.cloneURL)

(* A line of the body that is exactly the URL of a pull request of the     *)
(* repository gives its number in canonical form, without leading zeros.   *)
pullRequestNumberFromLine(owner, repo, line) ==
    LET ones == {i \in DOMAIN line.number : line.number[i] # "0"}
    IN  IF /\ owner # Empty /\ repo # Empty
           /\ ToLower(line.owner) = owner /\ ToLower(line.repo) = repo
           /\ Len(line.number) <= 10 /\ Range(line.number) \subseteq Digits /\ ones # {}
        THEN SubSeq(line.number, Min(ones), Len(line.number))
        ELSE Absent

pullRequestNumberFromBody(owner, repo, body) ==
    LET found == {i \in DOMAIN body : pullRequestNumberFromLine(owner, repo, body[i]) # Absent}
    IN  IF found = {} THEN Absent ELSE pullRequestNumberFromLine(owner, repo, body[Min(found)])

-----------------------------------------------------------------------------
(* The key of a task, or Absent. *)

repoKeyedTaskTypes == {"update-go", "release", "build-fix"}

Checked(parts, key) == IF \A part \in parts : validateClaimComponent(part) THEN key ELSE Absent

DeriveClaimKey(task) ==
    LET owner == ToLower(claimOwnerRepo(task).owner)
        repo == ToLower(claimOwnerRepo(task).repo)
    IN  IF task.type \in repoKeyedTaskTypes
        THEN Checked({owner, repo}, Key("repo", Joined(owner, repo)))
        ELSE Checked({task.id}, Key("task", task.id))

DeriveClaimKeysWithBody(task) ==
    LET owner == ToLower(claimOwnerRepo(task).owner)
        repo == ToLower(claimOwnerRepo(task).repo)
        number == pullRequestNumberFromBody(owner, repo, task.body)
    IN  IF task.type = "pr-review" /\ number # Absent
        THEN Checked({owner, repo, number}, Key("pr", Joined(Joined(owner, repo), number)))
        ELSE DeriveClaimKey(task)

-----------------------------------------------------------------------------
(* Targets. *)

Target(id, owner, repo, number) == [id |-> id, owner |-> owner, repo |-> repo, number |-> number]
NoTarget == Target(Absent, Absent, Absent, Absent)

isRepo(target) == target.owner # Empty \/ target.repo # Empty
isPR(target) == target.number # Empty
\* Mutant: only the repository form counts as a second form.
isAmbiguousRepoOnly(target) == target.id # Empty /\ isRepo(target)
isAmbiguous(target) == target.id # Empty /\ (isRepo(target) \/ isPR(target))
validPRNumber(number) == number # Empty /\ Range(number) \subseteq Digits

(* The inverse of the derivation, for a key that a listing returns: split   *)
(* at its slashes the rest has two parts, or three, and none is empty.      *)
TargetFromKey(key) ==
    LET rest == SubSeq(key, 5, Len(key))
        cuts == Slashes(rest)
        first == Min(cuts)
        last == Max(cuts)
        end == Len(rest) + 1
        part(i, j) == SubSeq(rest, i + 1, j - 1)
        under(kind) == IsPrefix(<<"claims", "/", kind, "/">>, key)
    IN  CASE under("task") /\ rest # Empty -> Target(rest, Empty, Empty, Empty)
          [] under("repo") /\ cuts # {} /\ cuts = {first} /\ first \notin {1, Len(rest)} ->
                Target(Empty, part(0, first), part(first, end), Empty)
          [] /\ under("pr") /\ cuts # {} /\ cuts = {first, last}
             /\ first > 1 /\ last > first + 1 /\ last < Len(rest) ->
                Target(Empty, part(0, first), part(first, last), part(last, end))
          [] OTHER -> NoTarget

KeyFor(target) ==
    CASE isAmbiguous(target) -> Absent
      [] ~isAmbiguous(target) /\ target.id # Empty -> Key("task", target.id)
      [] target.id = Empty /\ isPR(target) /\ ~validPRNumber(target.number) -> Absent
      [] target.id = Empty /\ (target.owner = Empty \/ target.repo = Empty) -> Absent
      [] OTHER -> IF isPR(target) THEN Key("pr", Joined(Joined(target.owner, target.repo), target.number))
                  ELSE Key("repo", Joined(target.owner, target.repo))

(* The route of the vault API for a target: which form, and of what. *)
path(target) ==
    IF \/ isAmbiguous(target)
       \/ target.id = Empty /\ \/ target.owner = Empty \/ target.repo = Empty
                               \/ isPR(target) /\ ~validPRNumber(target.number)
    THEN Absent
    ELSE CASE target.id # Empty -> <<"tasks", target.id>>
           [] target.id = Empty /\ isPR(target) -> <<"pulls", target.owner, target.repo, target.number>>
           [] OTHER -> <<"repos", target.owner, target.repo>>

renewPath(target) == IF path(target) = Absent THEN Absent ELSE Append(path(target), "renew")

-----------------------------------------------------------------------------
(* What must not run twice: for an update, a release or a build fix the    *)
(* repository, for a review the first pull request of its repository that  *)
(* its body names, else the task itself.  Names of repositories differ in  *)
(* more than their capitals.                                               *)
Subject(task) ==
    LET owner == ToLower(claimOwnerRepo(task).owner)
        repo == ToLower(claimOwnerRepo(task).repo)
        number == pullRequestNumberFromBody(owner, repo, task.body)
    IN  CASE task.type \in repoKeyedTaskTypes -> Target(Empty, owner, repo, Empty)
          [] task.type = "pr-review" /\ number # Absent -> Target(Empty, owner, repo, number)
          [] OTHER -> Target(task.id, Empty, Empty, Empty)

(* A derived key and the subject of the task determine each other: no two  *)
(* subjects share a key, whatever hyphens, dots and capitals their names   *)
(* hold, and recovery reads from a listed key the target that renews and   *)
(* releases it (DeriveClaimKeysWithBody, TargetFromKey, KeyFor).           *)
KeyNamesSubject(task) ==
    LET key == DeriveClaimKeysWithBody(task)
    IN  key # Absent =>
            /\ TargetFromKey(key) = Subject(task)
            /\ KeyFor(Subject(task)) = key
            /\ renewPath(Subject(task)) # Absent

KeysNameSubjects == \A task \in asked.tasks : KeyNamesSubject(task)

(* A target has a route exactly when it has a key, and a key with a route  *)
(* is read back as the target it came from unless a component holds the    *)
(* separator (path, KeyFor).                                               *)
RouteIffKey(target) ==
    /\ (path(target) = Absent) = (KeyFor(target) = Absent)
    /\ KeyFor(target) # Absent /\ "/" \notin Range(target.owner) \union Range(target.repo)
          => TargetFromKey(KeyFor(target)) = target

RoutesMatchKeys == \A target \in asked.targets : RouteIffKey(target)

=============================================================================
