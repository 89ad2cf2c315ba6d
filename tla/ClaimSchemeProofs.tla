------------------------- MODULE ClaimSchemeProofs --------------------------
(***************************************************************************)
(* The scheme of the claim keys.                                           *)
(*                                                                         *)
(* Its declaration, for any number of clusters, schemes and withdrawals:   *)
(* the claims under it do not split, and SchemeGuard implements            *)
(* FleetScheme.  NoSplitClaim is not inductive: a verdict is reached       *)
(* before the claim it leads to, so two verdicts under way must agree      *)
(* already.  The invariant speaks of tickets, verdicts whether used or     *)
(* not: those of one round are of one scheme, those of the present round   *)
(* are of the declared scheme, and a held claim owns the ref of its scheme.*)
(*                                                                         *)
(* Its keys, for tasks and targets of any texts: a key is read back as     *)
(* what it was derived from.                                               *)
(***************************************************************************)
EXTENDS SchemeGuard, ClaimKey, SequenceTheorems, WellFoundedInduction, TLAPS

Ticket(c, s, r) ==
    \/ pc[c] = "claim" /\ mine[c] = s /\ verdict[c] = r
    \/ claim[c] # None /\ claim[c].scheme = s /\ claim[c].verdict = r

OneScheme ==
    \A c, d \in Clusters, s, t \in Schemes, r \in Nat : Ticket(c, s, r) /\ Ticket(d, t, r) => s = t

Declared ==
    \A c \in Clusters, s \in Schemes, r \in Nat :
        Ticket(c, s, r) => r <= round /\ (r = round => declared = s)

Owned == \A c \in Clusters : claim[c] # None => owner[claim[c].scheme] = c

SchemeInv == TypeOK /\ OneScheme /\ Declared /\ Owned

-----------------------------------------------------------------------------
(* A claim is a record, never the absent value.                            *)
LEMMA ClaimIsSome == ASSUME NEW s \in Schemes, NEW v \in Nat \union {None}
                     PROVE  [scheme |-> s, verdict |-> v] \in Claims
BY DEF Claims

(* Every step of the guard keeps the state well formed.                    *)
LEMMA SchemeTyped == TypeOK /\ [Next]_vars => TypeOK'
<1> SUFFICES ASSUME TypeOK, [Next]_vars PROVE TypeOK'
  OBVIOUS
<1> USE SchemeConstants DEF TypeOK, Goto
<1>1. ASSUME NEW c \in Clusters, Check(c) PROVE TypeOK'
  BY <1>1 DEF Check, Judge, refuse, confirm
<1>2. ASSUME NEW c \in Clusters, bootstrap(c) PROVE TypeOK'
  BY <1>2 DEF bootstrap, confirm
<1>3. ASSUME NEW c \in Clusters, reread(c) PROVE TypeOK'
  BY <1>3 DEF reread, Judge, refuse, confirm, admitUnreadable
<1>4. ASSUME NEW c \in Clusters, RequestFails(c) PROVE TypeOK'
  <2>1. declared' \in Schemes \union {None}
    BY <1>4 DEF RequestFails
  <2> QED BY <2>1, <1>4 DEF RequestFails, admitUnreadable
<1>5. ASSUME NEW c \in Clusters, acquireSpawnClaim(c) PROVE TypeOK'
  <2>1. [scheme |-> mine[c], verdict |-> verdict[c]] \in Claims
    BY ClaimIsSome
  <2> QED BY <2>1, <1>5 DEF acquireSpawnClaim
<1>6. ASSUME NEW c \in Clusters, Release(c) PROVE TypeOK'
  <2>1. claim[c].scheme \in Schemes
    BY <1>6 DEF Release, Claims
  <2> QED BY <2>1, <1>6 DEF Release
<1>7. ASSUME NEW c \in Clusters, NEW scheme \in Schemes, Restart(c, scheme) PROVE TypeOK'
  <2>1. declared' \in Schemes \union {None}
    BY <1>7 DEF Restart
  <2> QED BY <2>1, <1>7 DEF Restart
<1>8. CASE Withdraw
  BY <1>8 DEF Withdraw
<1>9. CASE UNCHANGED vars
  BY <1>9 DEF vars
<1> QED BY <1>1, <1>2, <1>3, <1>4, <1>5, <1>6, <1>7, <1>8, <1>9 DEF Next

(* What a step may do to the tickets: they are old ones, or are issued for *)
(* the present round and the scheme the step leaves declared.              *)
TicketStep ==
    \A c \in Clusters, s \in Schemes, r \in Nat :
        Ticket(c, s, r)' => Ticket(c, s, r) \/ (r = round /\ round' = round /\ declared' = s)

(* The declaration changes only when there is none, or with the round.     *)
DeclarationStep ==
    \/ round' = round /\ (declared' = declared \/ declared = None)
    \/ round' = round + 1

(* Both hold of every step.                                                *)
LEMMA StepsIssueTickets == TypeOK /\ [Next]_vars => TicketStep /\ DeclarationStep
<1> SUFFICES ASSUME TypeOK, [Next]_vars PROVE TicketStep /\ DeclarationStep
  OBVIOUS
<1> USE SchemeConstants DEF TypeOK, Goto, Ticket, TicketStep, DeclarationStep
<1>1. ASSUME NEW c \in Clusters, Check(c) PROVE TicketStep /\ DeclarationStep
  BY <1>1 DEF Check, Judge, refuse, confirm
<1>2. ASSUME NEW c \in Clusters, bootstrap(c) PROVE TicketStep /\ DeclarationStep
  BY <1>2 DEF bootstrap, confirm
<1>3. ASSUME NEW c \in Clusters, reread(c) PROVE TicketStep /\ DeclarationStep
  BY <1>3 DEF reread, Judge, refuse, confirm, admitUnreadable
<1>4. ASSUME NEW c \in Clusters, RequestFails(c) PROVE TicketStep /\ DeclarationStep
  <2>1. TicketStep
    BY <1>4 DEF RequestFails, admitUnreadable
  <2>2. DeclarationStep
    BY <1>4 DEF RequestFails
  <2> QED BY <2>1, <2>2
<1>5. ASSUME NEW c \in Clusters, acquireSpawnClaim(c) PROVE TicketStep /\ DeclarationStep
  BY <1>5 DEF acquireSpawnClaim
<1>6. ASSUME NEW c \in Clusters, Release(c) PROVE TicketStep /\ DeclarationStep
  BY <1>6 DEF Release
<1>7. ASSUME NEW c \in Clusters, NEW scheme \in Schemes, Restart(c, scheme)
      PROVE  TicketStep /\ DeclarationStep
  BY <1>7 DEF Restart
<1>8. CASE Withdraw
  BY <1>8 DEF Withdraw
<1>9. CASE UNCHANGED vars
  BY <1>9 DEF vars
<1> QED BY <1>1, <1>2, <1>3, <1>4, <1>5, <1>6, <1>7, <1>8, <1>9 DEF Next

(* A claim is made on a free ref and given up with it.                     *)
LEMMA StepsKeepOwners == TypeOK /\ Owned /\ [Next]_vars => Owned'
<1> SUFFICES ASSUME TypeOK, Owned, [Next]_vars PROVE Owned'
  OBVIOUS
<1> USE SchemeConstants DEF TypeOK, Owned
<1>1. ASSUME NEW c \in Clusters, acquireSpawnClaim(c) PROVE Owned'
  <2>1. \A d \in Clusters : claim[d] # None => claim[d].scheme \in Schemes
    BY DEF Claims
  <2> QED BY <2>1, <1>1 DEF acquireSpawnClaim
<1>2. ASSUME NEW c \in Clusters, Release(c) PROVE Owned'
  <2>1. \A d \in Clusters : claim[d] # None => claim[d].scheme \in Schemes
    BY DEF Claims
  <2> QED BY <2>1, <1>2 DEF Release
<1>3. ASSUME UNCHANGED <<owner, claim>> PROVE Owned'
  BY <1>3
<1> QED BY <1>1, <1>2, <1>3 DEF Next, vars, Check, bootstrap, reread, RequestFails, Restart, Withdraw

(* The invariant is inductive.                                             *)
LEMMA SchemeInductive == SchemeInv /\ [Next]_vars => SchemeInv'
<1> SUFFICES ASSUME SchemeInv, [Next]_vars PROVE SchemeInv'
  OBVIOUS
<1> USE DEF SchemeInv
<1>1. TypeOK'
  BY SchemeTyped
<1>2. TicketStep /\ DeclarationStep
  BY StepsIssueTickets
<1>3. Owned'
  BY StepsKeepOwners
<1>4. Declared'
  <2> SUFFICES ASSUME NEW c \in Clusters, NEW s \in Schemes, NEW r \in Nat, Ticket(c, s, r)'
               PROVE  (r <= round /\ (r = round => declared = s))'
    BY DEF Declared
  <2>1. CASE Ticket(c, s, r)
    <3>1. r <= round /\ (r = round => declared = s)
      BY <2>1 DEF Declared
    <3>2. declared = s => declared # None
      BY SchemeConstants
    <3> QED BY <1>2, <3>1, <3>2 DEF DeclarationStep, TypeOK
  <2>2. CASE r = round /\ round' = round /\ declared' = s
    BY <2>2
  <2> QED BY <1>2, <2>1, <2>2 DEF TicketStep
<1>5. OneScheme'
  <2> SUFFICES ASSUME NEW c \in Clusters, NEW d \in Clusters, NEW s \in Schemes, NEW t \in Schemes,
                      NEW r \in Nat, Ticket(c, s, r)', Ticket(d, t, r)'
               PROVE  s = t
    BY DEF OneScheme
  <2>1. CASE Ticket(c, s, r) /\ Ticket(d, t, r)
    BY <2>1 DEF OneScheme
  <2>2. CASE r = round /\ round' = round
    BY <2>2, <1>4 DEF Declared
  <2> QED BY <1>2, <2>1, <2>2 DEF TicketStep
<1> QED BY <1>1, <1>3, <1>4, <1>5

(* It holds at the start.                                                  *)
LEMMA SchemeInitial == Init => SchemeInv
BY SchemeConstants DEF Init, SchemeInv, TypeOK, OneScheme, Declared, Owned, Ticket

(* It is an invariant.                                                     *)
LEMMA SchemeInvariant == Spec => []SchemeInv
BY SchemeInitial, SchemeInductive, PTL DEF Spec

(* Tickets of one round are of one scheme, and one cluster owns its ref.   *)
LEMMA SchemeInvNoSplit == SchemeInv => NoSplitClaim
<1> SUFFICES ASSUME SchemeInv, NEW c \in Clusters, NEW d \in Clusters,
                    claim[c] # None, claim[d] # None,
                    claim[c].verdict # None, claim[c].verdict = claim[d].verdict
             PROVE  c = d
  BY DEF NoSplitClaim
<1>1. /\ claim[c].scheme \in Schemes /\ claim[d].scheme \in Schemes
      /\ claim[c].verdict \in Nat
  BY DEF SchemeInv, TypeOK, Claims
<1>2. claim[c].scheme = claim[d].scheme
  BY <1>1 DEF SchemeInv, OneScheme, Ticket
<1> QED BY <1>2 DEF SchemeInv, Owned

(* Check and bootstrap, for any number of clusters and schemes: one        *)
(* declaration never admits claims under two schemes, so it never lets two *)
(* clusters hold the task.                                                 *)
THEOREM SchemeDoesNotSplit == Spec => []NoSplitClaim
BY SchemeInvariant, SchemeInvNoSplit, PTL

-----------------------------------------------------------------------------
Member == [c \in Clusters |-> IF claim[c] = None THEN None ELSE claim[c].verdict]

(* The members of the fleet after a step that leaves the claims alone.     *)
LEMMA MembersKept == UNCHANGED claim => UNCHANGED Member
BY DEF Member

(* Every step of the guard is a step of the fleet, or none.                *)
LEMMA SchemeStepRefines == SchemeInv /\ SchemeInv' /\ [Next]_vars => [Fleet!Next]_(Fleet!vars)
<1> SUFFICES ASSUME SchemeInv, SchemeInv', [Next]_vars PROVE [Fleet!Next]_(Fleet!vars)
  OBVIOUS
<1> DEFINE Kept == UNCHANGED <<declared, round, Member>>
<1> USE SchemeConstants DEF SchemeInv, TypeOK
<1>0. Kept => UNCHANGED Fleet!vars
  BY DEF Fleet!vars, Member
<1>a. ASSUME declared = None, NEW s \in Schemes, declared' = s, UNCHANGED <<round, claim>>
      PROVE  Fleet!Next
  BY <1>a DEF Fleet!Next, Fleet!Declare
<1>1. ASSUME NEW c \in Clusters, Check(c) PROVE Kept
  BY <1>1, MembersKept DEF Check
<1>2. ASSUME NEW c \in Clusters, bootstrap(c) PROVE Kept \/ Fleet!Next
  <2>1. CASE declared = None
    BY <1>2, <2>1, <1>a DEF bootstrap
  <2>2. CASE declared # None
    BY <1>2, <2>2, MembersKept DEF bootstrap
  <2> QED BY <2>1, <2>2
<1>3. ASSUME NEW c \in Clusters, reread(c) PROVE Kept
  BY <1>3, MembersKept DEF reread
<1>4. ASSUME NEW c \in Clusters, RequestFails(c) PROVE Kept \/ Fleet!Next
  <2>1. CASE declared' = declared
    BY <1>4, <2>1, MembersKept DEF RequestFails
  <2>2. CASE declared = None /\ declared' = mine[c]
    BY <1>4, <2>2, <1>a DEF RequestFails
  <2> QED BY <1>4, <2>1, <2>2 DEF RequestFails
<1>5. ASSUME NEW c \in Clusters, acquireSpawnClaim(c) PROVE Kept \/ Fleet!Next
  <2>1. CASE owner[mine[c]] # None
    BY <1>5, <2>1, MembersKept DEF acquireSpawnClaim
  <2>2. CASE owner[mine[c]] = None
    <3> DEFINE new == [scheme |-> mine[c], verdict |-> verdict[c]]
    <3>0. claim' = [claim EXCEPT ![c] = new]
      BY <1>5, <2>2 DEF acquireSpawnClaim
    <3>1. claim'[c] # None /\ claim'[c].verdict = verdict[c]
      <4>1. new \in Claims
        BY ClaimIsSome
      <4>2. new # None
        BY <4>1
      <4> QED BY <3>0, <4>2
    <3>2. Member' = [Member EXCEPT ![c] = verdict[c]]
      BY <3>0, <3>1 DEF Member
    <3>3. CASE verdict[c] = None
      <4>1. Fleet!Leave(c)
        BY <1>5, <3>2, <3>3 DEF Fleet!Leave, Member, acquireSpawnClaim
      <4> QED BY <4>1 DEF Fleet!Next
    <3>4. CASE verdict[c] # None
      <4>1. verdict[c] \in 0..round
        BY <1>5, <3>4 DEF acquireSpawnClaim, Declared, Ticket
      <4>2. \A d \in Clusters : Member[d] # verdict[c]
        <5> SUFFICES ASSUME NEW d \in Clusters, claim[d] # None, claim[d].verdict = verdict[c]
                     PROVE  FALSE
          BY <3>4 DEF Member
        <5>1. claim[d].scheme \in Schemes
          BY DEF Claims
        <5>2. claim[d].scheme = mine[c]
          BY <1>5, <3>4, <5>1 DEF acquireSpawnClaim, OneScheme, Ticket
        <5>3. owner[mine[c]] = d
          BY <5>2 DEF Owned
        <5> QED BY <2>2, <5>3
      <4>3. PICK r \in 0..round : r = verdict[c]
        BY <4>1
      <4>4. Fleet!Claim(c, r)
        BY <1>5, <3>2, <4>2, <4>3 DEF Fleet!Claim, Member, acquireSpawnClaim
      <4> QED BY <4>4, Zenon DEF Fleet!Next
    <3> QED BY <3>3, <3>4
  <2> QED BY <2>1, <2>2
<1>6. ASSUME NEW c \in Clusters, Release(c) PROVE Fleet!Next
  <2>1. Member' = [Member EXCEPT ![c] = None]
    BY <1>6 DEF Release, Member
  <2>2. Fleet!Leave(c)
    BY <1>6, <2>1 DEF Release, Fleet!Leave, Member
  <2> QED BY <2>2 DEF Fleet!Next
<1>7. ASSUME NEW c \in Clusters, NEW scheme \in Schemes, Restart(c, scheme) PROVE Kept \/ Fleet!Next
  <2>1. CASE declared' = declared
    BY <1>7, <2>1, MembersKept DEF Restart
  <2>2. CASE declared = None /\ declared' = mine[c]
    BY <1>7, <2>2, <1>a DEF Restart
  <2> QED BY <1>7, <2>1, <2>2 DEF Restart
<1>8. ASSUME Withdraw PROVE Fleet!Next
  BY <1>8 DEF Withdraw, Fleet!Next, Fleet!Withdraw
<1>9. ASSUME UNCHANGED vars PROVE Kept
  BY <1>9, MembersKept DEF vars
<1>10. Kept \/ Fleet!Next
  BY <1>1, <1>2, <1>3, <1>4, <1>5, <1>6, <1>7, <1>8, <1>9, Zenon DEF Next
<1> QED BY <1>0, <1>10, Zenon

(* The guard starts as a fleet without a declaration.                      *)
LEMMA SchemeInitRefines == Init => Fleet!Init
BY DEF Init, Fleet!Init

(* The guard of scheme.go with the claim that follows it implements the    *)
(* fleet's promise: one declaration per round, and at most one claim with  *)
(* its verdict at a time.                                                  *)
THEOREM SchemeImplementsFleet == Spec => ImplementsFleet
<1>1. SchemeInv /\ SchemeInv' /\ [Next]_vars => [Fleet!Next]_(Fleet!vars)
  BY SchemeStepRefines
<1> QED BY <1>1, SchemeInitRefines, SchemeInvariant, PTL DEF Spec, ImplementsFleet, Fleet!Spec

-----------------------------------------------------------------------------
(* Texts. *)

(* STRING, which holds them all, is opaque to the provers. *)
Symbols == STRING \union {"claims", "/", "task", "repo", "pr", "a"}
Word == Seq(Symbols)

\* A set of positions has a first one.
LEMMA MinExists ==
  ASSUME NEW S \in SUBSET Nat, S # {}
  PROVE  Min(S) \in S /\ \A k \in S : Min(S) <= k
<1>1. \E n \in S : \A k \in S : ~(<<k, n>> \in OpToRel(<, Nat))
  BY NatLessThanWellFounded, WFMin
<1>2. PICK n \in S : \A k \in S : ~(k < n)
  BY <1>1 DEF OpToRel
<1>3. \A k \in S : n <= k
  BY <1>2
<1> QED
  BY <1>3 DEF Min

\* The least and the greatest of one or two positions.
LEMMA MinMaxOfTwo ==
  ASSUME NEW m \in Nat, NEW n \in Nat, m <= n
  PROVE  Min({m, n}) = m /\ Max({m, n}) = n
<1>1. Min({m, n}) \in {m, n} /\ \A k \in {m, n} : Min({m, n}) <= k
  BY MinExists
<1>2. Max({m, n}) \in {m, n} /\ \A k \in {m, n} : Max({m, n}) >= k
  <2>1. \E x \in {m, n} : \A k \in {m, n} : x >= k
    OBVIOUS
  <2> QED
    BY <2>1 DEF Max
<1> QED
  BY <1>1, <1>2

\* A text is read back from what it is put together with.
LEMMA CatParts ==
  ASSUME NEW s \in Word, NEW t \in Word
  PROVE  /\ s \o t \in Word /\ Len(s \o t) = Len(s) + Len(t)
         /\ Len(s) \in Nat /\ Len(t) \in Nat
         /\ SubSeq(s \o t, 1, Len(s)) = s
         /\ SubSeq(s \o t, Len(s) + 1, Len(s) + Len(t)) = t
<1> DEFINE c == s \o t
           a == SubSeq(c, 1, Len(s))
           b == SubSeq(c, Len(s) + 1, Len(s) + Len(t))
<1>1. /\ c \in Word /\ Len(c) = Len(s) + Len(t) /\ Len(s) \in Nat /\ Len(t) \in Nat
      /\ \A i \in 1 .. Len(s) + Len(t) : c[i] = IF i <= Len(s) THEN s[i] ELSE t[i - Len(s)]
  BY ConcatProperties DEF Word
<1>2. \A i \in 1 .. Len(s) : s[i] \in Symbols
  BY DEF Word
<1>3. \A i \in 1 .. Len(t) : t[i] \in Symbols
  BY DEF Word
<1> HIDE DEF c
<1>4. \A i \in 1 .. Len(s) + Len(t) : c[i] \in Symbols
  BY <1>1 DEF Word
<1>5. a \in Word /\ Len(a) = Len(s) /\ \A i \in 1 .. Len(s) : a[i] = c[i]
  <2>1. \A i \in 1 .. Len(s) : c[i] \in Symbols
    BY <1>1, <1>4
  <2>2. /\ a \in Seq(Symbols)
        /\ Len(a) = IF 1 <= Len(s) THEN Len(s) - 1 + 1 ELSE 0
        /\ \A i \in 1 .. Len(s) - 1 + 1 : a[i] = c[1 + i - 1]
    BY <1>1, <2>1, SubSeqProperties
  <2> HIDE DEF a
  <2> QED
    BY <1>1, <2>2 DEF Word
<1>6. b \in Word /\ Len(b) = Len(t) /\ \A i \in 1 .. Len(t) : b[i] = c[Len(s) + i]
  <2> DEFINE m == Len(s) + 1
             n == Len(s) + Len(t)
  <2>1. m \in Int /\ n \in Int /\ \A i \in m .. n : c[i] \in Symbols
    BY <1>1, <1>4
  <2>2. /\ SubSeq(c, m, n) \in Seq(Symbols)
        /\ Len(SubSeq(c, m, n)) = IF m <= n THEN n - m + 1 ELSE 0
        /\ \A i \in 1 .. n - m + 1 : SubSeq(c, m, n)[i] = c[m + i - 1]
    <3> HIDE DEF m, n
    <3> QED
      BY <2>1, SubSeqProperties
  <2>3. b = SubSeq(c, m, n)
    OBVIOUS
  <2> HIDE DEF b
  <2> QED
    BY <1>1, <2>2, <2>3 DEF Word
<1> HIDE DEF a, b
<1>7. a = s
  <2>1. \A i \in 1 .. Len(a) : a[i] = s[i]
    BY <1>1, <1>5
  <2> QED
    BY <1>5, <2>1, SeqEqual DEF Word
<1>8. b = t
  <2>1. \A i \in 1 .. Len(b) : b[i] = t[i]
    BY <1>1, <1>6
  <2> QED
    BY <1>6, <2>1, SeqEqual DEF Word
<1> QED
  BY <1>1, <1>7, <1>8 DEF a, b, c

\* What is put between the parts of a key, and before them.
LEMMA Separators ==
  ASSUME NEW kind \in Symbols
  PROVE  /\ <<"/">> \in Word /\ Len(<<"/">>) = 1
         /\ <<"claims", "/", kind, "/">> \in Word /\ Len(<<"claims", "/", kind, "/">>) = 4
         /\ <<"claims", "/", kind, "/">>[3] = kind
<1>1. "/" \in Symbols /\ "claims" \in Symbols
  BY DEF Symbols
<1>2. \A x, y, z, w \in Symbols : <<x>> \in Word /\ <<x, y, z, w>> \in Word
  BY DEF Word
<1> QED
  BY <1>1, <1>2

\* The slashes of a joined text, and its parts.
LEMMA JoinedParts ==
  ASSUME NEW s \in Word, NEW t \in Word, Slashes(t) = {}
  PROVE  /\ Joined(s, t) \in Word /\ Len(Joined(s, t)) = Len(s) + 1 + Len(t)
         /\ Slashes(Joined(s, t)) = Slashes(s) \union {Len(s) + 1}
         /\ SubSeq(Joined(s, t), Len(s) + 2, Len(s) + 1 + Len(t)) = t
         /\ \A i \in 1 .. Len(s) : Joined(s, t)[i] = s[i]
<1> DEFINE w == <<"/">>
           d == s \o w
           c == d \o t
<1>0. w \in Word /\ Len(w) = 1 /\ w[1] = "/"
  BY Separators DEF Symbols
<1> HIDE DEF w
<1>1. Joined(s, t) = c
  BY DEF Joined, w
<1>2. d \in Word /\ Len(d) = Len(s) + 1 /\ Len(s) \in Nat /\ Len(t) \in Nat
  BY <1>0, CatParts
<1>3. \A i \in 1 .. Len(s) + 1 : d[i] = IF i <= Len(s) THEN s[i] ELSE "/"
  <2>1. \A i \in 1 .. Len(s) + Len(w) : d[i] = IF i <= Len(s) THEN s[i] ELSE w[i - Len(s)]
    BY <1>0, ConcatProperties DEF Word
  <2> HIDE DEF d
  <2> QED
    BY <1>0, <1>2, <2>1
<1> HIDE DEF d
<1>4. /\ c \in Word /\ Len(c) = Len(s) + 1 + Len(t)
      /\ SubSeq(c, Len(s) + 2, Len(s) + 1 + Len(t)) = t
  <2>1. /\ c \in Word /\ Len(c) = Len(d) + Len(t)
        /\ SubSeq(c, Len(d) + 1, Len(d) + Len(t)) = t
    BY <1>2, CatParts
  <2>2. Len(d) + 1 = Len(s) + 2 /\ Len(d) + Len(t) = Len(s) + 1 + Len(t)
    BY <1>2
  <2> QED
    BY <2>1, <2>2
<1>5. \A i \in 1 .. Len(d) + Len(t) : c[i] = IF i <= Len(d) THEN d[i] ELSE t[i - Len(d)]
  BY <1>2, ConcatProperties DEF Word
<1> HIDE DEF c
<1>6. /\ DOMAIN c = 1 .. Len(s) + 1 + Len(t) /\ DOMAIN s = 1 .. Len(s) /\ DOMAIN t = 1 .. Len(t)
  BY <1>2, <1>4 DEF Word
<1>7. \A i \in DOMAIN c : c[i] = IF i <= Len(s) THEN s[i] ELSE IF i = Len(s) + 1 THEN "/" ELSE t[i - Len(s) - 1]
  BY <1>2, <1>3, <1>5, <1>6
<1>8. \A i \in DOMAIN t : t[i] # "/"
  BY DEF Slashes
<1>9. Slashes(c) = Slashes(s) \union {Len(s) + 1}
  <2>1. \A i \in Slashes(c) : i \in Slashes(s) \union {Len(s) + 1}
    BY <1>2, <1>6, <1>7, <1>8 DEF Slashes
  <2>2. \A i \in Slashes(s) \union {Len(s) + 1} : i \in Slashes(c)
    BY <1>2, <1>6, <1>7 DEF Slashes
  <2> QED
    BY <2>1, <2>2
<1>10. \A i \in 1 .. Len(s) : c[i] = s[i]
  BY <1>2, <1>6, <1>7
<1> QED
  BY <1>1, <1>4, <1>9, <1>10

\* Texts that agree up to some place have the same parts up to there.
LEMMA SamePart ==
  ASSUME NEW s \in Word, NEW t \in Word, NEW m \in Nat, NEW n \in Nat, 1 <= m, n <= Len(s), n <= Len(t),
         \A i \in m .. n : s[i] = t[i]
  PROVE  SubSeq(s, m, n) = SubSeq(t, m, n)
<1>1. Len(s) \in Nat /\ Len(t) \in Nat
  BY DEF Word
<1>2. (\A i \in m .. n : s[i] \in Symbols) /\ (\A i \in m .. n : t[i] \in Symbols)
  BY <1>1 DEF Word
<1>3. /\ SubSeq(s, m, n) \in Seq(Symbols)
      /\ Len(SubSeq(s, m, n)) = IF m <= n THEN n - m + 1 ELSE 0
      /\ \A i \in 1 .. n - m + 1 : SubSeq(s, m, n)[i] = s[m + i - 1]
  BY <1>2, SubSeqProperties
<1>4. /\ SubSeq(t, m, n) \in Seq(Symbols)
      /\ Len(SubSeq(t, m, n)) = IF m <= n THEN n - m + 1 ELSE 0
      /\ \A i \in 1 .. n - m + 1 : SubSeq(t, m, n)[i] = t[m + i - 1]
  BY <1>2, SubSeqProperties
<1> DEFINE a == SubSeq(s, m, n)
           b == SubSeq(t, m, n)
<1> HIDE DEF a, b
<1>5. /\ a \in Seq(Symbols) /\ b \in Seq(Symbols) /\ Len(a) = Len(b)
      /\ \A i \in 1 .. Len(a) : a[i] = b[i]
  BY <1>3, <1>4 DEF a, b
<1>6. a = b
  BY <1>5, SeqEqual
<1> QED
  BY <1>6 DEF a, b

\* What comes before the first separator.
LEMMA JoinedFirst ==
  ASSUME NEW s \in Word, NEW t \in Word, Slashes(t) = {}
  PROVE  SubSeq(Joined(s, t), 1, Len(s)) = s
<1> DEFINE c == Joined(s, t)
<1>1. c \in Word /\ Len(c) = Len(s) + 1 + Len(t) /\ \A i \in 1 .. Len(s) : c[i] = s[i]
  BY JoinedParts
<1>2. Len(s) \in Nat /\ Len(t) \in Nat
  BY DEF Word
<1> HIDE DEF c
<1>3. SubSeq(c, 1, Len(s)) = SubSeq(s, 1, Len(s))
  BY <1>1, <1>2, SamePart
<1>4. SubSeq(s, 1, Len(s)) = s
  BY SubSeqFull DEF Word
<1> QED
  BY <1>3, <1>4 DEF c

\* The rest of a key, and its kind.
LEMMA KeyParts ==
  ASSUME NEW kind \in Symbols, NEW text \in Word
  PROVE  /\ SubSeq(Key(kind, text), 5, Len(Key(kind, text))) = text
         /\ Key(kind, text) # Absent
         /\ \A k \in Symbols : IsPrefix(<<"claims", "/", k, "/">>, Key(kind, text)) <=> k = kind
<1> DEFINE w(k) == <<"claims", "/", k, "/">>
           key == Key(kind, text)
<1>1. \A k \in Symbols : w(k) \in Word /\ Len(w(k)) = 4 /\ w(k)[3] = k
  BY Separators
<1>2. key = w(kind) \o text
  BY DEF Key
<1> HIDE DEF w, key
<1>3. /\ Len(key) = 4 + Len(text) /\ Len(text) \in Nat
      /\ SubSeq(key, 1, 4) = w(kind)
      /\ SubSeq(key, 5, 4 + Len(text)) = text
  <2> DEFINE v == w(kind)
  <2>1. v \in Word /\ Len(v) = 4
    BY <1>1
  <2> HIDE DEF v
  <2>2. /\ Len(v \o text) = Len(v) + Len(text) /\ Len(text) \in Nat
        /\ SubSeq(v \o text, 1, Len(v)) = v
        /\ SubSeq(v \o text, Len(v) + 1, Len(v) + Len(text)) = text
    BY <2>1, CatParts
  <2>3. /\ Len(v \o text) = 4 + Len(text)
        /\ SubSeq(v \o text, 1, 4) = v
        /\ SubSeq(v \o text, 5, 4 + Len(text)) = text
    BY <2>1, <2>2
  <2> QED
    BY <1>2, <2>2, <2>3 DEF v
<1>4. key # Absent
  <2>1. Len(Absent) = 1
    BY DEF Absent
  <2> QED
    BY <1>3, <2>1
<1>5. ASSUME NEW k \in Symbols PROVE IsPrefix(w(k), key) <=> k = kind
  <2>1. SubSeq(w(k), 1, 4) = w(k)
    <3>1. SubSeq(w(k), 1, Len(w(k))) = w(k)
      BY <1>1, SubSeqFull DEF Word
    <3> QED
      BY <1>1, <3>1
  <2>2. IsPrefix(w(k), key) <=> Len(w(k)) <= Len(key) /\ SubSeq(w(k), 1, Len(w(k))) = SubSeq(key, 1, Len(w(k)))
    BY DEF IsPrefix
  <2>3. Len(w(k)) = 4 /\ Len(w(k)) <= Len(key)
    <3>1. Len(w(k)) = 4
      BY <1>1
    <3>2. Len(key) = 4 + Len(text) /\ Len(text) \in Nat
      BY <1>3
    <3> QED
      BY <3>1, <3>2
  <2>4. IsPrefix(w(k), key) <=> w(k) = w(kind)
    BY <1>3, <2>1, <2>2, <2>3
  <2>5. w(k) = w(kind) => k = kind
    BY <1>1
  <2> QED
    BY <2>4, <2>5
<1> QED
  BY <1>3, <1>4, <1>5 DEF w, key

-----------------------------------------------------------------------------
(* Keys and targets. *)

(* What TargetFromKey tells apart. *)
Kinded(kind, key) == IsPrefix(<<"claims", "/", kind, "/">>, key)
TwoParts(text) == /\ Slashes(text) # {} /\ Slashes(text) = {Min(Slashes(text))}
                  /\ Min(Slashes(text)) \notin {1, Len(text)}
ThreeParts(text) == /\ Slashes(text) # {} /\ Slashes(text) = {Min(Slashes(text)), Max(Slashes(text))}
                    /\ Min(Slashes(text)) > 1 /\ Max(Slashes(text)) > Min(Slashes(text)) + 1
                    /\ Max(Slashes(text)) < Len(text)
Between(text, i, j) == SubSeq(text, i + 1, j - 1)

\* A key is of the kind it was made of, and the rest of it is its text.
LEMMA KeyKinds ==
  ASSUME NEW kind \in {"task", "repo", "pr"}, NEW text \in Word
  PROVE  /\ SubSeq(Key(kind, text), 5, Len(Key(kind, text))) = text
         /\ Kinded("task", Key(kind, text)) <=> kind = "task"
         /\ Kinded("repo", Key(kind, text)) <=> kind = "repo"
         /\ Kinded("pr", Key(kind, text)) <=> kind = "pr"
<1>1. kind \in Symbols /\ "task" \in Symbols /\ "repo" \in Symbols /\ "pr" \in Symbols
  BY DEF Symbols
<1>2. SubSeq(Key(kind, text), 5, Len(Key(kind, text))) = text
  BY <1>1, KeyParts
<1>3. \A k \in Symbols : IsPrefix(<<"claims", "/", k, "/">>, Key(kind, text)) <=> k = kind
  BY <1>1, KeyParts
<1>4. \A k \in Symbols : Kinded(k, Key(kind, text)) <=> k = kind
  BY <1>3 DEF Kinded
<1> QED
  BY <1>1, <1>2, <1>4

\* The cases of TargetFromKey.
LEMMA TargetCases ==
  ASSUME NEW key, NEW text, text = SubSeq(key, 5, Len(key))
  PROVE  TargetFromKey(key) =
           CASE Kinded("task", key) /\ text # Empty -> Target(text, Empty, Empty, Empty)
             [] Kinded("repo", key) /\ TwoParts(text) ->
                   Target(Empty, Between(text, 0, Min(Slashes(text))),
                          Between(text, Min(Slashes(text)), Len(text) + 1), Empty)
             [] Kinded("pr", key) /\ ThreeParts(text) ->
                   Target(Empty, Between(text, 0, Min(Slashes(text))),
                          Between(text, Min(Slashes(text)), Max(Slashes(text))),
                          Between(text, Max(Slashes(text)), Len(text) + 1))
             [] OTHER -> NoTarget
BY DEF TargetFromKey, Kinded, TwoParts, ThreeParts, Between

\* The key of a task is read back.
LEMMA TaskKey ==
  ASSUME NEW id \in Word, id # Empty
  PROVE  TargetFromKey(Key("task", id)) = Target(id, Empty, Empty, Empty)
<1> DEFINE key == Key("task", id)
<1>1. SubSeq(key, 5, Len(key)) = id /\ Kinded("task", key) /\ ~Kinded("repo", key) /\ ~Kinded("pr", key)
  BY KeyKinds
<1> HIDE DEF key
<1>2. TargetFromKey(key) = Target(id, Empty, Empty, Empty)
  BY <1>1, TargetCases
<1> QED
  BY <1>2 DEF key

\* That of a repository: its owner and its name hold no slash.
LEMMA RepoKey ==
  ASSUME NEW o \in Word, NEW r \in Word, o # Empty, r # Empty, Slashes(o) = {}, Slashes(r) = {}
  PROVE  TargetFromKey(Key("repo", Joined(o, r))) = Target(Empty, o, r, Empty)
<1> DEFINE text == Joined(o, r)
           key == Key("repo", text)
           cut == Len(o) + 1
<1>1. /\ text \in Word /\ Len(text) = Len(o) + 1 + Len(r) /\ Slashes(text) = {cut}
      /\ SubSeq(text, Len(o) + 2, Len(o) + 1 + Len(r)) = r
      /\ SubSeq(text, 1, Len(o)) = o
  <2>1. SubSeq(text, 1, Len(o)) = o
    BY JoinedFirst
  <2> QED
    BY <2>1, JoinedParts
<1>2. Len(o) \in Nat /\ Len(r) \in Nat /\ Len(o) > 0 /\ Len(r) > 0
  BY EmptySeq DEF Word, Empty
<1> HIDE DEF text
<1>3. text = SubSeq(key, 5, Len(key)) /\ ~Kinded("task", key) /\ Kinded("repo", key) /\ ~Kinded("pr", key)
  <2>1. text \in Word
    BY <1>1
  <2> QED
    BY <2>1, KeyKinds
<1>4. Min(Slashes(text)) = cut /\ cut \notin {1, Len(text)}
  <2>1. Min({cut}) = cut
    <3>1. cut \in Nat /\ {cut} = {cut, cut}
      BY <1>2
    <3> HIDE DEF cut
    <3> QED
      BY <3>1, MinMaxOfTwo
  <2>2. cut \notin {1, Len(text)}
    BY <1>1, <1>2
  <2> QED
    BY <1>1, <2>1, <2>2
<1>5. Between(text, 0, cut) = o /\ Between(text, cut, Len(text) + 1) = r
  <2>1. 0 + 1 = 1 /\ cut - 1 = Len(o) /\ cut + 1 = Len(o) + 2 /\ Len(text) + 1 - 1 = Len(o) + 1 + Len(r)
    BY <1>1, <1>2
  <2> HIDE DEF cut
  <2> QED
    BY <1>1, <2>1 DEF Between
<1> HIDE DEF key, cut
<1>6. TwoParts(text)
  BY <1>1, <1>4 DEF TwoParts
<1>7. TargetFromKey(key) = Target(Empty, Between(text, 0, cut), Between(text, cut, Len(text) + 1), Empty)
  BY <1>3, <1>4, <1>6, TargetCases
<1> QED
  BY <1>5, <1>7 DEF key, text

\* And that of a pull request.
LEMMA PullKey ==
  ASSUME NEW o \in Word, NEW r \in Word, NEW p \in Word, o # Empty, r # Empty, p # Empty,
         Slashes(o) = {}, Slashes(r) = {}, Slashes(p) = {}
  PROVE  TargetFromKey(Key("pr", Joined(Joined(o, r), p))) = Target(Empty, o, r, p)
<1> DEFINE mid == Joined(o, r)
           text == Joined(mid, p)
           key == Key("pr", text)
           first == Len(o) + 1
           last == Len(o) + Len(r) + 2
<1>1. /\ mid \in Word /\ Len(mid) = Len(o) + 1 + Len(r) /\ Slashes(mid) = {first}
      /\ SubSeq(mid, Len(o) + 2, Len(o) + 1 + Len(r)) = r
      /\ SubSeq(mid, 1, Len(o)) = o
  <2>1. SubSeq(mid, 1, Len(o)) = o
    BY JoinedFirst
  <2> QED
    BY <2>1, JoinedParts
<1>2. /\ Len(o) \in Nat /\ Len(r) \in Nat /\ Len(p) \in Nat
      /\ Len(o) > 0 /\ Len(r) > 0 /\ Len(p) > 0
  BY EmptySeq DEF Word, Empty
<1> HIDE DEF mid
<1>3. /\ text \in Word /\ Len(text) = Len(mid) + 1 + Len(p) /\ Slashes(text) = Slashes(mid) \union {Len(mid) + 1}
      /\ SubSeq(text, Len(mid) + 2, Len(mid) + 1 + Len(p)) = p
      /\ \A i \in 1 .. Len(mid) : text[i] = mid[i]
  BY <1>1, JoinedParts
<1> HIDE DEF text
<1>4. Slashes(text) = {first, last} /\ Len(text) = last + Len(p) /\ Len(mid) + 1 = last
  BY <1>1, <1>2, <1>3
<1>5. SubSeq(text, 1, Len(o)) = o
  BY <1>1, <1>2, <1>3, SamePart
<1>6. SubSeq(text, Len(o) + 2, Len(o) + 1 + Len(r)) = r
  BY <1>1, <1>2, <1>3, SamePart
<1>7. text = SubSeq(key, 5, Len(key)) /\ ~Kinded("task", key) /\ ~Kinded("repo", key) /\ Kinded("pr", key)
  <2>1. text \in Word
    BY <1>3
  <2> QED
    BY <2>1, KeyKinds
<1>8. Min(Slashes(text)) = first /\ Max(Slashes(text)) = last
  <2>1. Min({first, last}) = first /\ Max({first, last}) = last
    BY <1>2, MinMaxOfTwo
  <2> QED
    BY <1>4, <2>1
<1>9. first > 1 /\ last > first + 1 /\ last < Len(text)
  BY <1>2, <1>4
<1>10. /\ Between(text, 0, first) = o
       /\ Between(text, first, last) = r
       /\ Between(text, last, Len(text) + 1) = p
  <2>1. 0 + 1 = 1 /\ first - 1 = Len(o) /\ first + 1 = Len(o) + 2 /\ last - 1 = Len(o) + 1 + Len(r)
    BY <1>2
  <2>2. last + 1 = Len(mid) + 2 /\ Len(text) + 1 - 1 = Len(mid) + 1 + Len(p)
    BY <1>1, <1>2, <1>3
  <2> HIDE DEF first, last
  <2>3. Between(text, 0, first) = o
    BY <1>5, <2>1 DEF Between
  <2>4. Between(text, first, last) = r
    BY <1>6, <2>1 DEF Between
  <2>5. Between(text, last, Len(text) + 1) = p
    BY <1>3, <2>2 DEF Between
  <2> QED
    BY <2>3, <2>4, <2>5
<1> HIDE DEF key, first, last
<1>11. ThreeParts(text)
  BY <1>4, <1>8, <1>9 DEF ThreeParts
<1>12. TargetFromKey(key) = Target(Empty, Between(text, 0, first), Between(text, first, last),
                                   Between(text, last, Len(text) + 1))
  BY <1>7, <1>8, <1>11, TargetCases
<1> QED
  BY <1>10, <1>12 DEF key, text, mid

-----------------------------------------------------------------------------
(* The parts of a key as they are derived. *)

\* A text is a word.
LEMMA TextIsWord == Text \subseteq Word
BY SeqMonotonic DEF Text, Word, Symbols

\* A part of a word is one.
LEMMA PartIsWord ==
  ASSUME NEW s \in Word, NEW m \in Nat, NEW n \in Nat, 1 <= m, n <= Len(s)
  PROVE  /\ SubSeq(s, m, n) \in Word
         /\ \A i \in DOMAIN SubSeq(s, m, n) : \E j \in DOMAIN s : SubSeq(s, m, n)[i] = s[j]
         /\ m <= n => SubSeq(s, m, n) # Empty
<1>1. Len(s) \in Nat /\ DOMAIN s = 1 .. Len(s)
  BY DEF Word
<1>2. \A i \in m .. n : s[i] \in Symbols
  BY <1>1 DEF Word
<1> DEFINE a == SubSeq(s, m, n)
<1>3. /\ a \in Seq(Symbols)
      /\ Len(a) = IF m <= n THEN n - m + 1 ELSE 0
      /\ \A i \in 1 .. n - m + 1 : a[i] = s[m + i - 1]
  BY <1>2, SubSeqProperties
<1> HIDE DEF a
<1>4. DOMAIN a = 1 .. Len(a)
  BY <1>3
<1>5. \A i \in DOMAIN a : \E j \in DOMAIN s : a[i] = s[j]
  <2> TAKE i \in DOMAIN a
  <2>1. m + i - 1 \in DOMAIN s /\ a[i] = s[m + i - 1]
    BY <1>1, <1>3, <1>4
  <2> QED
    BY <2>1
<1>6. m <= n => a # Empty
  <2>1. Len(Empty) = 0
    BY DEF Empty
  <2> QED
    BY <1>3, <2>1
<1> QED
  BY <1>3, <1>5, <1>6 DEF a, Word

\* The empty text.
LEMMA EmptyIsWord == Empty \in Word
BY DEF Empty, Word

\* Owner and name of a repository are texts.
LEMMA SplitWords ==
  ASSUME NEW raw \in Word
  PROVE  splitOwnerRepo(raw).owner \in Word /\ splitOwnerRepo(raw).repo \in Word
<1> DEFINE cut == Min(Slashes(raw))
<1>1. CASE Slashes(raw) = {} \/ cut \in {1, Len(raw)}
  BY <1>1, EmptyIsWord DEF splitOwnerRepo
<1>2. CASE ~(Slashes(raw) = {} \/ cut \in {1, Len(raw)})
  <2>1. Slashes(raw) \subseteq 1 .. Len(raw) /\ Len(raw) \in Nat
    BY DEF Slashes, Word
  <2>2. cut \in Slashes(raw)
    BY <1>2, <2>1, MinExists
  <2> DEFINE o == SubSeq(raw, 1, cut - 1)
             r == SubSeq(raw, cut + 1, Len(raw))
  <2>3. splitOwnerRepo(raw) = [owner |-> o, repo |-> r]
    BY <1>2 DEF splitOwnerRepo
  <2> HIDE DEF cut
  <2>4. cut - 1 \in Nat /\ cut - 1 <= Len(raw) /\ cut + 1 \in Nat /\ 1 <= cut + 1 /\ Len(raw) <= Len(raw)
    BY <2>1, <2>2
  <2>5. o \in Word
    <3>1. 1 \in Nat /\ 1 <= 1
      OBVIOUS
    <3> QED
      BY <2>4, <3>1, PartIsWord
  <2>6. r \in Word
    BY <2>1, <2>4, PartIsWord
  <2> QED
    BY <2>3, <2>5, <2>6
<1> QED
  BY <1>1, <1>2

\* So are their small letters.
LEMMA LowerWord ==
  ASSUME NEW s \in Word
  PROVE  ToLower(s) \in Word
<1>1. Len(s) \in Nat /\ DOMAIN s = 1 .. Len(s) /\ \A i \in 1 .. Len(s) : s[i] \in Symbols
  BY DEF Word
<1>2. "a" \in Symbols
  BY DEF Symbols
<1>3. ToLower(s) \in [1 .. Len(s) -> Symbols]
  BY <1>1, <1>2 DEF ToLower
<1> QED
  BY <1>1, <1>3 DEF Word

\* The fields of a task.
LEMMA TaskIsWords ==
  ASSUME NEW task \in TaskFields
  PROVE  /\ task.id \in Word /\ task.repo \in Word /\ task.cloneURL \in Word
         /\ \A i \in DOMAIN task.body : task.body[i].number \in Word
         /\ DOMAIN task.body \subseteq Nat
<1> DEFINE L == [owner : Text, repo : Text, number : Text]
<1>1. task.id \in Word /\ task.repo \in Word /\ task.cloneURL \in Word /\ task.body \in Seq(L)
  BY TextIsWord DEF TaskFields
<1>2. \A line \in L : line.number \in Word
  BY TextIsWord
<1> HIDE DEF L
<1>3. (\A i \in DOMAIN task.body : task.body[i] \in L) /\ DOMAIN task.body \subseteq Nat
  BY <1>1
<1> QED
  BY <1>1, <1>2, <1>3

(* The parts of the key of a task. *)
Owner(task) == ToLower(claimOwnerRepo(task).owner)
Repo(task) == ToLower(claimOwnerRepo(task).repo)
Number(task) == pullRequestNumberFromBody(Owner(task), Repo(task), task.body)

\* Owner and name as the key has them.
LEMMA OwnerRepoWords ==
  ASSUME NEW task \in TaskFields
  PROVE  Owner(task) \in Word /\ Repo(task) \in Word
<1>1. claimOwnerRepo(task).owner \in Word /\ claimOwnerRepo(task).repo \in Word
  BY TaskIsWords, SplitWords DEF claimOwnerRepo
<1> QED
  BY <1>1, LowerWord DEF Owner, Repo

\* A number that is found consists of digits.
LEMMA NumberFromLine ==
  ASSUME NEW o, NEW r, NEW line, line.number \in Word,
         pullRequestNumberFromLine(o, r, line) # Absent
  PROVE  /\ pullRequestNumberFromLine(o, r, line) \in Word
         /\ validPRNumber(pullRequestNumberFromLine(o, r, line))
<1> DEFINE ones == {i \in DOMAIN line.number : line.number[i] # "0"}
           m == Min(ones)
           number == SubSeq(line.number, m, Len(line.number))
<1>1. /\ pullRequestNumberFromLine(o, r, line) = number
      /\ Range(line.number) \subseteq Digits /\ ones # {}
  BY DEF pullRequestNumberFromLine
<1>2. ones \subseteq 1 .. Len(line.number) /\ Len(line.number) \in Nat
  BY DEF Word
<1>3. m \in ones
  <2>1. ones \in SUBSET Nat
    BY <1>2
  <2> HIDE DEF ones
  <2> QED
    BY <1>1, <2>1, MinExists
<1> HIDE DEF m
<1>4. m \in Nat /\ 1 <= m /\ m <= Len(line.number)
  BY <1>2, <1>3
<1>5. /\ number \in Word /\ number # Empty
      /\ \A i \in DOMAIN number : \E j \in DOMAIN line.number : number[i] = line.number[j]
  <2>1. Len(line.number) <= Len(line.number)
    BY <1>2
  <2> QED
    BY <1>2, <1>4, <2>1, PartIsWord
<1> HIDE DEF number
<1>6. Range(number) \subseteq Digits
  BY <1>1, <1>5 DEF Range
<1> QED
  BY <1>1, <1>5, <1>6 DEF validPRNumber

\* The first line that names a pull request gives it.
LEMMA NumberFromBody ==
  ASSUME NEW task \in TaskFields, Number(task) # Absent
  PROVE  Number(task) \in Word /\ validPRNumber(Number(task))
<1> DEFINE o == Owner(task)
           r == Repo(task)
           found == {i \in DOMAIN task.body : pullRequestNumberFromLine(o, r, task.body[i]) # Absent}
           at == Min(found)
<1>1. found # {} /\ Number(task) = pullRequestNumberFromLine(o, r, task.body[at])
  BY DEF Number, pullRequestNumberFromBody
<1>2. at \in found
  BY <1>1, TaskIsWords, MinExists
<1> HIDE DEF at, o, r
<1>3. task.body[at].number \in Word /\ pullRequestNumberFromLine(o, r, task.body[at]) # Absent
  BY <1>2, TaskIsWords
<1> QED
  BY <1>1, <1>3, NumberFromLine

-----------------------------------------------------------------------------
(* Targets, their keys and their routes. *)

(* Targets of any words. *)
TargetWords == [id : Word, owner : Word, repo : Word, number : Word]

(* A target without a key. *)
NoForm(target) ==
  \/ isAmbiguous(target)
  \/ target.id = Empty /\ \/ target.owner = Empty \/ target.repo = Empty
                          \/ isPR(target) /\ ~validPRNumber(target.number)

\* The key of a target by its form.
LEMMA KeyForms ==
  ASSUME NEW target
  PROVE  /\ NoForm(target) => KeyFor(target) = Absent
         /\ ~NoForm(target) /\ target.id # Empty => KeyFor(target) = Key("task", target.id)
         /\ ~NoForm(target) /\ target.id = Empty /\ isPR(target) =>
              KeyFor(target) = Key("pr", Joined(Joined(target.owner, target.repo), target.number))
         /\ ~NoForm(target) /\ target.id = Empty /\ ~isPR(target) =>
              KeyFor(target) = Key("repo", Joined(target.owner, target.repo))
<1> DEFINE amb == isAmbiguous(target)
           tk == Key("task", target.id)
           pk == Key("pr", Joined(Joined(target.owner, target.repo), target.number))
           rk == Key("repo", Joined(target.owner, target.repo))
           pr == isPR(target)
           ok == validPRNumber(target.number)
           none == target.owner = Empty \/ target.repo = Empty
           id == target.id
<1>1. KeyFor(target) = CASE amb -> Absent
                         [] ~amb /\ id # Empty -> tk
                         [] id = Empty /\ pr /\ ~ok -> Absent
                         [] id = Empty /\ none -> Absent
                         [] OTHER -> IF pr THEN pk ELSE rk
  BY DEF KeyFor
<1>2. amb => id # Empty
  BY DEF isAmbiguous
<1>3. NoForm(target) <=> amb \/ (id = Empty /\ (none \/ (pr /\ ~ok)))
  BY DEF NoForm
<1>4. amb \in BOOLEAN /\ pr \in BOOLEAN /\ ok \in BOOLEAN /\ none \in BOOLEAN
  BY DEF isAmbiguous, isPR, validPRNumber
<1> HIDE DEF amb, tk, pk, rk, pr, ok, none, id
<1>5. /\ NoForm(target) => KeyFor(target) = Absent
      /\ ~NoForm(target) /\ id # Empty => KeyFor(target) = tk
      /\ ~NoForm(target) /\ id = Empty /\ pr => KeyFor(target) = pk
      /\ ~NoForm(target) /\ id = Empty /\ ~pr => KeyFor(target) = rk
  BY <1>1, <1>2, <1>3, <1>4
<1> QED
  BY <1>5 DEF tk, pk, rk, pr, id

\* The route of a target, and that of its renewal.
LEMMA RouteForms ==
  ASSUME NEW target
  PROVE  /\ NoForm(target) <=> path(target) = Absent
         /\ ~NoForm(target) => renewPath(target) # Absent
<1>1. NoForm(target) => path(target) = Absent
  BY DEF NoForm, path
<1>2. ASSUME ~NoForm(target) PROVE path(target) # Absent /\ renewPath(target) # Absent
  <2> DEFINE t == <<"tasks", target.id>>
             p == <<"pulls", target.owner, target.repo, target.number>>
             r == <<"repos", target.owner, target.repo>>
             W == {"tasks", "pulls", "repos", target.id, target.owner, target.repo, target.number, "renew"}
  <2>1. path(target) = CASE target.id # Empty -> t
                         [] target.id = Empty /\ isPR(target) -> p
                         [] OTHER -> r
    BY <1>2 DEF NoForm, path
  <2>2. "renew" \in W
    OBVIOUS
  <2>3. \A x \in {t, p, r} : x \in Seq(W) /\ Len(x) >= 2
    <3>1. t \in Seq(W) /\ Len(t) >= 2
      OBVIOUS
    <3>2. p \in Seq(W) /\ Len(p) >= 2
      OBVIOUS
    <3>3. r \in Seq(W) /\ Len(r) >= 2
      OBVIOUS
    <3> HIDE DEF t, p, r, W
    <3> QED
      BY <3>1, <3>2, <3>3
  <2> HIDE DEF t, p, r, W
  <2>4. path(target) \in Seq(W) /\ Len(path(target)) >= 2
    <3>1. path(target) \in {t, p, r}
      BY <2>1
    <3> QED
      BY <2>3, <3>1
  <2>5. Len(Absent) = 1
    BY DEF Absent
  <2>6. path(target) # Absent
    BY <2>4, <2>5
  <2>7. renewPath(target) = Append(path(target), "renew")
    BY <2>6 DEF renewPath
  <2>8. Len(Append(path(target), "renew")) = Len(path(target)) + 1
    BY <2>2, <2>4, AppendProperties
  <2>9. renewPath(target) # Absent
    BY <2>4, <2>5, <2>7, <2>8
  <2> QED
    BY <2>6, <2>9
<1> QED
  BY <1>1, <1>2

\* A number holds no slash.
LEMMA NumberParts ==
  ASSUME NEW number \in Word, validPRNumber(number)
  PROVE  number # Empty /\ Slashes(number) = {}
<1>1. "/" \notin Digits
  BY DEF Digits
<1> QED
  BY <1>1 DEF validPRNumber, Range, Slashes

\* Nor does any component that is validated.
LEMMA ComponentParts ==
  ASSUME NEW s \in Word, validateClaimComponent(s)
  PROVE  s # Empty /\ Slashes(s) = {}
BY DEF validateClaimComponent, isSafeClaimRune, Slashes

\* A joined text is a text whatever its parts hold.
LEMMA JoinedWord ==
  ASSUME NEW s \in Word, NEW t \in Word
  PROVE  Joined(s, t) \in Word
<1> DEFINE w == <<"/">>
           d == s \o w
<1>1. w \in Word
  BY Separators DEF Symbols
<1> HIDE DEF w
<1>2. d \in Word
  BY <1>1, CatParts
<1> HIDE DEF d
<1>3. d \o t \in Word
  BY <1>2, CatParts
<1> QED
  BY <1>3 DEF Joined, d, w

\* The fields of a target.
LEMMA TargetParts ==
  ASSUME NEW id, NEW o, NEW r, NEW p
  PROVE  /\ Target(id, o, r, p).id = id /\ Target(id, o, r, p).owner = o
         /\ Target(id, o, r, p).repo = r /\ Target(id, o, r, p).number = p
BY DEF Target

\* Every form of a target has a key that is none of another form.
LEMMA FormHasKey ==
  ASSUME NEW target \in TargetWords, ~NoForm(target)
  PROVE  KeyFor(target) # Absent
<1>1. /\ target.id \in Word /\ target.owner \in Word /\ target.repo \in Word /\ target.number \in Word
  BY DEF TargetWords
<1>2. "task" \in Symbols /\ "repo" \in Symbols /\ "pr" \in Symbols
  BY DEF Symbols
<1>3. Joined(target.owner, target.repo) \in Word
  BY <1>1, JoinedWord
<1>4. Joined(Joined(target.owner, target.repo), target.number) \in Word
  BY <1>1, <1>3, JoinedWord
<1>5. CASE target.id # Empty
  <2>1. Key("task", target.id) # Absent
    BY <1>1, <1>2, KeyParts
  <2> QED
    BY <1>5, <2>1, KeyForms
<1>6. CASE target.id = Empty /\ isPR(target)
  <2>1. Key("pr", Joined(Joined(target.owner, target.repo), target.number)) # Absent
    BY <1>2, <1>4, KeyParts
  <2> QED
    BY <1>6, <2>1, KeyForms
<1>7. CASE target.id = Empty /\ ~isPR(target)
  <2>1. Key("repo", Joined(target.owner, target.repo)) # Absent
    BY <1>2, <1>3, KeyParts
  <2> QED
    BY <1>7, <2>1, KeyForms
<1> QED
  BY <1>5, <1>6, <1>7

\* A key is read back as the target it was made for.
LEMMA KeyReadBack ==
  ASSUME NEW target \in TargetWords, ~NoForm(target), Slashes(target.owner) = {}, Slashes(target.repo) = {}
  PROVE  TargetFromKey(KeyFor(target)) = target
<1> DEFINE id == target.id
           o == target.owner
           r == target.repo
           p == target.number
<1>1. /\ id \in Word /\ o \in Word /\ r \in Word /\ p \in Word
      /\ target = Target(id, o, r, p)
  BY DEF TargetWords, Target
<1>2. CASE id # Empty
  <2>1. o = Empty /\ r = Empty /\ p = Empty
    BY <1>2 DEF NoForm, isAmbiguous, isRepo, isPR
  <2>2. TargetFromKey(Key("task", id)) = Target(id, Empty, Empty, Empty)
    BY <1>1, <1>2, TaskKey
  <2>3. KeyFor(target) = Key("task", id)
    BY <1>2, KeyForms
  <2> QED
    BY <1>1, <2>1, <2>2, <2>3
<1>3. CASE id = Empty /\ isPR(target)
  <2>1. o # Empty /\ r # Empty /\ validPRNumber(p)
    BY <1>3 DEF NoForm
  <2>2. p # Empty /\ Slashes(p) = {}
    BY <1>1, <2>1, NumberParts
  <2>3. TargetFromKey(Key("pr", Joined(Joined(o, r), p))) = Target(Empty, o, r, p)
    BY <1>1, <2>1, <2>2, PullKey
  <2>4. KeyFor(target) = Key("pr", Joined(Joined(o, r), p))
    BY <1>3, KeyForms
  <2> QED
    BY <1>1, <1>3, <2>3, <2>4
<1>4. CASE id = Empty /\ ~isPR(target)
  <2>1. o # Empty /\ r # Empty /\ p = Empty
    BY <1>4 DEF NoForm, isPR
  <2>2. TargetFromKey(Key("repo", Joined(o, r))) = Target(Empty, o, r, Empty)
    BY <1>1, <2>1, RepoKey
  <2>3. KeyFor(target) = Key("repo", Joined(o, r))
    BY <1>4, KeyForms
  <2> QED
    BY <1>1, <1>4, <2>1, <2>2, <2>3
<1> QED
  BY <1>2, <1>3, <1>4

(* For targets of any texts: a target has a route exactly when it has a    *)
(* key, and a key is read back as the target it came from unless a         *)
(* component holds the separator (path, KeyFor, TargetFromKey).            *)
THEOREM RoutesAreKeys == AskedOK => RoutesMatchKeys
<1> SUFFICES ASSUME AskedOK, NEW target \in asked.targets
             PROVE  RouteIffKey(target)
  BY DEF RoutesMatchKeys
<1>1. target \in TargetWords
  BY TextIsWord DEF AskedOK, TargetFields, TargetWords
<1>2. (path(target) = Absent) <=> (KeyFor(target) = Absent)
  BY <1>1, RouteForms, KeyForms, FormHasKey
<1>3. ASSUME KeyFor(target) # Absent, "/" \notin Range(target.owner) \union Range(target.repo)
      PROVE  TargetFromKey(KeyFor(target)) = target
  <2>1. ~NoForm(target)
    BY <1>3, KeyForms
  <2>2. Slashes(target.owner) = {} /\ Slashes(target.repo) = {}
    BY <1>3 DEF Slashes, Range
  <2> QED
    BY <1>1, <2>1, <2>2, KeyReadBack
<1> QED
  BY <1>2, <1>3 DEF RouteIffKey

-----------------------------------------------------------------------------
(* Tasks and their keys. *)

\* What a task claims: its repository, its pull request, or itself.
LEMMA SubjectForms ==
  ASSUME NEW task
  PROVE  /\ task.type \in repoKeyedTaskTypes =>
              /\ Subject(task) = Target(Empty, Owner(task), Repo(task), Empty)
              /\ DeriveClaimKeysWithBody(task) =
                    Checked({Owner(task), Repo(task)}, Key("repo", Joined(Owner(task), Repo(task))))
         /\ task.type = "pr-review" /\ Number(task) # Absent =>
              /\ Subject(task) = Target(Empty, Owner(task), Repo(task), Number(task))
              /\ DeriveClaimKeysWithBody(task) =
                    Checked({Owner(task), Repo(task), Number(task)},
                            Key("pr", Joined(Joined(Owner(task), Repo(task)), Number(task))))
         /\ task.type \notin repoKeyedTaskTypes /\ ~(task.type = "pr-review" /\ Number(task) # Absent) =>
              /\ Subject(task) = Target(task.id, Empty, Empty, Empty)
              /\ DeriveClaimKeysWithBody(task) = Checked({task.id}, Key("task", task.id))
<1> DEFINE o == Owner(task)
           r == Repo(task)
           n == Number(task)
           keyed == task.type \in repoKeyedTaskTypes
           pull == task.type = "pr-review" /\ n # Absent
<1>1. ~(keyed /\ pull)
  BY DEF repoKeyedTaskTypes
<1>2. Subject(task) = CASE keyed -> Target(Empty, o, r, Empty)
                        [] pull -> Target(Empty, o, r, n)
                        [] OTHER -> Target(task.id, Empty, Empty, Empty)
  BY DEF Subject, Owner, Repo, Number
<1>3. DeriveClaimKeysWithBody(task) =
        IF pull THEN Checked({o, r, n}, Key("pr", Joined(Joined(o, r), n)))
        ELSE IF keyed THEN Checked({o, r}, Key("repo", Joined(o, r)))
             ELSE Checked({task.id}, Key("task", task.id))
  BY DEF DeriveClaimKeysWithBody, DeriveClaimKey, Owner, Repo, Number
<1>4. keyed \in BOOLEAN /\ pull \in BOOLEAN
  OBVIOUS
<1> HIDE DEF o, r, n, keyed, pull
<1>5. keyed => /\ Subject(task) = Target(Empty, o, r, Empty)
               /\ DeriveClaimKeysWithBody(task) = Checked({o, r}, Key("repo", Joined(o, r)))
  BY <1>1, <1>2, <1>3, <1>4
<1>6. pull => /\ Subject(task) = Target(Empty, o, r, n)
              /\ DeriveClaimKeysWithBody(task) = Checked({o, r, n}, Key("pr", Joined(Joined(o, r), n)))
  BY <1>1, <1>2, <1>3, <1>4
<1>7. ~keyed /\ ~pull => /\ Subject(task) = Target(task.id, Empty, Empty, Empty)
                         /\ DeriveClaimKeysWithBody(task) = Checked({task.id}, Key("task", task.id))
  BY <1>1, <1>2, <1>3, <1>4
<1> QED
  BY <1>5, <1>6, <1>7 DEF o, r, n, keyed, pull

\* A key whose components are valid names its target.
LEMMA KeyNames ==
  ASSUME NEW target \in TargetWords, ~NoForm(target), NEW key, KeyFor(target) = key,
         Slashes(target.owner) = {}, Slashes(target.repo) = {}
  PROVE  /\ TargetFromKey(key) = target
         /\ KeyFor(target) = key
         /\ renewPath(target) # Absent
BY KeyReadBack, RouteForms

(* For tasks of any texts: a derived key and the subject of the task       *)
(* determine each other, so that no two subjects share a key and recovery  *)
(* reads from a listed key the target that renews and releases it          *)
(* (DeriveClaimKeysWithBody, TargetFromKey, KeyFor).                       *)
THEOREM KeysAreSubjects == AskedOK => KeysNameSubjects
<1> SUFFICES ASSUME AskedOK, NEW task \in asked.tasks
             PROVE  KeyNamesSubject(task)
  BY DEF KeysNameSubjects
<1> DEFINE key == DeriveClaimKeysWithBody(task)
           o == Owner(task)
           r == Repo(task)
           n == Number(task)
<1>1. task \in TaskFields
  BY DEF AskedOK
<1>2. o \in Word /\ r \in Word /\ task.id \in Word /\ Empty \in Word
  BY <1>1, OwnerRepoWords, TaskIsWords, EmptyIsWord
<1>3. SUFFICES ASSUME key # Absent
               PROVE  \E target \in TargetWords :
                         /\ Subject(task) = target /\ ~NoForm(target) /\ KeyFor(target) = key
                         /\ Slashes(target.owner) = {} /\ Slashes(target.repo) = {}
  BY KeyNames DEF KeyNamesSubject
<1>4. \A parts, k : Checked(parts, k) # Absent => Checked(parts, k) = k /\ \A part \in parts : validateClaimComponent(part)
  BY DEF Checked
<1>5. Slashes(Empty) = {}
  BY DEF Slashes, Empty
<1> HIDE DEF o, r, n, key
<1>6. CASE task.type \in repoKeyedTaskTypes
  <2> DEFINE target == Target(Empty, o, r, Empty)
  <2>1. Subject(task) = target /\ key = Checked({o, r}, Key("repo", Joined(o, r)))
    BY <1>6, SubjectForms DEF o, r, key
  <2>2. key = Key("repo", Joined(o, r)) /\ validateClaimComponent(o) /\ validateClaimComponent(r)
    BY <1>3, <1>4, <2>1
  <2>3. o # Empty /\ r # Empty /\ Slashes(o) = {} /\ Slashes(r) = {}
    BY <1>2, <2>2, ComponentParts
  <2>4. target \in TargetWords
    BY <1>2 DEF TargetWords, Target
  <2>5. target.id = Empty /\ target.owner = o /\ target.repo = r /\ target.number = Empty
    BY TargetParts
  <2> HIDE DEF target
  <2>6. ~NoForm(target) /\ ~isPR(target)
    BY <2>3, <2>5 DEF NoForm, isAmbiguous, isPR
  <2>7. KeyFor(target) = key
    BY <2>2, <2>5, <2>6, KeyForms
  <2> QED
    BY <2>1, <2>3, <2>4, <2>5, <2>6, <2>7
<1>7. CASE task.type = "pr-review" /\ n # Absent
  <2> DEFINE target == Target(Empty, o, r, n)
  <2>1. Subject(task) = target /\ key = Checked({o, r, n}, Key("pr", Joined(Joined(o, r), n)))
    BY <1>7, SubjectForms DEF o, r, n, key
  <2>2. key = Key("pr", Joined(Joined(o, r), n)) /\ validateClaimComponent(o) /\ validateClaimComponent(r)
    BY <1>3, <1>4, <2>1
  <2>3. o # Empty /\ r # Empty /\ Slashes(o) = {} /\ Slashes(r) = {}
    BY <1>2, <2>2, ComponentParts
  <2>4. n \in Word /\ validPRNumber(n)
    BY <1>1, <1>7, NumberFromBody DEF n
  <2>5. target \in TargetWords
    BY <1>2, <2>4 DEF TargetWords, Target
  <2>6. target.id = Empty /\ target.owner = o /\ target.repo = r /\ target.number = n
    BY TargetParts
  <2> HIDE DEF target
  <2>7. ~NoForm(target) /\ isPR(target)
    BY <2>3, <2>4, <2>6 DEF NoForm, isAmbiguous, isPR, validPRNumber
  <2>8. KeyFor(target) = key
    BY <2>2, <2>6, <2>7, KeyForms
  <2> QED
    BY <2>1, <2>3, <2>5, <2>6, <2>7, <2>8
<1>8. CASE task.type \notin repoKeyedTaskTypes /\ ~(task.type = "pr-review" /\ n # Absent)
  <2> DEFINE target == Target(task.id, Empty, Empty, Empty)
  <2>1. Subject(task) = target /\ key = Checked({task.id}, Key("task", task.id))
    BY <1>8, SubjectForms DEF n, key
  <2>2. key = Key("task", task.id) /\ validateClaimComponent(task.id)
    BY <1>3, <1>4, <2>1
  <2>3. task.id # Empty
    BY <1>2, <2>2, ComponentParts
  <2>4. target \in TargetWords
    BY <1>2 DEF TargetWords, Target
  <2>5. target.id = task.id /\ target.owner = Empty /\ target.repo = Empty /\ target.number = Empty
    BY TargetParts
  <2> HIDE DEF target
  <2>6. ~NoForm(target)
    BY <2>3, <2>5 DEF NoForm, isAmbiguous, isRepo, isPR
  <2>7. KeyFor(target) = key
    BY <2>2, <2>3, <2>5, <2>6, KeyForms
  <2> QED
    BY <1>5, <2>1, <2>4, <2>5, <2>6, <2>7
<1> QED
  BY <1>6, <1>7, <1>8

=============================================================================
