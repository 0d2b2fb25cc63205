------------------------ MODULE WorkspacePage_proofs ------------------------
(***************************************************************************)
(* Theorems about WorkspacePage, for any number of messages and polls and   *)
(* all circumstances: the page only watches the versions of the server, its *)
(* form stays locked while announced research is unanswered, and its list   *)
(* shows the versions in order while neither polls nor generations overlap. *)
(***************************************************************************)
EXTENDS WorkspacePage, ManuscriptVersions_proofs, SequenceTheorems

\* The page touches the server's versions only where it asks for a document.
LEMMA PageStepIsVersionStep == ASSUME Next PROVE [VersionNext]_versionVars
<1>1. ASSUME NEW t \in Turns, Server(t) PROVE VersionNext
  BY <1>1 DEF Server, VersionNext
<1>2. ASSUME NEW t \in Turns, StreamEnds(t) PROVE [VersionNext]_versionVars
  BY <1>2 DEF StreamEnds, AnswerEnds, StartsGeneration, Acknowledged, Announced, Awaits,
              VersionNext
<1>3. ASSUME NEW t \in Turns,
             \/ Submit(t) \/ PostEnds(t) \/ ResearchTick(t) \/ JobEnds(t) \/ JobLost(t)
             \/ KeepPolling(t) \/ JobSettles(t) \/ ContinueEnds(t)
      PROVE  UNCHANGED versionVars
  BY <1>3 DEF Submit, PostEnds, PostRefused, PostLost, PostCreated, ResearchTick, JobEnds,
              JobLost, KeepPolling, JobSettles, EvidenceReady, ResearchFailed, ContinueEnds
<1>4. ASSUME NEW p \in Polls, VersionTick(p) \/ PollVersions(p) \/ PollFails(p) \/ PollApplied(p)
      PROVE  UNCHANGED versionVars
  BY <1>4 DEF VersionTick, PollVersions, PollFails, PollApplied
<1>5. CASE Reload
  BY <1>5 DEF Reload
<1> QED BY <1>1, <1>2, <1>3, <1>4, <1>5 DEF Next

\* The page with its server implements ManuscriptVersions.
THEOREM PageUsesVersions == Spec => VersionSpec
<1>1. Init => VersionInit
  BY DEF Init
<1>2. [Next]_vars => [VersionNext]_versionVars
  <2>1. CASE Next
    BY <2>1, PageStepIsVersionStep
  <2>2. CASE UNCHANGED vars
    BY <2>2 DEF vars
  <2> QED BY <2>1, <2>2
<1> QED BY <1>1, <1>2, PTL DEF Spec, VersionSpec

\* So what the page lists is whole: each row has its file, without a gap in numbers.
THEOREM ListedAreWhole == Spec => []VersionsAreWhole
BY PageUsesVersions, VersionsWhole, PTL
-----------------------------------------------------------------------------
(***************************************************************************)
(* The form                                                                 *)
(***************************************************************************)
TurnStates  == {"unsent", "streaming", "generating", "announced", "waiting", "over", "broken"}
Speaks(t)   == turn[t] \in {"streaming", "generating", "announced"}
Awaited(t)  == asked[t] \notin {"no", "over"}
Busy(t)     == Speaks(t) \/ Awaited(t)

\* One message at a time: while it streams the form is submitting, and until the
\* stream ends or the announced research is answered it is locked.
FormInv ==
  /\ turn \in [Turns -> TurnStates]
  /\ asked \in [Turns -> {"no", "posting", "lost", "polling", "polled", "continuing", "over"}]
  /\ form \in [submitting : BOOLEAN, locked : BOOLEAN]
  /\ \A t \in Turns : turn[t] \in {"unsent", "streaming", "generating"} => asked[t] = "no"
  /\ \A t \in Turns : turn[t] \in {"announced", "waiting"} => asked[t] # "no"
  /\ \A t \in Turns : turn[t] \in {"over", "broken"} => ~Awaited(t)
  /\ \A t \in Turns : Speaks(t) => form.submitting
  /\ \A t \in Turns : turn[t] \in {"streaming", "generating"} \/ Awaited(t) => form.locked
  /\ \A t, u \in Turns : Busy(t) /\ Busy(u) => t = u

formVars == <<turn, asked, form>>

Calm == "cut" \notin env

LEMMA FormInit == ASSUME Init PROVE FormInv
BY DEF Init, FormInv, Free, TurnStates, Speaks, Awaited, Busy

\* A message is sent only when no other one is busy.
LEMMA SubmitKeepsForm ==
  ASSUME FormInv, NEW t \in Turns, Submit(t)
  PROVE  FormInv'
<1>1. \A u \in Turns : ~Busy(u)
  BY DEF Submit, FormInv, Free, Busy, Speaks
<1> QED BY <1>1 DEF Submit, FormInv, Free, TurnStates, Speaks, Awaited, Busy

LEMMA StreamKeepsForm ==
  ASSUME FormInv, Calm, NEW t \in Turns, StreamEnds(t)
  PROVE  FormInv'
<1>1. CASE AnswerEnds(t) \/ Acknowledged(t)
  <2>1. /\ turn[t] \in {"streaming", "generating"} /\ UNCHANGED asked
        /\ turn' = [turn EXCEPT ![t] = "over"] /\ form' = Free
    BY <1>1 DEF AnswerEnds, Acknowledged, Calm
  <2>2. Busy(t) /\ asked[t] = "no"
    BY <2>1 DEF FormInv, Busy, Speaks
  <2>3. \A u \in Turns : u # t => ~Busy(u)
    BY <2>2 DEF FormInv
  <2> QED BY <2>1, <2>2, <2>3 DEF FormInv, Free, TurnStates, Speaks, Awaited, Busy
<1>2. CASE Announced(t)
  <2>1. Busy(t) /\ form.locked /\ form.submitting
    BY <1>2 DEF Announced, FormInv, Busy, Speaks
  <2>2. \A u \in Turns : u # t => ~Busy(u)
    BY <2>1 DEF FormInv
  <2>3. turn' = [turn EXCEPT ![t] = "announced"] /\ asked' = [asked EXCEPT ![t] = "posting"]
        /\ UNCHANGED form
    BY <1>2 DEF Announced
  <2> QED BY <2>1, <2>2, <2>3 DEF FormInv, TurnStates, Speaks, Awaited, Busy
<1>3. CASE Awaits(t)
  <2>1. turn[t] = "announced" /\ turn' = [turn EXCEPT ![t] = "waiting"] /\ UNCHANGED asked
        /\ form' = [form EXCEPT !.submitting = FALSE]
    BY <1>3 DEF Awaits
  <2>2. \A u \in Turns : u # t => ~Busy(u)
    BY <2>1 DEF FormInv, Busy, Speaks
  <2> QED BY <2>1, <2>2 DEF FormInv, TurnStates, Speaks, Awaited, Busy
<1>4. CASE StartsGeneration(t)
  <2>1. /\ turn[t] = "streaming" /\ turn' = [turn EXCEPT ![t] = "generating"]
        /\ UNCHANGED <<asked, form>>
    BY <1>4 DEF StartsGeneration
  <2>2. Busy(t) /\ form.locked /\ form.submitting /\ asked[t] = "no"
    BY <2>1 DEF FormInv, Busy, Speaks
  <2> QED BY <2>1, <2>2 DEF FormInv, TurnStates, Speaks, Awaited, Busy
<1> QED BY <1>1, <1>2, <1>3, <1>4 DEF StreamEnds

\* While the announced research is unanswered the form is only unlocked with the
\* step that answers it.
LEMMA ResearchKeepsForm ==
  ASSUME FormInv, NEW t \in Turns, Awaited(t), NEW to,
         asked' = [asked EXCEPT ![t] = to], UNCHANGED turn,
         \/ to \in {"lost", "polling", "polled", "continuing"} /\ UNCHANGED form
         \/ to = "over" /\ form' = [form EXCEPT !.locked = FALSE]
  PROVE  FormInv'
<1>1. \A u \in Turns : u # t => ~Busy(u)
  BY DEF FormInv, Busy
<1>2. asked[t] # "no" /\ turn[t] \in {"announced", "waiting"}
  BY DEF FormInv, TurnStates, Awaited
<1>3. /\ to \in {"lost", "polling", "polled", "continuing", "over"}
      /\ form' \in [submitting : BOOLEAN, locked : BOOLEAN]
      /\ form'.submitting = form.submitting
      /\ to # "over" => form'.locked = form.locked
  BY DEF FormInv
<1>4. /\ asked'[t] = to /\ \A u \in Turns : u # t => asked'[u] = asked[u]
      /\ asked' \in [Turns -> {"no", "posting", "lost", "polling", "polled", "continuing", "over"}]
  BY <1>3 DEF FormInv
<1>5. \A u \in Turns : Awaited(u)' => u = t /\ to # "over" /\ Awaited(u)
  BY <1>1, <1>4 DEF Awaited, Busy
<1>6. form.locked /\ \A u, v \in Turns : Busy(u)' /\ Busy(v)' => u = v
  BY <1>1, <1>5 DEF FormInv, Busy, Speaks
<1>7. \A u \in Turns :
        (turn[u] \in {"unsent", "streaming", "generating"})' => asked'[u] = "no"
  BY <1>2, <1>4 DEF FormInv
<1>8. \A u \in Turns : (turn[u] \in {"announced", "waiting"})' => asked'[u] # "no"
  BY <1>3, <1>4 DEF FormInv
<1>9. \A u \in Turns : /\ (turn[u] \in {"over", "broken"} => ~Awaited(u))'
                       /\ (Speaks(u) => form.submitting)'
  BY <1>3, <1>5 DEF FormInv, Speaks
<1>10. \A u \in Turns : (turn[u] \in {"streaming", "generating"} \/ Awaited(u) => form.locked)'
  BY <1>1, <1>2, <1>3, <1>5, <1>6 DEF Busy, Speaks
<1> QED BY <1>3, <1>4, <1>6, <1>7, <1>8, <1>9, <1>10 DEF FormInv

LEMMA AskedKeepsForm ==
  ASSUME FormInv, NEW t \in Turns,
         PostEnds(t) \/ ResearchTick(t) \/ KeepPolling(t) \/ JobSettles(t) \/ ContinueEnds(t)
  PROVE  FormInv'
<1>1. Awaited(t) /\ UNCHANGED turn
  BY DEF PostEnds, PostRefused, PostLost, PostCreated, ResearchTick, KeepPolling, JobSettles,
         EvidenceReady, ResearchFailed, ContinueEnds, Awaited
<1>2. \/ \E to \in {"lost", "polling", "polled", "continuing"} : Ask(t, to) /\ UNCHANGED form
      \/ Ask(t, "over") /\ form' = [form EXCEPT !.locked = FALSE]
  BY DEF PostEnds, PostRefused, PostLost, PostCreated, ResearchTick, KeepPolling, JobSettles,
         EvidenceReady, ResearchFailed, ContinueEnds
<1> QED BY <1>1, <1>2, ResearchKeepsForm DEF Ask

LEMMA ReloadKeepsForm == ASSUME FormInv, Reload PROVE FormInv'
BY DEF Reload, FormInv, Free, TurnStates, Speaks, Awaited, Busy

LEMMA FormUnchanged == ASSUME FormInv, UNCHANGED formVars PROVE FormInv'
BY DEF FormInv, formVars, Speaks, Awaited, Busy

LEMMA FormStep == ASSUME FormInv, Calm, [Next]_vars PROVE FormInv'
<1>1. ASSUME NEW t \in Turns, JobEnds(t) \/ JobLost(t) \/ Server(t)
      PROVE  UNCHANGED formVars
  BY <1>1 DEF JobEnds, JobLost, Server, formVars, pageVars
<1>2. ASSUME NEW p \in Polls, VersionTick(p) \/ PollVersions(p) \/ PollFails(p) \/ PollApplied(p)
      PROVE  UNCHANGED formVars
  BY <1>2 DEF VersionTick, PollVersions, PollFails, PollApplied, formVars
<1>3. CASE UNCHANGED vars
  BY <1>3, FormUnchanged DEF vars, pageVars, formVars
<1> QED BY <1>1, <1>2, <1>3, SubmitKeepsForm, StreamKeepsForm, AskedKeepsForm,
           ReloadKeepsForm, FormUnchanged DEF Next

LEMMA EnvironmentStays == ASSUME [Next]_vars PROVE UNCHANGED env
BY DEF Next, vars, pageVars, Submit, StreamEnds, AnswerEnds, StartsGeneration, Acknowledged,
       Announced, Awaits, PostEnds, PostRefused, PostLost, PostCreated, ResearchTick, JobEnds,
       JobLost, KeepPolling, JobSettles, EvidenceReady, ResearchFailed, ContinueEnds, Server, VersionTick,
       PollVersions, PollFails, PollApplied, Reload

\* Unless the stream that announced it breaks off, the form is locked until the
\* research is answered, for any number of messages and jobs.
THEOREM FormStaysLocked == Spec => []LockedWhileResearching
<1> DEFINE Inv == Calm => FormInv
<1>1. Init => Inv
  BY FormInit
<1>2. Inv /\ [Next]_vars => Inv'
  BY FormStep, EnvironmentStays DEF Calm
<1>3. Inv => LockedWhileResearching
  BY DEF Calm, FormInv, LockedWhileResearching, Awaited
<1> QED BY <1>1, <1>2, <1>3, PTL DEF Spec
-----------------------------------------------------------------------------
(***************************************************************************)
(* Ordered sorts                                                            *)
(***************************************************************************)
UpTo(S, n) == {m \in S : m <= n}
Rank(S, n) == Cardinality(UpTo(S, n))

LEMMA RankType ==
  ASSUME NEW S \in SUBSET Nat, IsFiniteSet(S), NEW n \in S
  PROVE  /\ Cardinality(S) \in Nat /\ IsFiniteSet(UpTo(S, n))
         /\ Rank(S, n) \in 1..Cardinality(S)
<1>1. UpTo(S, n) \in SUBSET S /\ n \in UpTo(S, n)
  BY DEF UpTo
<1>2. Cardinality(S) \in Nat
  BY FS_CardinalityType
<1>3. IsFiniteSet(UpTo(S, n)) /\ Cardinality(UpTo(S, n)) <= Cardinality(S)
  BY <1>1, FS_Subset
<1>4. Cardinality(UpTo(S, n)) \in Nat
  BY <1>3, FS_CardinalityType
<1>5. Cardinality(UpTo(S, n)) # 0
  BY <1>1, <1>3, FS_EmptySet
<1> QED BY <1>2, <1>3, <1>4, <1>5 DEF Rank

\* A smaller element has a smaller rank.
LEMMA RankGrows ==
  ASSUME NEW S \in SUBSET Nat, IsFiniteSet(S), NEW m \in S, NEW n \in S, m < n
  PROVE  Rank(S, m) < Rank(S, n)
<1>1. \A k \in S : k <= m => k <= n
  OBVIOUS
<1>2. UpTo(S, m) \in SUBSET UpTo(S, n)
  BY <1>1 DEF UpTo
<1>3. n \in UpTo(S, n) /\ n \notin UpTo(S, m)
  BY DEF UpTo
<1>4. IsFiniteSet(UpTo(S, n)) /\ Rank(S, m) \in Nat /\ Rank(S, n) \in Nat
  BY RankType
<1>5. /\ Cardinality(UpTo(S, m)) <= Cardinality(UpTo(S, n))
      /\ Cardinality(UpTo(S, n)) = Cardinality(UpTo(S, m)) => UpTo(S, n) = UpTo(S, m)
  BY <1>2, <1>4, FS_Subset
<1>6. UpTo(S, n) # UpTo(S, m)
  BY <1>3
<1>7. Rank(S, m) <= Rank(S, n) /\ Rank(S, m) # Rank(S, n)
  BY <1>5, <1>6 DEF Rank
<1> QED BY <1>4, <1>7

LEMMA RankOneToOne ==
  ASSUME NEW S \in SUBSET Nat, IsFiniteSet(S), NEW m \in S, NEW n \in S,
         Rank(S, m) = Rank(S, n)
  PROVE  m = n
<1>1. Rank(S, n) \in Nat /\ m \in Nat /\ n \in Nat
  BY RankType
<1>2. ~(m < n) /\ ~(n < m)
  BY <1>1, RankGrows
<1> QED BY <1>1, <1>2

\* Every place of the order is taken.
LEMMA RankTaken ==
  ASSUME NEW S \in SUBSET Nat, IsFiniteSet(S), NEW i \in 1..Cardinality(S)
  PROVE  \E n \in S : Rank(S, n) = i
<1> DEFINE T == 1..Cardinality(S)
           f == [n \in S |-> Rank(S, n)]
<1>1. f \in [S -> T]
  BY RankType
<1>2. \A m, n \in S : f[m] = f[n] => m = n
  BY RankOneToOne
<1>3. IsFiniteSet(T) /\ Cardinality(T) = Cardinality(S)
  <2>1. Cardinality(S) \in Nat
    BY FS_CardinalityType
  <2> QED BY <2>1, FS_Interval
<1>4. f \in Injection(S, T)
  <2> HIDE DEF f, T
  <2> QED BY <1>1, <1>2 DEF Injection, IsInjective
<1>5. f \in Surjection(S, T)
  <2> HIDE DEF f, T
  <2> QED BY <1>3, <1>4, FS_Injection
<1>6. \E n \in S : f[n] = i
  <2> HIDE DEF f
  <2> QED BY <1>5 DEF Surjection
<1> QED BY <1>6

\* The i-th of the list is the element of rank i, so the list is sorted.
LEMMA OrderedSorts ==
  ASSUME NEW S \in SUBSET Nat, IsFiniteSet(S)
  PROVE  /\ Ordered(S) \in Seq(Nat) /\ Len(Ordered(S)) = Cardinality(S)
         /\ \A i \in 1..Cardinality(S) : Ordered(S)[i] \in S /\ Rank(S, Ordered(S)[i]) = i
<1> DEFINE N == Cardinality(S)
<1>1. N \in Nat
  BY FS_CardinalityType
<1>2. Ordered(S) = [i \in 1..N |-> CHOOSE n \in S : Rank(S, n) = i]
  BY DEF Ordered, Rank, UpTo
<1>3. ASSUME NEW i \in 1..N
      PROVE  Ordered(S)[i] \in S /\ Rank(S, Ordered(S)[i]) = i
  <2>1. Ordered(S)[i] = CHOOSE n \in S : Rank(S, n) = i
    BY <1>2
  <2>2. \E n \in S : Rank(S, n) = i
    BY RankTaken
  <2> QED BY <2>1, <2>2
<1>4. Ordered(S) \in [1..N -> Nat]
  BY <1>2, <1>3
<1> QED BY <1>1, <1>3, <1>4

\* Which means: each element once, in ascending order.
LEMMA OrderedAscends ==
  ASSUME NEW S \in SUBSET Nat, IsFiniteSet(S)
  PROVE  /\ \A i, j \in 1..Len(Ordered(S)) : i < j => Ordered(S)[i] < Ordered(S)[j]
         /\ \A n \in S : \E i \in 1..Len(Ordered(S)) : Ordered(S)[i] = n
<1> DEFINE N == Cardinality(S)
<1>1. /\ N \in Nat /\ Len(Ordered(S)) = N
      /\ \A i \in 1..N : Ordered(S)[i] \in S /\ Rank(S, Ordered(S)[i]) = i
  BY OrderedSorts, FS_CardinalityType
<1>2. /\ \A m, n \in S : m < n => Rank(S, m) < Rank(S, n)
      /\ \A m, n \in S : Rank(S, m) = Rank(S, n) => m = n
  BY RankGrows, RankOneToOne
<1> HIDE DEF N
<1>3. ASSUME NEW i \in 1..N, NEW j \in 1..N, i < j PROVE Ordered(S)[i] < Ordered(S)[j]
  <2>1. Ordered(S)[j] < Ordered(S)[i] => j < i
    BY <1>1, <1>2
  <2>2. i # j /\ ~(j < i)
    BY <1>1, <1>3
  <2>3. Ordered(S)[i] # Ordered(S)[j]
    BY <1>1, <2>2
  <2>4. Ordered(S)[i] \in Nat /\ Ordered(S)[j] \in Nat
    BY <1>1
  <2> QED BY <2>1, <2>2, <2>3, <2>4
<1>4. ASSUME NEW n \in S PROVE \E i \in 1..N : Ordered(S)[i] = n
  <2>1. Rank(S, n) \in 1..N
    BY RankType DEF N
  <2>2. Ordered(S)[Rank(S, n)] \in S /\ Rank(S, Ordered(S)[Rank(S, n)]) = Rank(S, n)
    BY <1>1, <2>1
  <2>3. Ordered(S)[Rank(S, n)] = n
    BY <1>2, <2>2
  <2> QED BY <2>1, <2>3
<1> QED BY <1>1, <1>3, <1>4

\* A later element goes to the end of the list.
LEMMA OrderedGrows ==
  ASSUME NEW S \in SUBSET Nat, IsFiniteSet(S), NEW x \in Nat, \A n \in S : n < x
  PROVE  /\ IsFiniteSet(S \cup {x})
         /\ Ordered(S \cup {x}) = Append(Ordered(S), x)
<1> DEFINE N == Cardinality(S)
           T == S \cup {x}
<1>1. x \notin S /\ T \in SUBSET Nat
  OBVIOUS
<1>2. N \in Nat /\ IsFiniteSet(T) /\ Cardinality(T) = N + 1
  BY <1>1, FS_CardinalityType, FS_AddElement
<1>3. \A n \in S : Rank(T, n) = Rank(S, n)
  <2> TAKE n \in S
  <2>1. UpTo(T, n) = UpTo(S, n)
    BY DEF UpTo
  <2> QED BY <2>1 DEF Rank
<1>4. Rank(T, x) = N + 1
  <2>1. \A n \in T : n <= x
    OBVIOUS
  <2>2. UpTo(T, x) = T
    BY <2>1 DEF UpTo
  <2> QED BY <1>2, <2>2 DEF Rank
<1>5. /\ Ordered(S) \in Seq(Nat) /\ Len(Ordered(S)) = N
      /\ \A i \in 1..N : Ordered(S)[i] \in S /\ Rank(S, Ordered(S)[i]) = i
  BY OrderedSorts
<1>6. /\ Ordered(T) \in Seq(Nat) /\ Len(Ordered(T)) = N + 1
      /\ \A i \in 1..(N + 1) : Ordered(T)[i] \in T /\ Rank(T, Ordered(T)[i]) = i
  BY <1>1, <1>2, OrderedSorts
<1>7. /\ Append(Ordered(S), x) \in Seq(Nat) /\ Len(Append(Ordered(S), x)) = N + 1
      /\ \A i \in 1..N : Append(Ordered(S), x)[i] = Ordered(S)[i]
      /\ Append(Ordered(S), x)[N + 1] = x
  BY <1>5, AppendProperties
<1>8. Append(Ordered(S), x)[N + 1] = x /\ N + 1 \in 1..(N + 1)
  BY <1>2, <1>7
<1>9. \A m, n \in T : Rank(T, m) = Rank(T, n) => m = n
  BY <1>1, <1>2, RankOneToOne
<1> HIDE DEF N, T
<1>10. ASSUME NEW i \in 1..(N + 1) PROVE Ordered(T)[i] = Append(Ordered(S), x)[i]
  <2>1. CASE i \in 1..N
    <3>1. Ordered(S)[i] \in T /\ Rank(T, Ordered(S)[i]) = i
      BY <1>3, <1>5, <2>1 DEF T
    <3>2. Ordered(T)[i] = Ordered(S)[i]
      BY <1>6, <1>9, <3>1
    <3> QED BY <1>7, <2>1, <3>2
  <2>2. CASE i = N + 1
    <3>1. x \in T /\ Ordered(T)[i] \in T /\ Rank(T, Ordered(T)[i]) = Rank(T, x)
      BY <1>4, <1>6, <2>2 DEF T
    <3>2. Ordered(T)[i] = x
      BY <1>9, <3>1
    <3> QED BY <1>8, <2>2, <3>2
  <2>3. i \in 1..N \/ i = N + 1
    BY <1>2
  <2> QED BY <2>1, <2>2, <2>3
<1>11. Ordered(T) = Append(Ordered(S), x)
  BY <1>6, <1>7, <1>10, SeqEqual
<1> QED BY <1>2, <1>11 DEF T

\* What was listed stays where it was, and the part after it is the rest.
LEMMA PartsKept ==
  ASSUME NEW s \in Seq(Nat), NEW x \in Nat, NEW m \in Nat \ {0}, NEW n \in 0..Len(s)
  PROVE  SubSeq(Append(s, x), m, n) = SubSeq(s, m, n)
<1> DEFINE u == Append(s, x)
<1>1. Len(s) \in Nat /\ \A i \in 1..Len(s) : s[i] \in Nat /\ u[i] = s[i]
  BY AppendProperties, ElementOfSeq, LenProperties
<1>2. \A i \in m..n : i \in 1..Len(s)
  BY <1>1
<1> HIDE DEF u
<1>3. \A i \in m..n : s[i] \in Nat /\ u[i] = s[i]
  BY <1>1, <1>2
<1>4. /\ SubSeq(s, m, n) \in Seq(Nat) /\ SubSeq(u, m, n) \in Seq(Nat)
      /\ Len(SubSeq(s, m, n)) = IF m <= n THEN n - m + 1 ELSE 0
      /\ Len(SubSeq(u, m, n)) = IF m <= n THEN n - m + 1 ELSE 0
      /\ \A i \in 1..(n - m + 1) : SubSeq(s, m, n)[i] = s[m + i - 1]
      /\ \A i \in 1..(n - m + 1) : SubSeq(u, m, n)[i] = u[m + i - 1]
  BY <1>1, <1>3, SubSeqProperties
<1>5. \A i \in 1..Len(SubSeq(s, m, n)) : SubSeq(u, m, n)[i] = SubSeq(s, m, n)[i]
  <2> TAKE i \in 1..Len(SubSeq(s, m, n))
  <2>1. i \in 1..(n - m + 1) /\ m + i - 1 \in m..n
    BY <1>1, <1>4
  <2> QED BY <1>3, <1>4, <2>1
<1>6. SubSeq(u, m, n) = SubSeq(s, m, n)
  BY <1>4, <1>5, SeqEqual
<1> QED BY <1>6 DEF u

LEMMA PartsJoin ==
  ASSUME NEW s \in Seq(Nat), NEW n \in 0..Len(s), NEW k \in 0..n
  PROVE  SubSeq(s, 1, k) \o SubSeq(s, k + 1, n) = SubSeq(s, 1, n)
<1>1. Len(s) \in Nat
  BY LenProperties
<1>2. 1 \in 1..(Len(s) + 1) /\ k \in (1 - 1)..Len(s) /\ n \in k..Len(s)
  BY <1>1
<1> QED BY <1>2, ConcatAdjacentSubSeq

LEMMA PartLength ==
  ASSUME NEW s \in Seq(Nat), NEW n \in 0..Len(s), NEW k \in 0..n
  PROVE  /\ SubSeq(s, k + 1, n) \in Seq(Nat)
         /\ Len(SubSeq(s, k + 1, n)) = n - k
<1>1. Len(s) \in Nat /\ \A i \in (k + 1)..n : s[i] \in Nat
  BY ElementOfSeq, LenProperties
<1> QED BY <1>1, SubSeqProperties

-----------------------------------------------------------------------------
(***************************************************************************)
(* Types                                                                    *)
(***************************************************************************)
PageInv == TypeOK /\ IsFiniteSet(Stamps)

LEMMA StampsAreNumbers == ASSUME VersionTypeOK PROVE Stamps \in SUBSET Nat
BY DEF VersionTypeOK, Rows, Stamps

\* A step commits one row at most.
LEMMA StampsStep ==
  ASSUME [VersionNext]_versionVars
  PROVE  \/ UNCHANGED rows
         \/ \E t \in Turns : Commit(t) /\ Stamps' = Stamps \cup {save[t].stamp}
<1>1. ASSUME NEW t \in Turns, Commit(t) PROVE Stamps' = Stamps \cup {save[t].stamp}
  <2>1. rows' = rows \cup {Row(t)} /\ Row(t).stamp = save[t].stamp
    BY <1>1 DEF Commit, Row
  <2> QED BY <2>1 DEF Stamps
<1>2. ASSUME NEW t \in Turns,
             \/ Generate(t) \/ WriteFile(t) \/ ReadRevision(t) \/ StoreCheckpoint(t)
             \/ GenerationFails(t) \/ RunAgain(t)
      PROVE  UNCHANGED rows
  BY <1>2 DEF Generate, WriteFile, ReadRevision, StoreCheckpoint, GenerationFails, RunAgain
<1> QED BY <1>1, <1>2 DEF VersionNext, Saving, versionVars

LEMMA ListingIsList ==
  ASSUME VersionTypeOK, IsFiniteSet(Stamps), NEW n \in Nat
  PROVE  /\ Listing \in Seq(Nat) /\ Len(Listing) \in Nat
         /\ SubSeq(Listing, n + 1, Len(Listing)) \in Seq(Nat)
<1>1. Listing \in Seq(Nat)
  BY StampsAreNumbers, OrderedSorts DEF Listing
<1>2. Len(Listing) \in Nat /\ \A i \in (n + 1)..Len(Listing) : Listing[i] \in Nat
  BY <1>1, LenProperties, ElementOfSeq
<1> QED BY <1>1, <1>2, SubSeqProperties

\* The variables of the form, and those of the list.
LEMMA TypesOfTurns ==
  ASSUME TypeOK, NEW t \in Turns,
         \/ Submit(t) \/ StreamEnds(t) \/ PostEnds(t) \/ ResearchTick(t)
         \/ JobEnds(t) \/ JobLost(t) \/ KeepPolling(t) \/ JobSettles(t) \/ ContinueEnds(t)
  PROVE  /\ form' \in [submitting : BOOLEAN, locked : BOOLEAN]
         /\ list' \in [shown : Seq(Nat), count : Nat, timer : BOOLEAN, stopAfter : Nat \cup {None}]
         /\ turn' \in [Turns -> TurnStates]
         /\ before' \in [Turns -> Nat]
         /\ asked' \in [Turns -> {"no", "posting", "lost", "polling", "polled", "continuing", "over"}]
         /\ research' \in [active : Turns \cup {None}, inFlight : BOOLEAN]
         /\ job' \in [Turns -> {"none", "open", "ready", "over", "stuck"}]
         /\ UNCHANGED <<env, polls>>
<1>1. CASE Submit(t)
  BY <1>1 DEF Submit, TurnStates, TypeOK
<1>2. CASE AnswerEnds(t)
  BY <1>2 DEF AnswerEnds, Free, TurnStates, TypeOK
<1>3. CASE Acknowledged(t)
  BY <1>3 DEF Acknowledged, Free, TurnStates, TypeOK
<1>4. CASE Announced(t)
  BY <1>4 DEF Announced, TurnStates, TypeOK
<1>5. CASE Awaits(t)
  BY <1>5 DEF Awaits, TurnStates, TypeOK
<1>6. CASE PostEnds(t) /\ ~PostCreated(t)
  BY <1>6 DEF PostEnds, PostRefused, PostLost, Ask, TurnStates, TypeOK
<1>7. CASE PostCreated(t)
  BY <1>7 DEF PostCreated, Ask, TurnStates, TypeOK
<1>8. CASE ResearchTick(t) \/ KeepPolling(t) \/ ContinueEnds(t)
  BY <1>8 DEF ResearchTick, KeepPolling, ContinueEnds, Ask, TurnStates, TypeOK
<1>9. CASE JobEnds(t) \/ JobLost(t)
  <2>1. PICK s \in {"ready", "over", "stuck"} : job' = [job EXCEPT ![t] = s]
    BY <1>9 DEF JobEnds, JobLost
  <2>2. UNCHANGED <<env, list, polls, turn, before, form, asked, research>>
    BY <1>9 DEF JobEnds, JobLost
  <2> QED BY <2>1, <2>2 DEF TurnStates, TypeOK
<1>10. CASE EvidenceReady(t)
  BY <1>10 DEF EvidenceReady, NoResearch, Ask, TurnStates, TypeOK
<1>11. CASE ResearchFailed(t)
  BY <1>11 DEF ResearchFailed, NoResearch, Ask, TurnStates, TypeOK
<1>12. CASE StartsGeneration(t)
  BY <1>12 DEF StartsGeneration, TurnStates, TypeOK
<1> QED BY <1>1, <1>2, <1>3, <1>4, <1>5, <1>6, <1>7, <1>8, <1>9, <1>10, <1>11, <1>12
        DEF StreamEnds, PostEnds, JobSettles

LEMMA TypesOfPolls ==
  ASSUME TypeOK, IsFiniteSet(Stamps), NEW p \in Polls,
         VersionTick(p) \/ PollVersions(p) \/ PollFails(p) \/ PollApplied(p)
  PROVE  /\ list' \in [shown : Seq(Nat), count : Nat, timer : BOOLEAN, stopAfter : Nat \cup {None}]
         /\ polls' \in [Polls -> [at : {"free", "sent", "answered"}, after : Nat, got : Seq(Nat)]]
         /\ UNCHANGED <<env, turn, before, form, asked, research, job>>
<1> DEFINE P == [at : {"free", "sent", "answered"}, after : Nat, got : Seq(Nat)]
<1>0. polls \in [Polls -> P] /\ polls[p] \in P /\ list.count \in Nat /\ NoPoll \in P
  BY EmptySeq DEF TypeOK, NoPoll
<1>1. CASE VersionTick(p)
  BY <1>0, <1>1 DEF VersionTick, TypeOK
<1>2. CASE PollVersions(p)
  <2>1. SubSeq(Listing, polls[p].after + 1, Len(Listing)) \in Seq(Nat)
    BY <1>0, ListingIsList DEF TypeOK
  <2> QED BY <1>0, <1>2, <2>1 DEF PollVersions, TypeOK
<1>3. CASE PollFails(p)
  BY <1>0, <1>3 DEF PollFails, TypeOK
<1>4. CASE PollApplied(p)
  <2>1. list.shown \o polls[p].got \in Seq(Nat) /\ Len(polls[p].got) \in Nat
    BY <1>0, ConcatProperties, LenProperties DEF TypeOK
  <2> QED BY <1>0, <1>4, <2>1 DEF PollApplied, TypeOK
<1> QED BY <1>1, <1>2, <1>3, <1>4

LEMMA PageInvStep == ASSUME PageInv, VersionTypeOK', [Next]_vars PROVE PageInv'
<1>1. IsFiniteSet(Stamps)'
  <2>1. [VersionNext]_versionVars
    BY PageStepIsVersionStep DEF vars
  <2>2. CASE UNCHANGED rows
    BY <2>2 DEF PageInv, Stamps
  <2>3. CASE \E t \in Turns : Commit(t) /\ Stamps' = Stamps \cup {save[t].stamp}
    BY <2>3, FS_AddElement DEF PageInv
  <2> QED BY <2>1, <2>2, <2>3, StampsStep
<1>2. ASSUME NEW t \in Turns,
             \/ Submit(t) \/ StreamEnds(t) \/ PostEnds(t) \/ ResearchTick(t)
             \/ JobEnds(t) \/ JobLost(t) \/ KeepPolling(t) \/ JobSettles(t) \/ ContinueEnds(t)
      PROVE  TypeOK'
  BY <1>2, TypesOfTurns DEF PageInv, TypeOK, TurnStates
<1>3. ASSUME NEW p \in Polls, VersionTick(p) \/ PollVersions(p) \/ PollFails(p) \/ PollApplied(p)
      PROVE  TypeOK'
  BY <1>3, TypesOfPolls DEF PageInv, TypeOK
<1>4. ASSUME UNCHANGED pageVars PROVE TypeOK'
  BY <1>4 DEF pageVars, PageInv, TypeOK
<1>5. ASSUME Reload PROVE TypeOK'
  <2>1. Listing \in Seq(Nat) /\ Len(Listing) \in Nat /\ <<>> \in Seq(Nat)
    BY ListingIsList, EmptySeq DEF PageInv, TypeOK
  <2> QED BY <1>5, <2>1 DEF Reload, PageInv, TypeOK, NoPoll, Free, NoResearch
<1> QED BY <1>1, <1>2, <1>3, <1>4, <1>5 DEF Next, Server, PageInv, vars

LEMMA PageInvInit == ASSUME Init, VersionTypeOK PROVE PageInv
<1>1. Stamps = {} /\ <<>> \in Seq(Nat)
  BY EmptySeq DEF Init, VersionInit, Stamps
<1> QED BY <1>1, FS_EmptySet DEF Init, PageInv, TypeOK, NoPoll, Free, NoResearch

LEMMA VersionTypesHold == Spec => []VersionTypeOK
<1>1. VInv => VersionTypeOK
  BY DEF VInv
<1> QED BY <1>1, PageUsesVersions, VersionInvariance, PTL

LEMMA PageInvHolds == Spec => []PageInv
BY PageInvInit, PageInvStep, VersionTypesHold, PTL DEF Spec

\* The page's variables keep their types in all circumstances (_chat_center.html).
THEOREM PageTypeCorrect == Spec => []TypeOK
BY PageInvHolds, PTL DEF PageInv

-----------------------------------------------------------------------------
(***************************************************************************)
(* The version list                                                         *)
(***************************************************************************)
\* Polls do not overlap and generations do not either.
Orderly == env \cap {"overlap", "rush", "resume"} = {}

Working(t) == save[t].at \in {"writing", "filed", "numbered"}
Open(t)    == turn[t] \in {"streaming", "announced"}

\* One stream at a time, with or without research.
StreamInv ==
  /\ form \in [submitting : BOOLEAN, locked : BOOLEAN]
  /\ turn \in [Turns -> TurnStates]
  /\ \A t \in Turns : Speaks(t) => form.submitting
  /\ \A t, u \in Turns : Speaks(t) /\ Speaks(u) => t = u

\* One generation at a time: a message is sent only after the last one appeared,
\* so a generation commits a stamp that is later than every listed one.
WriterInv ==
  /\ \A t \in Turns : turn[t] \in {"unsent", "streaming"} => save[t].at = "none"
  /\ \A t, u \in Turns : Working(t) => ~Open(u) /\ (Working(u) => t = u)
  /\ \A t \in Turns : save[t].at = "none" \/ Working(t) => Copies(t) = {}
  /\ IsFiniteSet(Stamps)
  /\ \A n \in Stamps : n <= clock
  /\ \A t \in Turns : save[t].at \in {"filed", "numbered"} =>
       \A n \in Stamps : n < save[t].stamp
  /\ \A t \in Turns : save[t].stamp <= clock

\* What is shown, and what a poll is about to add, are parts of the list that fit.
ListInv ==
  /\ list.count \in 0..Len(Listing)
  /\ list.shown = SubSeq(Listing, 1, list.count)
  /\ \A p, q \in Polls : polls[p].at # "free" /\ polls[q].at # "free" => p = q
  /\ \A p \in Polls : polls[p].at # "free" => polls[p].after = list.count
  /\ \A p \in Polls : polls[p].at = "answered" =>
       \E n \in list.count..Len(Listing) : polls[p].got = SubSeq(Listing, list.count + 1, n)

streamVars == <<turn, form>>
shownVars  == <<list, polls>>

LEMMA StreamStep == ASSUME StreamInv, [Next]_vars PROVE StreamInv'
<1>1. ASSUME NEW t \in Turns, Submit(t) PROVE StreamInv'
  BY <1>1 DEF Submit, StreamInv, Free, TurnStates, Speaks
<1>2. ASSUME NEW t \in Turns, AnswerEnds(t) \/ Acknowledged(t) PROVE StreamInv'
  <2>1. PICK to \in {"over", "broken"} : turn' = [turn EXCEPT ![t] = to]
    BY <1>2 DEF AnswerEnds, Acknowledged
  <2>2. Speaks(t) /\ form' = Free
    BY <1>2 DEF AnswerEnds, Acknowledged, Speaks
  <2>3. \A u \in Turns : ~Speaks(u)'
    BY <2>1, <2>2 DEF StreamInv, Speaks
  <2> QED BY <2>1, <2>2, <2>3 DEF StreamInv, TurnStates, Free
<1>3. ASSUME NEW t \in Turns, Announced(t) \/ StartsGeneration(t) PROVE StreamInv'
  BY <1>3 DEF Announced, StartsGeneration, StreamInv, TurnStates, Speaks
<1>4. ASSUME NEW t \in Turns, Awaits(t) PROVE StreamInv'
  <2>1. Speaks(t) /\ turn' = [turn EXCEPT ![t] = "waiting"]
        /\ form' = [form EXCEPT !.submitting = FALSE]
    BY <1>4 DEF Awaits, Speaks
  <2>2. \A u \in Turns : ~Speaks(u)'
    BY <2>1 DEF StreamInv, Speaks
  <2> QED BY <2>1, <2>2 DEF StreamInv, TurnStates
<1>5. ASSUME UNCHANGED turn, UNCHANGED form \/ form' = [form EXCEPT !.locked = FALSE]
      PROVE  StreamInv'
  BY <1>5 DEF StreamInv, Speaks
<1>6. CASE Reload
  BY <1>6 DEF Reload, StreamInv, TurnStates, Speaks, Free
<1>7. ASSUME NEW t \in Turns,
             \/ PostEnds(t) \/ ResearchTick(t) \/ JobEnds(t) \/ JobLost(t)
             \/ KeepPolling(t) \/ JobSettles(t) \/ ContinueEnds(t) \/ Server(t)
      PROVE  StreamInv'
  BY <1>5, <1>7 DEF PostEnds, PostRefused, PostLost, PostCreated, ResearchTick, JobEnds,
              JobLost, KeepPolling, JobSettles, EvidenceReady, ResearchFailed, ContinueEnds, Server, pageVars
<1>8. ASSUME NEW p \in Polls, VersionTick(p) \/ PollVersions(p) \/ PollFails(p) \/ PollApplied(p)
      PROVE  StreamInv'
  BY <1>5, <1>8 DEF VersionTick, PollVersions, PollFails, PollApplied
<1>9. CASE UNCHANGED vars
  BY <1>5, <1>9 DEF vars, pageVars
<1> QED BY <1>1, <1>2, <1>3, <1>4, <1>6, <1>7, <1>8, <1>9 DEF Next, StreamEnds

\* A message is sent when no generation works, so only one ever does.
LEMMA SubmitKeepsWriter ==
  ASSUME PageInv, StreamInv, WriterInv, Orderly, NEW t \in Turns, Submit(t)
  PROVE  WriterInv'
<1>1. \A u \in Turns : ~Working(u)
  <2> SUFFICES ASSUME NEW u \in Turns, Working(u) PROVE FALSE
    OBVIOUS
  <2>1. ~Pending(u)
    BY DEF Submit, Orderly
  <2>2. Copies(u) = {}
    BY DEF WriterInv
  <2> QED BY <2>1, <2>2 DEF Pending, IsShown, Working
<1>2. /\ UNCHANGED <<save, rows, clock>> /\ turn[t] = "unsent"
      /\ turn' = [turn EXCEPT ![t] = "streaming"]
  BY DEF Submit, versionVars
<1>3. \A u \in Turns : ~Working(u)' /\ Copies(u)' = Copies(u)
  BY <1>1, <1>2 DEF Working, Copies
<1>4. Stamps' = Stamps
  BY <1>2 DEF Stamps
<1>5. \A u \in Turns : turn'[u] \in {"unsent", "streaming"} => save[u].at = "none"
  BY <1>2 DEF WriterInv, StreamInv, TurnStates
<1> QED BY <1>2, <1>3, <1>4, <1>5 DEF WriterInv

\* The versions stay; streams end or the page is loaded anew.
LEMMA QuietKeepsWriter ==
  ASSUME StreamInv, WriterInv, UNCHANGED <<save, rows, clock>>,
         \A u \in Turns : turn'[u] \in {"unsent", "streaming"} => turn'[u] = turn[u],
         \A u \in Turns : Open(u)' => Open(u)
  PROVE  WriterInv'
<1>1. \A u \in Turns : (Working(u) <=> Working(u)') /\ Copies(u)' = Copies(u)
  BY DEF Working, Copies
<1>2. Stamps' = Stamps
  BY DEF Stamps
<1> QED BY <1>1, <1>2 DEF WriterInv

\* A generation starts while no other one works: its message streams.
LEMMA StartsGenerationKeepsWriter ==
  ASSUME PageInv, StreamInv, WriterInv, NEW t \in Turns, StartsGeneration(t)
  PROVE  WriterInv'
<1>1. /\ turn[t] = "streaming" /\ save[t].at = "none" /\ Open(t) /\ Speaks(t)
      /\ turn' = [turn EXCEPT ![t] = "generating"]
      /\ save' = [save EXCEPT ![t].at = "writing"]
      /\ UNCHANGED <<rows, clock>>
  BY DEF StartsGeneration, Generate, Step, Open, Speaks
<1>2. \A u \in Turns : ~Working(u) /\ (u # t => ~Open(u))
  BY <1>1 DEF WriterInv, StreamInv, Open, Speaks
<1>3. /\ \A u \in Turns : ~Open(u)'
      /\ \A u \in Turns : turn'[u] \in {"unsent", "streaming"} => u # t /\ turn'[u] = turn[u]
  BY <1>1, <1>2 DEF Open, StreamInv
<1>4. /\ save'[t].at = "writing" /\ save'[t].stamp = save[t].stamp
      /\ \A u \in Turns : u # t => save'[u] = save[u]
  BY <1>1 DEF PageInv, TypeOK, VersionTypeOK, Generations
<1>5. \A u \in Turns : /\ Working(u)' => u = t
                       /\ Copies(u)' = Copies(u)
                       /\ save'[u].stamp = save[u].stamp
                       /\ save'[u].at \in {"filed", "numbered"} => FALSE
  BY <1>1, <1>2, <1>4 DEF Working, Copies
<1>6. Stamps' = Stamps
  BY <1>1 DEF Stamps
<1>7. \A u \in Turns : (save[u].at = "none" \/ Working(u) => Copies(u) = {})'
  BY <1>1, <1>2, <1>4, <1>5 DEF WriterInv, Working
<1> QED BY <1>1, <1>3, <1>4, <1>5, <1>6, <1>7 DEF WriterInv

\* What the one generation does on the server.
LEMMA ServerKeepsWriter ==
  ASSUME PageInv, VersionTypeOK', StreamInv, WriterInv, Orderly, NEW t \in Turns, Server(t)
  PROVE  WriterInv'
<1>0. /\ UNCHANGED turn /\ \A u \in Turns : Open(u)' = Open(u)
      /\ save \in [Turns -> Generations] /\ \A u \in Turns : save[u] \in Generations
      /\ clock \in Nat /\ Stamps \in SUBSET Nat
      /\ \A u \in Turns : save[u].stamp \in Nat
  BY StampsAreNumbers DEF Server, pageVars, PageInv, TypeOK, VersionTypeOK, Generations, Open
<1>1. \A u \in Turns : save[u].at \notin {"none", "committed", "saved", "failed"}
                         => Working(u)
  BY <1>0 DEF Generations, Working
<1>2. ASSUME save'[t].at \in {"writing", "filed", "numbered", "committed", "saved", "failed"},
             Working(t)' => Working(t),
             \A u \in Turns : u # t => save'[u] = save[u],
             UNCHANGED rows, clock' \in Nat, clock <= clock',
             save'[t].stamp <= clock',
             save[t].at # "none",
             save'[t].at \in {"filed", "numbered"} => \A n \in Stamps : n < save'[t].stamp
      PROVE  WriterInv'
  <2>1. \A u \in Turns : (Working(u)' => Working(u)) /\ Copies(u)' = Copies(u)
    BY <1>2 DEF Working, Copies
  <2>2. Stamps' = Stamps
    BY <1>2 DEF Stamps
  <2>3. \A u \in Turns : (save[u].at = "none")' => save[u].at = "none"
    BY <1>2
  <2>4. \A u \in Turns : turn[u] \in {"unsent", "streaming"} => save'[u].at = "none"
    BY <1>2 DEF WriterInv
  <2>5. \A u \in Turns : save'[u].stamp <= clock'
    BY <1>0, <1>2 DEF WriterInv
  <2>6. \A n \in Stamps : n <= clock'
    BY <1>0, <1>2 DEF WriterInv
  <2> QED BY <1>0, <1>2, <2>1, <2>2, <2>3, <2>4, <2>5, <2>6 DEF WriterInv
<1>3. CASE WriteFile(t)
  <2>1. /\ save[t].at = "writing" /\ clock' = clock + 1 /\ UNCHANGED rows
        /\ save' = [save EXCEPT ![t].at = "filed", ![t].stamp = clock']
    BY <1>3 DEF WriteFile
  <2>2. /\ save'[t].at = "filed" /\ save'[t].stamp = clock + 1
        /\ \A u \in Turns : u # t => save'[u] = save[u]
    BY <1>0, <2>1 DEF Generations
  <2>3. \A n \in Stamps : n < clock + 1
    BY <1>0 DEF WriterInv
  <2> QED BY <1>0, <1>2, <2>1, <2>2, <2>3 DEF Working
<1>4. CASE ReadRevision(t)
  <2>1. /\ save[t].at = "filed" /\ UNCHANGED <<rows, clock>>
        /\ save' = [save EXCEPT ![t].at = "numbered", ![t].rev = NextRevision(save[t].kind)]
    BY <1>4 DEF ReadRevision
  <2>2. /\ save'[t].at = "numbered" /\ save'[t].stamp = save[t].stamp
        /\ \A u \in Turns : u # t => save'[u] = save[u]
    BY <1>0, <2>1 DEF Generations
  <2> QED BY <1>0, <1>2, <2>1, <2>2 DEF Working, WriterInv
<1>5. CASE StoreCheckpoint(t) \/ GenerationFails(t)
  <2>1. /\ save[t].at # "none" /\ UNCHANGED <<rows, clock>>
        /\ save'[t].at \in {"saved", "failed"} /\ save'[t].stamp = save[t].stamp
        /\ \A u \in Turns : u # t => save'[u] = save[u]
    BY <1>0, <1>5 DEF StoreCheckpoint, GenerationFails, Step, Generations
  <2> QED BY <1>0, <1>2, <2>1 DEF Working, WriterInv
<1>6. CASE Commit(t)
  <2>1. /\ save[t].at = "numbered" /\ UNCHANGED clock /\ rows' = rows \cup {Row(t)}
        /\ save' = [save EXCEPT ![t].at = "committed"]
        /\ Row(t).stamp = save[t].stamp /\ Row(t).by = t
    BY <1>6 DEF Commit, Step, Row
  <2>2. /\ save'[t].at = "committed" /\ save'[t].stamp = save[t].stamp
        /\ \A u \in Turns : u # t => save'[u] = save[u]
    BY <1>0, <2>1 DEF Generations
  <2>3. Stamps' = Stamps \cup {save[t].stamp}
    BY <2>1 DEF Stamps
  <2>4. Working(t) /\ \A u \in Turns : ~Working(u)'
    BY <2>1, <2>2 DEF WriterInv, Working
  <2>5. \A u \in Turns : u # t => Copies(u)' = Copies(u)
    BY <2>1 DEF Copies
  <2>6. \A u \in Turns : (save[u].at = "none" \/ Working(u) => Copies(u) = {})'
    BY <2>2, <2>4, <2>5 DEF WriterInv
  <2>7. IsFiniteSet(Stamps)' /\ \A n \in Stamps' : n <= clock
    BY <2>3, FS_AddElement DEF WriterInv
  <2>8. \A u \in Turns : turn[u] \in {"unsent", "streaming"} => save'[u].at = "none"
    BY <2>1, <2>2 DEF WriterInv
  <2>9. \A u \in Turns : save'[u].stamp <= clock /\ save'[u].at \notin {"filed", "numbered"}
    <3>1. \A u \in Turns : save'[u].at \notin {"filed", "numbered"}
      BY <2>4 DEF Working
    <3> QED BY <2>2, <3>1 DEF WriterInv
  <2> QED BY <1>0, <2>1, <2>4, <2>6, <2>7, <2>8, <2>9 DEF WriterInv
<1> QED BY <1>3, <1>4, <1>5, <1>6 DEF Server, Saving, Orderly

LEMMA WriterStep ==
  ASSUME PageInv, VersionTypeOK', StreamInv, WriterInv, Orderly, [Next]_vars
  PROVE  WriterInv'
<1>1. ASSUME UNCHANGED <<turn, versionVars>> PROVE WriterInv'
  BY <1>1, QuietKeepsWriter DEF versionVars, Open
<1>2. ASSUME NEW t \in Turns, AnswerEnds(t) \/ Acknowledged(t) \/ Announced(t) \/ Awaits(t)
      PROVE  WriterInv'
  <2>1. UNCHANGED versionVars
    BY <1>2 DEF AnswerEnds, Acknowledged, Announced, Awaits
  <2>2. /\ \A u \in Turns : turn'[u] \in {"unsent", "streaming"} => turn'[u] = turn[u]
        /\ \A u \in Turns : Open(u)' => Open(u)
    BY <1>2 DEF AnswerEnds, Acknowledged, Announced, Awaits, StreamInv, Open
  <2> QED BY <2>1, <2>2, QuietKeepsWriter DEF versionVars
<1>3. CASE Reload
  <2>1. UNCHANGED versionVars
    BY <1>3 DEF Reload
  <2>2. /\ \A u \in Turns : turn'[u] \in {"unsent", "streaming"} => turn'[u] = turn[u]
        /\ \A u \in Turns : Open(u)' => Open(u)
    BY <1>3 DEF Reload, StreamInv, Open
  <2> QED BY <2>1, <2>2, QuietKeepsWriter DEF versionVars
<1>4. ASSUME NEW t \in Turns,
             \/ PostEnds(t) \/ ResearchTick(t) \/ JobEnds(t) \/ JobLost(t)
             \/ KeepPolling(t) \/ JobSettles(t) \/ ContinueEnds(t)
      PROVE  WriterInv'
  BY <1>1, <1>4 DEF PostEnds, PostRefused, PostLost, PostCreated, ResearchTick, JobEnds,
              JobLost, KeepPolling, JobSettles, EvidenceReady, ResearchFailed, ContinueEnds
<1>5. ASSUME NEW p \in Polls, VersionTick(p) \/ PollVersions(p) \/ PollFails(p) \/ PollApplied(p)
      PROVE  WriterInv'
  BY <1>1, <1>5 DEF VersionTick, PollVersions, PollFails, PollApplied
<1>6. CASE UNCHANGED vars
  BY <1>1, <1>6 DEF vars, pageVars
<1> QED BY <1>2, <1>3, <1>4, <1>5, <1>6, SubmitKeepsWriter, StartsGenerationKeepsWriter,
           ServerKeepsWriter DEF Next, StreamEnds

LEMMA ListingSame == ASSUME UNCHANGED rows PROVE Listing' = Listing
BY DEF Listing, Stamps, Ordered

\* A version that is committed later than every listed one is listed last.
LEMMA ListingStep ==
  ASSUME PageInv, WriterInv, [Next]_vars
  PROVE  Listing' = Listing \/ \E x \in Nat : Listing' = Append(Listing, x)
<1>0. Stamps \in SUBSET Nat /\ IsFiniteSet(Stamps) /\ \A t \in Turns : save[t].stamp \in Nat
  BY StampsAreNumbers DEF PageInv, TypeOK, VersionTypeOK, Generations
<1>1. CASE UNCHANGED rows
  BY <1>1, ListingSame
<1>2. ASSUME NEW t \in Turns, Commit(t), Stamps' = Stamps \cup {save[t].stamp}
      PROVE  Listing' = Append(Listing, save[t].stamp)
  <2>1. \A n \in Stamps : n < save[t].stamp
    BY <1>2 DEF Commit, WriterInv
  <2>2. Ordered(Stamps \cup {save[t].stamp}) = Append(Ordered(Stamps), save[t].stamp)
    BY <1>0, <2>1, OrderedGrows
  <2> QED BY <1>2, <2>2 DEF Listing
<1>3. [VersionNext]_versionVars
  BY PageStepIsVersionStep DEF vars
<1> QED BY <1>0, <1>1, <1>2, <1>3, StampsStep

\* So a part of the list stays what it is when the list grows.
LEMMA ListGrows ==
  ASSUME PageInv, ListInv, UNCHANGED shownVars,
         Listing' = Listing \/ \E x \in Nat : Listing' = Append(Listing, x)
  PROVE  ListInv'
<1>0. Listing \in Seq(Nat) /\ Len(Listing) \in Nat
  BY ListingIsList DEF PageInv, TypeOK
<1>1. CASE Listing' = Listing
  BY <1>1 DEF ListInv, shownVars
<1>2. ASSUME NEW x \in Nat, Listing' = Append(Listing, x) PROVE ListInv'
  <2>1. Len(Listing') = Len(Listing) + 1
    BY <1>0, <1>2, AppendProperties
  <2>2. \A n \in 0..Len(Listing), m \in Nat \ {0} :
          n \in 0..Len(Listing') /\ SubSeq(Listing', m, n) = SubSeq(Listing, m, n)
    BY <1>0, <1>2, <2>1, PartsKept
  <2>3. list.count \in 0..Len(Listing) /\ list.count + 1 \in Nat \ {0} /\ 1 \in Nat \ {0}
    BY <1>0 DEF ListInv
  <2>4. list.shown = SubSeq(Listing', 1, list.count)
    BY <2>2, <2>3 DEF ListInv
  <2>5. ASSUME NEW p \in Polls, polls[p].at = "answered"
        PROVE  \E n \in list.count..Len(Listing') :
                 polls[p].got = SubSeq(Listing', list.count + 1, n)
    <3>1. PICK n \in list.count..Len(Listing) :
            polls[p].got = SubSeq(Listing, list.count + 1, n)
      BY <2>5 DEF ListInv
    <3>2. n \in 0..Len(Listing) /\ n \in list.count..Len(Listing')
      BY <1>0, <2>1, <2>3
    <3> QED BY <2>2, <2>3, <3>1, <3>2
  <2> QED BY <2>2, <2>3, <2>4, <2>5 DEF ListInv, shownVars
<1> QED BY <1>1, <1>2

LEMMA PollKeepsList ==
  ASSUME PageInv, ListInv, Orderly, NEW p \in Polls,
         VersionTick(p) \/ PollVersions(p) \/ PollFails(p) \/ PollApplied(p)
  PROVE  ListInv'
<1> DEFINE P == [at : {"free", "sent", "answered"}, after : Nat, got : Seq(Nat)]
<1>1. UNCHANGED rows /\ Listing' = Listing
  BY ListingSame DEF VersionTick, PollVersions, PollFails, PollApplied, versionVars
<1>2. /\ Listing \in Seq(Nat) /\ Len(Listing) \in Nat /\ Listing' = Listing
      /\ polls \in [Polls -> P] /\ list.count \in 0..Len(Listing)
      /\ list \in [shown : Seq(Nat), count : Nat, timer : BOOLEAN, stopAfter : Nat \cup {None}]
      /\ NoPoll.at = "free"
  BY <1>1, ListingIsList DEF PageInv, TypeOK, NoPoll, ListInv
<1>3. CASE VersionTick(p)
  <2>1. /\ \A q \in Polls : polls[q].at = "free" /\ UNCHANGED list
        /\ polls' = [polls EXCEPT ![p] = [NoPoll EXCEPT !.at = "sent", !.after = list.count]]
    BY <1>3 DEF VersionTick, Orderly
  <2>2. /\ polls'[p].at = "sent" /\ polls'[p].after = list.count
        /\ \A q \in Polls : q # p => polls'[q].at = "free"
    BY <1>2, <2>1 DEF NoPoll
  <2> QED BY <1>2, <2>1, <2>2 DEF ListInv
<1>4. CASE PollVersions(p)
  <2>1. /\ polls[p].at = "sent" /\ UNCHANGED list
        /\ polls' = [polls EXCEPT ![p].at = "answered",
                       ![p].got = SubSeq(Listing, polls[p].after + 1, Len(Listing))]
    BY <1>4 DEF PollVersions
  <2>2. /\ polls'[p].at = "answered" /\ polls'[p].after = list.count
        /\ polls'[p].got = SubSeq(Listing, list.count + 1, Len(Listing))
        /\ \A q \in Polls : q # p => polls'[q] = polls[q] /\ polls[q].at = "free"
    BY <1>2, <2>1 DEF ListInv
  <2>3. Len(Listing) \in list.count..Len(Listing)
    BY <1>2
  <2> QED BY <1>2, <2>1, <2>2, <2>3 DEF ListInv
<1>5. CASE PollFails(p)
  <2>1. /\ UNCHANGED list /\ polls' = [polls EXCEPT ![p] = NoPoll]
    BY <1>5 DEF PollFails
  <2>2. polls'[p].at = "free" /\ \A q \in Polls : q # p => polls'[q] = polls[q]
    BY <1>2, <2>1
  <2> QED BY <1>2, <2>1, <2>2 DEF ListInv
<1>6. CASE PollApplied(p)
  <2>1. /\ polls[p].at = "answered" /\ polls' = [polls EXCEPT ![p] = NoPoll]
        /\ list'.shown = list.shown \o polls[p].got
        /\ list'.count = polls[p].after + Len(polls[p].got)
    BY <1>6 DEF PollApplied
  <2>2. PICK n \in list.count..Len(Listing) :
          polls[p].got = SubSeq(Listing, list.count + 1, n)
    BY <2>1 DEF ListInv
  <2>3. n \in 0..Len(Listing) /\ list.count \in 0..n
    BY <1>2
  <2>4. Len(polls[p].got) = n - list.count
    BY <1>2, <2>2, <2>3, PartLength
  <2>5. SubSeq(Listing, 1, list.count) \o SubSeq(Listing, list.count + 1, n) = SubSeq(Listing, 1, n)
    BY <1>2, <2>3, PartsJoin
  <2>6. /\ Len(polls[p].got) = n - list.count /\ polls[p].after = list.count
        /\ list.shown \o polls[p].got = SubSeq(Listing, 1, n)
    BY <2>1, <2>2, <2>4, <2>5 DEF ListInv
  <2>7. list'.count = n /\ list'.shown = SubSeq(Listing, 1, n)
    BY <1>2, <2>1, <2>3, <2>6
  <2>8. \A q \in Polls : polls'[q].at = "free"
    BY <1>2, <2>1 DEF ListInv
  <2> QED BY <1>2, <2>3, <2>7, <2>8 DEF ListInv
<1> QED BY <1>3, <1>4, <1>5, <1>6

LEMMA ReloadKeepsList == ASSUME PageInv, ListInv, Reload PROVE ListInv'
<1>1. Listing \in Seq(Nat) /\ Len(Listing) \in Nat /\ Listing' = Listing
  BY ListingIsList, ListingSame DEF PageInv, TypeOK, Reload, versionVars
<1>2. /\ list'.shown = Listing /\ list'.count = Len(Listing)
      /\ \A p \in Polls : polls'[p].at = "free"
  BY DEF Reload, NoPoll
<1>3. Len(Listing) \in 0..Len(Listing) /\ SubSeq(Listing, 1, Len(Listing)) = Listing
  BY <1>1, SubSeqFull
<1> QED BY <1>1, <1>2, <1>3 DEF ListInv

LEMMA ListStep ==
  ASSUME PageInv, StreamInv, WriterInv, ListInv, Orderly, [Next]_vars
  PROVE  ListInv'
<1>1. ASSUME UNCHANGED shownVars PROVE ListInv'
  BY <1>1, ListingStep, ListGrows
<1>2. ASSUME NEW t \in Turns,
             \/ Submit(t) \/ AnswerEnds(t) \/ StartsGeneration(t) \/ Announced(t)
             \/ Awaits(t) \/ PostEnds(t) \/ ResearchTick(t) \/ JobEnds(t) \/ JobLost(t)
             \/ KeepPolling(t) \/ JobSettles(t) \/ ContinueEnds(t) \/ Server(t)
      PROVE  ListInv'
  BY <1>1, <1>2 DEF shownVars, Submit, AnswerEnds, StartsGeneration, Announced, Awaits,
              PostEnds, PostRefused, PostLost, PostCreated, ResearchTick, JobEnds, JobLost,
              KeepPolling, JobSettles, EvidenceReady, ResearchFailed, ContinueEnds, Server, pageVars
<1>3. ASSUME NEW t \in Turns, Acknowledged(t) PROVE ListInv'
  <2>1. /\ list'.shown = list.shown /\ list'.count = list.count
        /\ UNCHANGED <<polls, rows>>
    BY <1>3 DEF Acknowledged, versionVars, PageInv, TypeOK
  <2>2. Listing' = Listing
    BY <2>1, ListingSame
  <2> QED BY <2>1, <2>2 DEF ListInv
<1>4. CASE UNCHANGED vars
  BY <1>1, <1>4 DEF vars, pageVars, shownVars
<1> QED BY <1>2, <1>3, <1>4, PollKeepsList, ReloadKeepsList DEF Next, StreamEnds

LEMMA OrderInit == ASSUME Init, PageInv PROVE StreamInv /\ WriterInv /\ ListInv
<1>1. StreamInv
  BY DEF Init, StreamInv, Free, TurnStates, Speaks
<1>2. Stamps = {} /\ \A t \in Turns : Copies(t) = {} /\ save[t].at = "none" /\ save[t].stamp = 0
  BY DEF Init, VersionInit, Stamps, Copies
<1>3. WriterInv
  BY <1>2 DEF Init, VersionInit, WriterInv, Working, PageInv
<1>4. Listing \in Seq(Nat) /\ Len(Listing) \in Nat /\ SubSeq(Listing, 1, 0) = <<>>
  <2>1. 1 \in Int /\ 0 \in Int /\ 0 < 1
    OBVIOUS
  <2>2. Listing \in Seq(Nat) /\ Len(Listing) \in Nat
    <3>1. VersionTypeOK /\ IsFiniteSet(Stamps) /\ 0 \in Nat
      BY DEF PageInv, TypeOK
    <3> QED BY <3>1, ListingIsList
  <2>3. SubSeq(Listing, 1, 0) = <<>>
    BY <2>1, SubSeqEmpty
  <2> QED BY <2>2, <2>3
<1>5. ListInv
  BY <1>4 DEF Init, ListInv, NoPoll
<1> QED BY <1>1, <1>3, <1>5

\* The page shows the versions once and in order, as far as its count goes
\* (pollVersions in _chat_center.html, poll_versions in manuscripts.py): for any
\* number of messages and polls, unless polls or generations overlap.
THEOREM ListInOrder == Spec => []ListIsInOrder
<1> DEFINE Inv == Orderly => StreamInv /\ WriterInv /\ ListInv
<1>1. Init /\ PageInv => Inv
  BY OrderInit
<1>2. PageInv /\ VersionTypeOK' /\ Inv /\ [Next]_vars => Inv'
  <2> SUFFICES ASSUME PageInv, VersionTypeOK', Inv, [Next]_vars, Orderly'
               PROVE  StreamInv' /\ WriterInv' /\ ListInv'
    OBVIOUS
  <2>1. Orderly
    BY EnvironmentStays DEF Orderly
  <2> QED BY <2>1, StreamStep, WriterStep, ListStep
<1>3. PageInv /\ Inv => ListIsInOrder
  <2> SUFFICES ASSUME PageInv, ListInv
               PROVE  list.count = Len(list.shown) /\ IsPrefix(list.shown, Listing)
    BY DEF ListIsInOrder, Orderly
  <2>1. Listing \in Seq(Nat) /\ Len(Listing) \in Nat /\ list.count \in 0..Len(Listing)
        /\ list.shown = SubSeq(Listing, 1, list.count)
    BY ListingIsList DEF PageInv, TypeOK, ListInv
  <2>2. SubSeq(Listing, 1, list.count) \in Seq(Nat) /\ Len(list.shown) = list.count
    <3>1. 0 \in 0..list.count /\ 0 + 1 = 1 /\ list.count - 0 = list.count
      BY <2>1
    <3> QED BY <2>1, <3>1, PartLength
  <2>3. SubSeq(list.shown, 1, Len(list.shown)) = list.shown
    BY <2>1, <2>2, SubSeqFull
  <2> QED BY <2>1, <2>2, <2>3 DEF IsPrefix
<1> QED BY <1>1, <1>2, <1>3, PageInvHolds, VersionTypesHold, PTL DEF Spec
=============================================================================
