-------------------------- MODULE ChatThread_proofs --------------------------
(***************************************************************************)
(* Proofs about ChatThread, for any number of turns.                        *)
(*                                                                         *)
(* Whatever the client does, runs overwrite each other's checkpoints, so    *)
(* nothing can be said about which turn the newest checkpoint belongs to.   *)
(* What survives is that each checkpoint is consistent in itself, because a *)
(* run always stores one whole copy: IInv says so of the thread and of      *)
(* every copy in a run.  The second half is about the client that has one   *)
(* request in progress at a time.                                           *)
(***************************************************************************)
EXTENDS ChatThread, FiniteSetTheorems, TLAPS

USE DEF Places, Over

\* A checkpoint's pending node, action, paper and attempts belong together.
Coherent(s) ==
  /\ s.next # "end" => s.message # None
  /\ s.next = "router" => s.paper = "none" /\ s.attempts = 0
  /\ s.next = "outline" => s.action = "outline" /\ s.paper = "none"
  /\ s.next = "generate" => /\ s.action = "generate_document"
                            /\ s.paper \in {"none", "short"}
                            /\ s.attempts < MaxAttempts
  /\ s.next \in Speaking => s.paper = "none"
  /\ s.next = "save_new_paper" => s.paper # "none"
  /\ s.paper # "none" =>
       /\ s.action \in DocumentActions
       /\ s.paper = "outline" <=> s.action = "outline"
  /\ s.paper = "short" => s.next = "generate" \/ s.attempts = MaxAttempts

Owned(m, e) == e \in {None, m} \cup {target[c] : c \in Continues}

SaneState(s) == s \in GraphStates /\ Coherent(s) /\ Owned(s.message, s.evidence)

RunsOK ==
  /\ SaneState(thread)
  /\ state \in [Requests -> GraphStates]
  /\ \A r \in Requests : SaneState(state[r])
  /\ reply \in [Requests -> Replies \cup {None}]
  /\ \A r \in Requests : reply[r] # None => Owned(reply[r].message, reply[r].evidence)

ControlOK ==
  /\ pc \in [Requests -> Places]
  /\ action \in [Turns -> Actions \cup {None}]
  /\ target \in [Continues -> Turns \cup {None}]
  /\ job \in [Turns -> {"none", "open", "ready", "over"}]
  /\ \A c \in Continues : pc[c] = "idle" => target[c] = None

LogOK ==
  /\ log \in Seq(Entries)
  /\ \A i \in DOMAIN log : Owned(log[i].message, log[i].evidence)

VersionsOK ==
  /\ versions \in Seq(Versions)
  /\ PaperWasRequested
  /\ ShortOnlyAfterAllAttempts

RouterPending ==
  \A t \in Turns : pc[t] \in {"loaded", "routing"} => state[t].next = "router"

IInv == RunsOK /\ ControlOK /\ LogOK /\ VersionsOK /\ RouterPending
-----------------------------------------------------------------------------
(***************************************************************************)
(* What the nodes make of one checkpoint                                    *)
(***************************************************************************)
LEMMA NewThreadOK ==
  /\ NewThread \in GraphStates /\ Coherent(NewThread)
  /\ Owned(NewThread.message, NewThread.evidence)
<1>1. NewThread \in GraphStates
  BY ConstantsOK DEF NewThread, GraphStates, Nodes, Papers
<1>2. Coherent(NewThread)
  BY DEF NewThread, Coherent, Speaking
<1>3. Owned(NewThread.message, NewThread.evidence)
  BY DEF NewThread, Owned
<1> QED BY <1>1, <1>2, <1>3

LEMMA TurnStateOK ==
  ASSUME NEW s \in GraphStates, NEW t \in Turns, NEW e \in {t, None}
  PROVE  /\ TurnState(s, t, e) \in GraphStates
         /\ Coherent(TurnState(s, t, e))
         /\ Owned(TurnState(s, t, e).message, TurnState(s, t, e).evidence)
<1> DEFINE u == TurnState(s, t, e)
<1>1. u \in GraphStates
  <2>1. s.humans \cup {t} \in SUBSET Turns
    BY DEF GraphStates
  <2>2. "router" \in Nodes /\ "none" \in Papers /\ 0 \in 0..MaxAttempts /\ 0 \in Nat
    BY ConstantsOK DEF Nodes, Papers
  <2>3. e \in Turns \cup {None}
    OBVIOUS
  <2> QED BY <2>1, <2>2, <2>3 DEF TurnState, GraphStates
<1>2. /\ u.next = "router" /\ u.message = t /\ u.evidence = e
      /\ u.paper = "none" /\ u.attempts = 0
  BY DEF TurnState, GraphStates
<1>3. t # None
  BY ConstantsOK DEF Requests
<1> HIDE DEF u
<1>4. Coherent(u)
  BY <1>2, <1>3 DEF Coherent, Speaking
<1>5. Owned(u.message, u.evidence)
  BY <1>2 DEF Owned
<1> QED BY <1>1, <1>4, <1>5 DEF u

LEMMA DecisionsOK ==
  ASSUME NEW s, NEW a \in Decisions(s)
  PROVE  a \in Actions
BY DEF Decisions, Actions, DocumentActions

LEMMA NodeOfOK ==
  ASSUME NEW a \in Actions
  PROVE  /\ NodeOf[a] \in Nodes \ {"end", "router", "chinese_prevent", "save_new_paper"}
         /\ NodeOf[a] = "outline" => a = "outline"
         /\ NodeOf[a] = "generate" => a = "generate_document"
BY DEF Actions, DocumentActions, NodeOf, Nodes

LEMMA RoutedOK ==
  ASSUME NEW s \in GraphStates, Coherent(s), s.next = "router", NEW a \in Actions
  PROVE  /\ Routed(s, a) \in GraphStates /\ Coherent(Routed(s, a))
         /\ Routed(s, a).message = s.message /\ Routed(s, a).evidence = s.evidence
<1> DEFINE u == Routed(s, a)
<1>1. /\ NodeOf[a] \in Nodes
      /\ NodeOf[a] # "end" /\ NodeOf[a] # "router" /\ NodeOf[a] # "save_new_paper"
      /\ NodeOf[a] = "outline" => a = "outline"
      /\ NodeOf[a] = "generate" => a = "generate_document"
  BY NodeOfOK
<1>2. u \in GraphStates
  BY <1>1 DEF Routed, GraphStates
<1>3. /\ u.next = NodeOf[a] /\ u.action = a /\ u.paper = s.paper
      /\ u.attempts = s.attempts /\ u.message = s.message /\ u.evidence = s.evidence
  BY DEF Routed, GraphStates
<1>4. s.message # None /\ s.paper = "none" /\ s.attempts = 0
  BY DEF Coherent
<1> HIDE DEF u
<1>5. 0 < MaxAttempts
  BY ConstantsOK
<1>6. Coherent(u)
  BY <1>1, <1>3, <1>4, <1>5 DEF Coherent, Speaking
<1> QED BY <1>2, <1>3, <1>6 DEF u

LEMMA ReplyNodeOK ==
  ASSUME NEW s, SaneState(s), s.next \in Speaking, NEW n \in {"end", "chinese_prevent"}
  PROVE  SaneState([s EXCEPT !.answered = @ \cup {s.message}, !.next = n])
<1> DEFINE u == [s EXCEPT !.answered = @ \cup {s.message}, !.next = n]
<1>1. s \in GraphStates /\ s.message # None /\ s.paper = "none"
  BY DEF SaneState, Coherent, Speaking
<1>2. s.answered \cup {s.message} \in SUBSET Turns
  BY <1>1 DEF GraphStates
<1>3. n \in Nodes
  BY DEF Nodes
<1>4. u \in GraphStates
  BY <1>1, <1>2, <1>3 DEF GraphStates
<1>5. /\ u.next = n /\ u.action = s.action /\ u.paper = s.paper
      /\ u.attempts = s.attempts /\ u.message = s.message /\ u.evidence = s.evidence
  BY <1>1 DEF GraphStates
<1> HIDE DEF u
<1>6. Coherent(u)
  BY <1>1, <1>5 DEF Coherent, Speaking
<1>7. Owned(u.message, u.evidence)
  BY <1>5 DEF SaneState
<1> QED BY <1>4, <1>6, <1>7 DEF SaneState, u

LEMMA OutlineNodeOK ==
  ASSUME NEW s, SaneState(s), s.next = "outline"
  PROVE  SaneState([s EXCEPT !.paper = "outline", !.next = "chinese_prevent"])
<1> DEFINE u == [s EXCEPT !.paper = "outline", !.next = "chinese_prevent"]
<1>1. s \in GraphStates /\ s.message # None /\ s.action = "outline"
  BY DEF SaneState, Coherent
<1>2. u \in GraphStates
  BY <1>1 DEF GraphStates, Nodes, Papers
<1>3. /\ u.next = "chinese_prevent" /\ u.action = s.action /\ u.paper = "outline"
      /\ u.message = s.message /\ u.evidence = s.evidence
  BY <1>1 DEF GraphStates
<1> HIDE DEF u
<1>4. Coherent(u)
  BY <1>1, <1>3 DEF Coherent, Speaking, DocumentActions
<1>5. Owned(u.message, u.evidence)
  BY <1>3 DEF SaneState
<1> QED BY <1>2, <1>4, <1>5 DEF SaneState, u

LEMMA GenerateNodeOK ==
  ASSUME NEW s, SaneState(s), s.next = "generate", NEW p \in {"document", "short"}
  PROVE  SaneState([s EXCEPT !.paper = p, !.attempts = s.attempts + 1,
                             !.next = IF TryAgain(p, s.attempts + 1) THEN "generate"
                                      ELSE "chinese_prevent"])
<1> DEFINE n == IF TryAgain(p, s.attempts + 1) THEN "generate" ELSE "chinese_prevent"
           u == [s EXCEPT !.paper = p, !.attempts = s.attempts + 1, !.next = n]
<1>1. /\ s \in GraphStates /\ s.message # None
      /\ s.action = "generate_document" /\ s.attempts < MaxAttempts
  BY DEF SaneState, Coherent
<1>2. s.attempts + 1 \in 0..MaxAttempts /\ n \in Nodes /\ p \in Papers
  BY <1>1, ConstantsOK DEF GraphStates, Nodes, Papers
<1>3. n = "generate" => p = "short" /\ s.attempts + 1 < MaxAttempts
  BY DEF TryAgain
<1>4. n = "chinese_prevent" => p = "document" \/ s.attempts + 1 = MaxAttempts
  BY <1>1, <1>2, ConstantsOK DEF TryAgain, GraphStates
<1>5. n \in {"generate", "chinese_prevent"}
  OBVIOUS
<1> HIDE DEF n
<1>6. u \in GraphStates
  BY <1>1, <1>2 DEF GraphStates
<1>7. /\ u.next = n /\ u.action = s.action /\ u.paper = p /\ u.attempts = s.attempts + 1
      /\ u.message = s.message /\ u.evidence = s.evidence
  BY <1>1 DEF GraphStates
<1> HIDE DEF u
<1>8. Coherent(u)
  BY <1>1, <1>3, <1>4, <1>5, <1>7 DEF Coherent, Speaking, DocumentActions
<1>9. Owned(u.message, u.evidence)
  BY <1>7 DEF SaneState
<1> QED BY <1>6, <1>8, <1>9 DEF SaneState, u, n

LEMMA PreventNodeOK ==
  ASSUME NEW s, SaneState(s), s.next = "chinese_prevent"
  PROVE  SaneState([s EXCEPT !.next = IF s.paper = "none" THEN "end"
                                      ELSE "save_new_paper"])
<1> DEFINE n == IF s.paper = "none" THEN "end" ELSE "save_new_paper"
           u == [s EXCEPT !.next = n]
<1>1. s \in GraphStates /\ s.message # None
  BY DEF SaneState, Coherent
<1>2. n \in Nodes /\ n \in {"end", "save_new_paper"} /\ (n = "save_new_paper" => s.paper # "none")
  BY DEF Nodes
<1> HIDE DEF n
<1>3. u \in GraphStates
  BY <1>1, <1>2 DEF GraphStates
<1>4. /\ u.next = n /\ u.action = s.action /\ u.paper = s.paper
      /\ u.attempts = s.attempts /\ u.message = s.message /\ u.evidence = s.evidence
  BY <1>1 DEF GraphStates
<1> HIDE DEF u
<1>5. Coherent(u)
  BY <1>1, <1>2, <1>4 DEF Coherent, Speaking, SaneState
<1>6. Owned(u.message, u.evidence)
  BY <1>4 DEF SaneState
<1> QED BY <1>3, <1>5, <1>6 DEF SaneState, u, n

LEMMA SaveNodeOK ==
  ASSUME NEW s, SaneState(s), s.next = "save_new_paper", NEW v \in Nat
  PROVE  SaneState([s EXCEPT !.version = v, !.next = "evaluate_document",
                             !.answered = @ \cup {s.message}])
<1> DEFINE u == [s EXCEPT !.version = v, !.next = "evaluate_document",
                          !.answered = @ \cup {s.message}]
<1>1. s \in GraphStates /\ s.message # None
  BY DEF SaneState, Coherent
<1>2. s.answered \cup {s.message} \in SUBSET Turns /\ "evaluate_document" \in Nodes
  BY <1>1 DEF GraphStates, Nodes
<1>3. u \in GraphStates
  BY <1>1, <1>2 DEF GraphStates
<1>4. /\ u.next = "evaluate_document" /\ u.action = s.action /\ u.paper = s.paper
      /\ u.attempts = s.attempts /\ u.message = s.message /\ u.evidence = s.evidence
  BY <1>1 DEF GraphStates
<1> HIDE DEF u
<1>5. Coherent(u)
  BY <1>1, <1>4 DEF Coherent, Speaking, SaneState
<1>6. Owned(u.message, u.evidence)
  BY <1>4 DEF SaneState
<1> QED BY <1>3, <1>5, <1>6 DEF SaneState, u

LEMMA EvaluateNodeOK ==
  ASSUME NEW s, SaneState(s), s.next = "evaluate_document"
  PROVE  SaneState([s EXCEPT !.next = "end"])
<1> DEFINE u == [s EXCEPT !.next = "end"]
<1>1. s \in GraphStates
  BY DEF SaneState
<1>2. u \in GraphStates
  BY <1>1 DEF GraphStates, Nodes
<1>3. /\ u.next = "end" /\ u.action = s.action /\ u.paper = s.paper
      /\ u.attempts = s.attempts /\ u.message = s.message /\ u.evidence = s.evidence
  BY <1>1 DEF GraphStates
<1> HIDE DEF u
<1>4. Coherent(u)
  BY <1>3 DEF Coherent, Speaking, SaneState
<1>5. Owned(u.message, u.evidence)
  BY <1>3 DEF SaneState
<1> QED BY <1>2, <1>4, <1>5 DEF SaneState, u
-----------------------------------------------------------------------------
(***************************************************************************)
(* What the actions make of the invariant                                   *)
(***************************************************************************)
\* A request moves on; a continue call that has begun does not become idle.
LEMMA GoOK ==
  ASSUME IInv, NEW r \in Requests,
         NEW w \in Places \ {"idle"}, Go(r, w), UNCHANGED <<action, target, job>>
  PROVE  ControlOK'
BY DEF IInv, ControlOK, Go

LEMMA LogKept ==
  ASSUME IInv, UNCHANGED <<log, target>>
  PROVE  LogOK'
BY DEF IInv, LogOK, Owned

LEMMA LogWritten ==
  ASSUME IInv, UNCHANGED target,
         NEW role \in {"user", "ack", "assistant"}, NEW r \in Requests,
         NEW m \in Turns, NEW e \in Turns \cup {None}, Owned(m, e),
         Write(role, r, m, e)
  PROVE  LogOK'
<1> DEFINE x == [role |-> role, by |-> r, message |-> m, evidence |-> e]
<1>1. x \in Entries
  BY DEF Entries
<1>2. log \in Seq(Entries) /\ log' = Append(log, x)
  BY DEF IInv, LogOK, Write
<1>3. log' \in Seq(Entries)
  BY <1>1, <1>2
<1>4. ASSUME NEW i \in DOMAIN log'
      PROVE  Owned(log'[i].message, log'[i].evidence)
  <2>1. i = Len(log) + 1 \/ (i \in DOMAIN log /\ log'[i] = log[i])
    BY <1>2
  <2>2. CASE i = Len(log) + 1
    BY <1>2, <2>2
  <2>3. CASE i \in DOMAIN log /\ log'[i] = log[i]
    BY <2>3 DEF IInv, LogOK
  <2> QED BY <2>1, <2>2, <2>3
<1> QED BY <1>3, <1>4 DEF LogOK, Owned

LEMMA VersionsKept ==
  ASSUME IInv, UNCHANGED versions
  PROVE  VersionsOK'
BY DEF IInv, VersionsOK, PaperWasRequested, ShortOnlyAfterAllAttempts

\* A row that is committed, whether or not its node comes through.
LEMMA CommitOK ==
  ASSUME IInv, NEW s, SaneState(s), s.next = "save_new_paper", NEW torn \in BOOLEAN,
         CommitVersion(s, torn)
  PROVE  VersionsOK'
<1> DEFINE x == [message |-> s.message, action |-> s.action, paper |-> s.paper,
                 attempts |-> s.attempts, evaluated |-> FALSE, torn |-> torn]
<1>1. versions \in Seq(Versions) /\ versions' = Append(versions, x)
  BY DEF IInv, VersionsOK, CommitVersion
<1>2. /\ s \in GraphStates
      /\ s.message \in Turns /\ s.paper # "none" /\ s.action \in DocumentActions
      /\ s.paper = "outline" <=> s.action = "outline"
      /\ s.paper = "short" => s.attempts = MaxAttempts
  BY DEF SaneState, Coherent, GraphStates
<1>3. x \in Versions
  BY <1>2 DEF GraphStates, Versions, Actions
<1>4. versions' \in Seq(Versions)
  BY <1>1, <1>3
<1>5. \A i \in DOMAIN versions' :
        versions'[i] = x \/ (i \in DOMAIN versions /\ versions'[i] = versions[i])
  BY <1>1
<1> QED BY <1>2, <1>4, <1>5 DEF IInv, VersionsOK, PaperWasRequested, ShortOnlyAfterAllAttempts

\* One run's copy, or the thread, is replaced by a sane one.
LEMMA CopyOK ==
  ASSUME IInv, UNCHANGED <<target, reply>>, NEW r \in Requests,
         NEW s, SaneState(s), state' = [state EXCEPT ![r] = s],
         thread' = thread \/ thread' = s
  PROVE  RunsOK'
<1>1. /\ \A u : SaneState(u) => u \in GraphStates /\ Coherent(u) /\ Owned(u.message, u.evidence)'
  BY DEF SaneState, Owned
<1>2. state' \in [Requests -> GraphStates]
  BY <1>1 DEF IInv, RunsOK
<1>3. \A q \in Requests : SaneState(state'[q])
  BY <1>2 DEF IInv, RunsOK
<1>4. SaneState(thread')
  BY DEF IInv, RunsOK
<1>5. /\ \A q \in Requests : SaneState(state[q])'
      /\ SaneState(thread)'
  BY <1>3, <1>4 DEF SaneState, Owned
<1> QED BY <1>2, <1>5 DEF IInv, RunsOK, Owned

\* The request ends and its locals are dropped.
LEMMA EndOK ==
  ASSUME IInv, UNCHANGED <<thread, action, target, job>>, NEW r \in Requests,
         NEW how \in Over, End(r, how)
  PROVE  RunsOK' /\ ControlOK' /\ RouterPending'
<1>1. ControlOK'
  BY GoOK DEF End
<1>2. SaneState(NewThread)
  BY NewThreadOK DEF SaneState
<1>3. state' = [state EXCEPT ![r] = NewThread] /\ reply' = [reply EXCEPT ![r] = None]
  BY DEF End
<1>4. state' \in [Requests -> GraphStates]
  BY <1>2, <1>3 DEF IInv, RunsOK, SaneState
<1>5. \A q \in Requests : SaneState(state'[q])
  BY <1>2, <1>3, <1>4 DEF IInv, RunsOK
<1>6. /\ \A q \in Requests : SaneState(state[q])'
      /\ SaneState(thread)'
  BY <1>5 DEF IInv, RunsOK, SaneState, Owned
<1>7. /\ reply' \in [Requests -> Replies \cup {None}]
      /\ \A q \in Requests : reply'[q] # None => reply'[q] = reply[q]
  BY <1>3 DEF IInv, RunsOK
<1>8. \A q \in Requests : reply'[q] # None => Owned(reply[q].message, reply[q].evidence)'
  BY <1>7 DEF IInv, RunsOK, Owned
<1>9. RouterPending'
  BY <1>3 DEF IInv, RunsOK, ControlOK, RouterPending, End, Go, Requests
<1> QED BY <1>1, <1>4, <1>6, <1>7, <1>8, <1>9 DEF RunsOK

\* Every node of a graph run keeps the invariant.
LEMMA NodeStep ==
  ASSUME IInv, NEW r \in Requests, RunNode(r)
  PROVE  IInv'
<1> DEFINE s == state[r]
<1>1. /\ SaneState(s) /\ SaneState(thread)
      /\ s \in GraphStates /\ state \in [Requests -> GraphStates]
  BY DEF IInv, RunsOK, SaneState
<1>2. ASSUME NEW u, SaneState(u), Store(r, u)
      PROVE  ControlOK' /\ LogOK' /\ RouterPending' /\ (UNCHANGED reply => RunsOK')
  <2>1. ControlOK'
    BY <1>2 DEF IInv, ControlOK, Store
  <2>2. LogOK'
    BY <1>2, LogKept DEF Store
  <2>3. ASSUME UNCHANGED reply PROVE RunsOK'
    BY <1>2, <2>3, CopyOK DEF Store
  <2>4. pc[r] = "running"
    BY DEF RunNode, RunRouter, RunReply, RunOutline, RunGenerate, RunChinesePrevent,
           RunSave, RunEvaluate, At
  <2>5. RouterPending'
    BY <1>1, <1>2, <2>4 DEF IInv, RouterPending, Store, Requests
  <2> QED BY <2>1, <2>2, <2>3, <2>5
<1>3. CASE RunRouter(r)
  <2>1. PICK a \in Decisions(s) : Store(r, Routed(s, a))
    BY <1>3 DEF RunRouter
  <2>2. a \in Actions /\ s.next = "router"
    BY <1>3, DecisionsOK DEF RunRouter, At
  <2>3. SaneState(Routed(s, a))
    BY <1>1, <2>2, RoutedOK DEF SaneState
  <2> QED BY <1>2, <1>3, <2>1, <2>3, VersionsKept DEF RunRouter, IInv
<1>4. CASE RunReply(r)
  <2> DEFINE n == IF s.next = "reject_documentation" THEN "end" ELSE "chinese_prevent"
             u == [s EXCEPT !.answered = @ \cup {s.message}, !.next = n]
             e == IF s.next \in {"converse", "feedback"} THEN s.evidence ELSE None
             x == [message |-> s.message, evidence |-> e]
  <2>1. s.next \in Speaking /\ Store(r, u) /\ UNCHANGED versions
    BY <1>4 DEF RunReply
  <2>2. SaneState(u)
    BY <1>1, <2>1, ReplyNodeOK
  <2>3. s.message \in Turns
    BY <1>1, <2>1 DEF SaneState, Coherent, Speaking, GraphStates
  <2>4. x \in Replies /\ Owned(x.message, x.evidence)
    BY <1>1, <2>3 DEF SaneState, GraphStates, Replies, Owned
  <2>5. reply' = reply \/ reply' = [reply EXCEPT ![r] = x]
    BY <1>4 DEF RunReply
  <2>6. CASE reply' = reply
    BY <1>2, <2>1, <2>2, <2>6, VersionsKept DEF IInv
  <2>7. CASE reply' = [reply EXCEPT ![r] = x]
    <3> HIDE DEF u, x
    <3>1. state' = [state EXCEPT ![r] = u] /\ thread' = u /\ UNCHANGED target
      BY <2>1 DEF Store
    <3>2. state' \in [Requests -> GraphStates] /\ \A q \in Requests : SaneState(state'[q])
      BY <1>1, <2>2, <3>1 DEF SaneState, IInv, RunsOK
    <3>3. SaneState(thread)' /\ \A q \in Requests : SaneState(state[q])'
      BY <2>2, <3>1, <3>2 DEF SaneState, Owned
    <3>4. reply' \in [Requests -> Replies \cup {None}]
      BY <2>4, <2>7 DEF IInv, RunsOK
    <3>5. \A q \in Requests : reply'[q] # None => Owned(reply'[q].message, reply'[q].evidence)
      BY <2>4, <2>7 DEF IInv, RunsOK
    <3>6. \A q \in Requests : reply'[q] # None => Owned(reply[q].message, reply[q].evidence)'
      BY <3>1, <3>5 DEF Owned
    <3>7. RunsOK'
      BY <3>2, <3>3, <3>4, <3>6 DEF RunsOK
    <3> QED BY <1>2, <2>1, <2>2, <3>7, VersionsKept DEF IInv
  <2> QED BY <2>5, <2>6, <2>7
<1>5. CASE RunOutline(r)
  BY <1>1, <1>2, <1>5, OutlineNodeOK, VersionsKept DEF RunOutline, At, IInv
<1>6. CASE RunGenerate(r)
  <2>1. PICK p \in {"document", "short"} :
          Store(r, [s EXCEPT !.paper = p, !.attempts = s.attempts + 1,
                             !.next = IF TryAgain(p, s.attempts + 1) THEN "generate"
                                      ELSE "chinese_prevent"])
    BY <1>6 DEF RunGenerate
  <2>2. SaneState([s EXCEPT !.paper = p, !.attempts = s.attempts + 1,
                            !.next = IF TryAgain(p, s.attempts + 1) THEN "generate"
                                     ELSE "chinese_prevent"])
    BY <1>1, <1>6, GenerateNodeOK DEF RunGenerate, At
  <2> QED BY <1>2, <1>6, <2>1, <2>2, VersionsKept DEF RunGenerate, IInv
<1>7. CASE RunChinesePrevent(r)
  BY <1>1, <1>2, <1>7, PreventNodeOK, VersionsKept DEF RunChinesePrevent, At, IInv
<1>8. CASE RunSave(r)
  <2> DEFINE u == [s EXCEPT !.version = Len(versions) + 1, !.next = "evaluate_document",
                            !.answered = @ \cup {s.message}]
  <2>1. s.next = "save_new_paper" /\ CommitVersion(s, FALSE) /\ Store(r, u)
        /\ UNCHANGED reply
    BY <1>8 DEF RunSave, At
  <2>2. versions \in Seq(Versions)
    BY DEF IInv, VersionsOK
  <2>3. SaneState(u)
    <3>1. Len(versions) + 1 \in Nat
      BY <2>2
    <3> QED BY <1>1, <2>1, <3>1, SaveNodeOK
  <2>4. VersionsOK'
    BY <1>1, <2>1, CommitOK
  <2> HIDE DEF u
  <2> QED BY <1>2, <2>1, <2>3, <2>4 DEF IInv
<1>9. CASE RunEvaluate(r)
  <2>1. Store(r, [s EXCEPT !.next = "end"]) /\ s.next = "evaluate_document" /\ UNCHANGED reply
    BY <1>9 DEF RunEvaluate, At
  <2>2. SaneState([s EXCEPT !.next = "end"])
    BY <1>1, <2>1, EvaluateNodeOK
  <2>3. VersionsOK'
    <3>1. CASE UNCHANGED versions
      BY <3>1, VersionsKept
    <3>2. CASE versions' = [versions EXCEPT ![s.version].evaluated = TRUE]
      <4>1. versions \in Seq(Versions)
        BY DEF IInv, VersionsOK
      <4>2. PICK n \in Nat : versions \in [1..n -> Versions]
        BY <4>1
      <4>3. versions' \in [1..n -> Versions]
        BY <3>2, <4>2 DEF Versions
      <4>4. versions' \in Seq(Versions)
        BY <4>3
      <4>5. \A i \in DOMAIN versions' : /\ i \in DOMAIN versions
                                        /\ versions'[i].action = versions[i].action
                                        /\ versions'[i].paper = versions[i].paper
                                        /\ versions'[i].attempts = versions[i].attempts
        BY <3>2, <4>2 DEF Versions
      <4> QED BY <4>4, <4>5 DEF IInv, VersionsOK, PaperWasRequested, ShortOnlyAfterAllAttempts
    <3> QED BY <1>9, <3>1, <3>2 DEF RunEvaluate
  <2> QED BY <1>2, <2>1, <2>2, <2>3 DEF IInv
<1> QED BY <1>3, <1>4, <1>5, <1>6, <1>7, <1>8, <1>9 DEF RunNode

LEMMA InitOK == Init => IInv
<1> SUFFICES ASSUME Init PROVE IInv
  OBVIOUS
<1>1. SaneState(NewThread)
  BY NewThreadOK DEF SaneState
<1>2. RunsOK
  BY <1>1 DEF Init, RunsOK, SaneState
<1>3. ControlOK
  BY ConstantsOK DEF Init, ControlOK, Requests
<1>4. LogOK /\ VersionsOK
  BY DEF Init, LogOK, VersionsOK, PaperWasRequested, ShortOnlyAfterAllAttempts
<1>5. RouterPending
  BY DEF Init, RouterPending, Requests
<1> QED BY <1>2, <1>3, <1>4, <1>5 DEF IInv

LEMMA StepOK == IInv /\ [Next]_vars => IInv'
<1> SUFFICES ASSUME IInv, [Next]_vars PROVE IInv'
  OBVIOUS
<1>1. \A t \in Turns : t \in Requests /\ t \notin Continues /\ t # None
  BY ConstantsOK DEF Requests
<1>2. \A c \in Continues : c \in Requests /\ c \notin Turns
  BY ConstantsOK DEF Requests
<1>3. /\ SaneState(thread) /\ \A r \in Requests : SaneState(state[r])
      /\ thread \in GraphStates /\ state \in [Requests -> GraphStates]
      /\ pc \in [Requests -> Places]
  BY DEF IInv, RunsOK, SaneState, ControlOK
<1>4. ASSUME NEW t \in Turns, Begin(t) PROVE IInv'
  <2>1. PICK e \in {t, None} : state' = [state EXCEPT ![t] = TurnState(thread, t, e)]
    BY <1>4 DEF Begin
  <2>2. SaneState(TurnState(thread, t, e)) /\ TurnState(thread, t, e).next = "router"
    <3>1. SaneState(TurnState(thread, t, e))
      BY <1>3, TurnStateOK DEF SaneState
    <3>2. TurnState(thread, t, e).next = "router"
      BY <1>3 DEF TurnState, GraphStates
    <3> QED BY <3>1, <3>2
  <2>3. RunsOK'
    BY <1>1, <1>4, <2>1, <2>2, CopyOK DEF Begin
  <2>4. ControlOK'
    BY <1>1, <1>4, GoOK DEF Begin
  <2>5. LogOK'
    BY <1>1, <1>4, LogWritten DEF Begin, Owned
  <2>6. RouterPending'
    BY <1>1, <1>3, <1>4, <2>1, <2>2 DEF IInv, RouterPending, Begin, Go, Requests
  <2> QED BY <1>4, <2>3, <2>4, <2>5, <2>6, VersionsKept DEF Begin, IInv
<1>5. ASSUME NEW t \in Turns, StoreInput(t) PROVE IInv'
  <2>1. RunsOK'
    <3>1. state' = [state EXCEPT ![t] = state[t]]
      BY <1>1, <1>3, <1>5 DEF StoreInput
    <3> QED BY <1>1, <1>3, <1>5, <3>1, CopyOK DEF StoreInput
  <2>2. ControlOK'
    BY <1>1, <1>5, GoOK DEF StoreInput
  <2>3. RouterPending'
    BY <1>1, <1>3, <1>5 DEF IInv, RouterPending, StoreInput, Go
  <2> QED BY <1>5, <2>1, <2>2, <2>3, LogKept, VersionsKept DEF StoreInput, IInv
<1>6. ASSUME NEW t \in Turns, Route(t) PROVE IInv'
  <2>1. PICK a \in Decisions(state[t]) :
          /\ state' = [state EXCEPT ![t] = Routed(@, a)]
          /\ thread' = Routed(state[t], a)
          /\ action' = [action EXCEPT ![t] = a]
          /\ IF a \in DocumentActions THEN Write("ack", t, t, None) ELSE UNCHANGED log
          /\ \/ UNCHANGED job
             \/ Researched(a) /\ job' = [job EXCEPT ![t] = "open"]
    BY <1>6 DEF Route
  <2>2. a \in Actions /\ state[t].next = "router"
    BY <1>6, DecisionsOK DEF IInv, RouterPending, Route
  <2>3. SaneState(Routed(state[t], a))
    BY <1>1, <1>3, <2>2, RoutedOK DEF SaneState
  <2>4. RunsOK'
    BY <1>1, <1>3, <1>6, <2>1, <2>3, CopyOK DEF Route
  <2>5. ControlOK'
    BY <1>1, <1>6, <2>1, <2>2 DEF IInv, Route, Go, ControlOK
  <2>6. LogOK'
    BY <1>1, <1>6, <2>1, LogKept, LogWritten DEF Route, Owned
  <2>7. RouterPending'
    BY <1>1, <1>3, <1>6, <2>1 DEF IInv, RouterPending, Route, Go
  <2> QED BY <1>6, <2>4, <2>5, <2>6, <2>7, VersionsKept DEF Route, IInv
<1>7. ASSUME NEW r \in Requests, NEW how \in Over, End(r, how), VersionsOK',
             UNCHANGED <<thread, action, target, job, log>>
      PROVE  IInv'
  BY <1>7, EndOK, LogKept DEF IInv
<1>8. ASSUME NEW r \in Requests, NEW w \in {"scheduled", "running"},
             pc' = [pc EXCEPT ![r] = w],
             UNCHANGED <<thread, action, target, job, reply, log, versions>>,
             state' = state \/ state' = [state EXCEPT ![r] = thread]
      PROVE  IInv'
  <2>1. RunsOK'
    <3>1. PICK u : SaneState(u) /\ state' = [state EXCEPT ![r] = u]
      <4>1. CASE state' = state
        BY <1>3, <4>1
      <4>2. CASE state' = [state EXCEPT ![r] = thread]
        BY <1>3, <4>2
      <4> QED BY <1>8, <4>1, <4>2
    <3> QED BY <1>8, <3>1, CopyOK
  <2>2. ControlOK'
    BY <1>8, GoOK DEF Go
  <2>3. RouterPending'
    BY <1>1, <1>3, <1>8 DEF IInv, RouterPending
  <2> QED BY <1>8, <2>1, <2>2, <2>3, LogKept, VersionsKept DEF IInv
<1>9. ASSUME NEW t \in Turns, StartStream(t) PROVE IInv'
  BY <1>1, <1>7, <1>8, <1>9, VersionsKept DEF StartStream, Go
<1>10. ASSUME NEW r \in Requests, Resume(r) PROVE IInv'
  BY <1>8, <1>10 DEF Resume, Go
<1>11. ASSUME NEW t \in Turns, ResearchEnds(t) PROVE IInv'
  <2>1. ControlOK'
    BY <1>11 DEF IInv, ControlOK, ResearchEnds
  <2>2. RunsOK'
    BY <1>11 DEF IInv, RunsOK, SaneState, Owned, ResearchEnds
  <2>3. RouterPending'
    BY <1>11 DEF IInv, RouterPending, ResearchEnds
  <2> QED BY <1>11, <2>1, <2>2, <2>3, LogKept, VersionsKept DEF ResearchEnds, IInv
<1>12. ASSUME NEW c \in Continues, NEW t \in Turns, Continue(c, t) PROVE IInv'
  <2>1. pc[c] = "idle" /\ target[c] = None /\ target' = [target EXCEPT ![c] = t]
    BY <1>12 DEF IInv, ControlOK, Continue
  <2>2. \A m, e : Owned(m, e) => Owned(m, e)'
    BY <2>1 DEF IInv, ControlOK, Owned
  <2>3. RunsOK'
    BY <1>12, <2>2 DEF IInv, RunsOK, SaneState, Continue
  <2>4. ControlOK'
    BY <1>2, <1>12, <2>1 DEF IInv, ControlOK, Continue, Go
  <2>5. LogOK'
    BY <1>12, <2>2 DEF IInv, LogOK, Continue
  <2>6. RouterPending'
    BY <1>1, <1>2, <1>3, <1>12 DEF IInv, RouterPending, Continue, Go
  <2> QED BY <1>12, <2>3, <2>4, <2>5, <2>6, VersionsKept DEF Continue, IInv
<1>13. ASSUME NEW c \in Continues, UpdateEvidence(c) PROVE IInv'
  <2>1. PICK e \in {target[c], None} : thread' = [thread EXCEPT !.evidence = e]
    BY <1>13 DEF UpdateEvidence
  <2>2. e \in Turns \cup {None} /\ \A m : Owned(m, e)
    BY <2>1 DEF IInv, ControlOK, Owned
  <2>3. thread' \in GraphStates
    BY <1>3, <2>1, <2>2 DEF GraphStates
  <2>4. /\ thread'.next = thread.next /\ thread'.message = thread.message
        /\ thread'.action = thread.action /\ thread'.paper = thread.paper
        /\ thread'.attempts = thread.attempts /\ thread'.evidence = e
    BY <1>3, <2>1 DEF GraphStates
  <2>5. Coherent(thread)'
    BY <1>3, <2>4 DEF SaneState, Coherent
  <2>6. SaneState(thread)'
    BY <1>13, <2>2, <2>3, <2>4, <2>5 DEF SaneState, Owned, UpdateEvidence
  <2>7. RunsOK'
    BY <1>13, <2>6 DEF IInv, RunsOK, SaneState, Owned, UpdateEvidence
  <2>8. ControlOK'
    BY <1>2, <1>13, GoOK DEF UpdateEvidence
  <2>9. RouterPending'
    BY <1>1, <1>2, <1>3, <1>13 DEF IInv, RouterPending, UpdateEvidence, Go
  <2> QED BY <1>13, <2>7, <2>8, <2>9, LogKept, VersionsKept DEF UpdateEvidence, IInv
<1>14. ASSUME NEW r \in Requests, Finish(r) PROVE IInv'
  <2>1. RunsOK' /\ ControlOK' /\ RouterPending'
    BY <1>14, EndOK DEF Finish
  <2>2. LogOK'
    <3>1. CASE reply[r] = None
      BY <1>14, <3>1, LogKept DEF Finish
    <3>2. CASE reply[r] # None
      <4>1. reply[r] \in Replies /\ Owned(reply[r].message, reply[r].evidence)
        BY <3>2 DEF IInv, RunsOK
      <4> QED BY <1>14, <3>2, <4>1, LogWritten DEF Finish, Replies
    <3> QED BY <3>1, <3>2
  <2> QED BY <1>14, <2>1, <2>2, VersionsKept DEF Finish, IInv
<1>15. ASSUME Dies, VersionsOK' PROVE IInv'
  <2>1. SaneState(NewThread)
    BY NewThreadOK DEF SaneState
  <2>2. RunsOK'
    BY <1>15, <2>1 DEF IInv, RunsOK, SaneState, Owned, Dies
  <2>3. ControlOK'
    BY <1>2, <1>3, <1>15 DEF IInv, ControlOK, Dies
  <2>4. RouterPending'
    BY <1>1, <1>15 DEF RouterPending, Dies
  <2> QED BY <1>15, <2>2, <2>3, <2>4, LogKept DEF Dies, IInv
<1>16. ASSUME NEW t \in Turns, LookupFails(t) PROVE IInv'
  <2>1. ControlOK'
    BY <1>1, <1>16, GoOK DEF LookupFails
  <2>2. LogOK'
    BY <1>1, <1>16, LogWritten DEF LookupFails, Owned
  <2>3. RunsOK'
    BY <1>16 DEF IInv, RunsOK, SaneState, Owned, LookupFails
  <2>4. RouterPending'
    BY <1>1, <1>3, <1>16 DEF IInv, RouterPending, LookupFails, Go
  <2> QED BY <1>16, <2>1, <2>2, <2>3, <2>4, VersionsKept DEF LookupFails, IInv
<1>17. ASSUME NEW t \in Turns, DecideFails(t) PROVE IInv'
  <2>1. PICK a \in Decisions(state[t]) : /\ thread' = Routed(state[t], a)
                                         /\ action' = [action EXCEPT ![t] = a]
    BY <1>17 DEF DecideFails
  <2>2. a \in Actions /\ state[t].next = "router"
    BY <1>17, DecisionsOK DEF IInv, RouterPending, DecideFails
  <2>3. SaneState(Routed(state[t], a)) /\ SaneState(NewThread)
    BY <1>1, <1>3, <2>2, RoutedOK, NewThreadOK DEF SaneState
  <2>4. /\ state' = [state EXCEPT ![t] = NewThread]
        /\ reply' = [reply EXCEPT ![t] = None]
        /\ pc' = [pc EXCEPT ![t] = "failed"]
    BY <1>17 DEF DecideFails, End, Go
  <2>5. RunsOK'
    <3>1. state' \in [Requests -> GraphStates] /\ \A q \in Requests : SaneState(state'[q])
      BY <1>1, <1>3, <2>3, <2>4 DEF SaneState
    <3>2. SaneState(thread)' /\ \A q \in Requests : SaneState(state[q])'
      BY <1>17, <2>1, <2>3, <3>1 DEF SaneState, Owned, DecideFails
    <3>3. /\ reply' \in [Requests -> Replies \cup {None}]
          /\ \A q \in Requests : reply'[q] # None => reply'[q] = reply[q]
      BY <2>4 DEF IInv, RunsOK
    <3>4. \A q \in Requests : reply'[q] # None => Owned(reply[q].message, reply[q].evidence)'
      BY <1>17, <3>3 DEF IInv, RunsOK, Owned, DecideFails
    <3> QED BY <3>1, <3>2, <3>3, <3>4 DEF RunsOK
  <2>6. ControlOK'
    BY <1>1, <1>3, <1>17, <2>1, <2>2, <2>4 DEF IInv, ControlOK, DecideFails
  <2>7. RouterPending'
    BY <1>1, <1>3, <2>4 DEF IInv, RouterPending
  <2> QED BY <1>17, <2>5, <2>6, <2>7, LogKept, VersionsKept DEF DecideFails, IInv
<1>18. ASSUME UNCHANGED vars PROVE IInv'
  BY <1>18 DEF vars, IInv, RunsOK, SaneState, Owned, ControlOK, LogOK, VersionsOK,
               PaperWasRequested, ShortOnlyAfterAllAttempts, RouterPending
<1>19. ASSUME NEW r \in Requests, SaveTears(r) PROVE IInv'
  <2>1. VersionsOK'
    BY <1>3, <1>19, CommitOK DEF SaveTears, At
  <2> QED BY <1>7, <1>15, <1>19, <2>1 DEF SaveTears, Raises, Cancelled
<1>20. CASE Restart
  BY <1>15, <1>20, VersionsKept DEF Restart
<1>21. ASSUME NEW t \in Turns, RouteFails(t) PROVE IInv'
  BY <1>1, <1>7, <1>21, VersionsKept DEF RouteFails
<1>22. ASSUME NEW c \in Continues, UpdateFails(c) PROVE IInv'
  BY <1>2, <1>7, <1>22, VersionsKept DEF UpdateFails
<1>23. ASSUME NEW r \in Requests, NodeFails(r) \/ Disconnect(r) PROVE IInv'
  BY <1>7, <1>23, VersionsKept DEF NodeFails, Disconnect, Raises, Cancelled
<1> QED
  BY <1>1, <1>2, <1>4, <1>5, <1>6, <1>9, <1>10, <1>11, <1>12, <1>13, <1>14,
     <1>16, <1>17, <1>18, <1>19, <1>20, <1>21, <1>22, <1>23, NodeStep
  DEF Next, Progress

LEMMA Inductive == Spec => []IInv
  BY InitOK, StepOK, PTL DEF Spec
-----------------------------------------------------------------------------
\* Checkpoints, copies and tables keep their types, the attempts their limit.
THEOREM TypeCorrect == Spec => []TypeOK
<1>1. IInv => TypeOK
  BY DEF IInv, RunsOK, ControlOK, LogOK, VersionsOK, SaneState, TypeOK
<1> QED BY <1>1, Inductive, PTL

\* No interleaving of runs saves a paper nobody asked for (save_new_paper.py).
THEOREM PaperRequested == Spec => []PaperWasRequested
<1>1. IInv => PaperWasRequested
  BY DEF IInv, VersionsOK
<1> QED BY <1>1, Inductive, PTL

\* No interleaving of runs makes a turn pay for another turn's attempts (builder.py).
THEOREM AttemptsAreOwn == Spec => []ShortOnlyAfterAllAttempts
<1>1. IInv => ShortOnlyAfterAllAttempts
  BY DEF IInv, VersionsOK
<1> QED BY <1>1, Inductive, PTL

\* No interleaving of runs leaks the evidence of an earlier turn into a reply
\* (chat_graph_runner.py resets it, converse.py reads it).
THEOREM EvidenceOwned == Spec => []EvidenceHasOwner
<1>1. IInv => EvidenceHasOwner
  BY DEF IInv, LogOK, Owned, EvidenceHasOwner, Said
<1> QED BY <1>1, Inductive, PTL
-----------------------------------------------------------------------------
(***************************************************************************)
(* One request at a time                                                    *)
(*                                                                         *)
(* A client that sends nothing while a response streams or a document is    *)
(* being generated never has two requests in progress.  Then the one copy   *)
(* that is worked on and the newest checkpoint agree (InStep), and what was *)
(* written for a message can be told from where the thread stands with it.  *)
(***************************************************************************)
OneRequest == Client \cap {"parallel", "background"} = {}

Active(r) == pc[r] \notin {"idle"} \cup Over

Alone == \A r, q \in Requests : Active(r) /\ Active(q) => r = q

\* Which requests get where.
Roles ==
  \A r \in Requests :
    /\ pc[r] \in {"loaded", "routing", "routed", "scheduled"} => r \in Turns
    /\ pc[r] \in {"accepted", "updated"} => r \in Continues

\* The copy of the request in progress is the newest checkpoint, but for the
\* input that is not stored yet.
InStep ==
  \A r \in Requests :
    /\ pc[r] = "loaded" => /\ state[r].message = r
                           /\ state[r].humans = thread.humans \cup {r}
                           /\ state[r].answered = thread.answered
    /\ pc[r] \in {"routing", "running"} => state[r] = thread
    /\ pc[r] = "routing" => thread.message = r

Sequential == Alone /\ Roles /\ InStep

Answered(m) == \E i \in Said : log[i].message = m

\* The save node came through for m, its version and its checkpoint.
Through(m) == \E i \in DOMAIN versions : versions[i].message = m /\ ~versions[i].torn

\* Only a turn that has begun is in the thread or the tables.
Begun ==
  /\ thread.message # None => pc[thread.message] # "idle"
  /\ \A i \in DOMAIN log : pc[log[i].message] # "idle" /\ pc[log[i].by] # "idle"
  /\ \A i \in DOMAIN versions : pc[versions[i].message] # "idle"

\* Nothing was written for a message that is not stored in the thread yet.
Fresh ==
  \A t \in Turns : pc[t] = "loaded" => ~Answered(t) /\ ~Ack(t) /\ ~Through(t)

\* What was written for the message the thread stands at tells where it stands.
Settled ==
  /\ Answered(thread.message) => /\ thread.next = "end"
                                 /\ \A r \in Requests : reply[r] = None
  /\ Ack(thread.message) => thread.next \notin Speaking \cup {"router"}
  /\ Through(thread.message) => thread.next \in {"evaluate_document", "end"}

\* A reply that is not written yet answers the message the thread stands at.
Streamed ==
  \A r \in Requests : reply[r] # None =>
    /\ pc[r] = "running"
    /\ reply[r].message = thread.message
    /\ thread.next \in {"chinese_prevent", "end"} /\ thread.paper = "none"
    /\ ~Ack(thread.message)

OnceInv == Begun /\ Fresh /\ Settled /\ Streamed /\ OneReplyPerMessage /\ OneVersionPerMessage

Entered(t) == \E i \in DOMAIN log : log[i].message = t
Before(t, u) == \E i, j \in DOMAIN log : i < j /\ log[i].message = t /\ log[j].message = u

\* A decided turn is a message of the thread, and the turn after an opening is later.
OpenedInv ==
  /\ \A t \in Turns : action[t] # None \/ pc[t] = "routing" => t \in thread.humans
  /\ \A t \in Turns : action[t] # None \/ pc[t] \in {"loaded", "routing"} => Entered(t)
  /\ \A t, u \in Turns :
       action[t] = "opening" /\ u # t /\ pc[u] \in {"loaded", "routing"} => Before(t, u)
  /\ OpeningOnce

NoneLost == "retrieval" \notin Faults /\ "restart" \notin Faults

ReachInv ==
  /\ \A i \in DOMAIN log : log[i].role = "user" => log[i].by = log[i].message
  /\ MessagesReachThread

TurnOf(r) == IF r \in Turns THEN r ELSE target[r]

\* The client that also waits for research: unanswered research belongs to the
\* message the thread stands at, and so does every request in progress.
OwnInv ==
  /\ \A t \in Turns : Unanswered(t) => /\ thread.message = t
                                       /\ \A r \in Requests : pc[r] # "loaded"
  /\ \A r \in Requests :
       /\ pc[r] = "loaded" => state[r].evidence \in {None, r}
       /\ Active(r) /\ pc[r] # "loaded" => thread.message = TurnOf(r)
       /\ Active(r) /\ pc[r] \notin {"loaded", "accepted"} =>
            thread.evidence \in {None, TurnOf(r)}
       /\ reply[r] # None => reply[r].evidence \in {None, TurnOf(r)}
  /\ RepliesToOwnTurn


LEMMA Kinds ==
  /\ Turns \subseteq Requests /\ Continues \subseteq Requests
  /\ Turns \cap Continues = {} /\ None \notin Requests
BY ConstantsOK DEF Requests

\* A client that makes one request at a time makes it when none is in progress.
LEMMA NobodyElse ==
  ASSUME OneRequest, MayRequest
  PROVE  \A q \in Requests : ~Active(q)
BY DEF OneRequest, MayRequest, Busy, Active

LEMMA Rest ==
  ASSUME Sequential, NEW r \in Requests, Active(r)
  PROVE  \A q \in Requests \ {r} : ~Active(q)
BY DEF Sequential, Alone

\* Only r is in progress, and it moves on in step with the thread.
LEMMA Moves ==
  ASSUME IInv, NEW r \in Requests, \A q \in Requests \ {r} : ~Active(q),
         NEW w \in Places, pc' = [pc EXCEPT ![r] = w],
         w \in {"loaded", "routing", "routed", "scheduled"} => r \in Turns,
         w \in {"accepted", "updated"} => r \in Continues,
         w = "loaded" => /\ state'[r].message = r
                         /\ state'[r].humans = thread'.humans \cup {r}
                         /\ state'[r].answered = thread'.answered,
         w \in {"routing", "running"} => state'[r] = thread',
         w = "routing" => thread'.message = r
  PROVE  Sequential'
<1>1. pc \in [Requests -> Places]
  BY DEF IInv, ControlOK
<1>2. pc'[r] = w /\ \A q \in Requests \ {r} : pc'[q] = pc[q]
  BY <1>1
<1>3. \A q \in Requests \ {r} : pc'[q] \in {"idle", "done", "failed"}
  BY <1>2 DEF Active
<1>4. Alone'
  BY <1>3 DEF Alone, Active
<1>5. Roles'
  BY <1>2, <1>3 DEF Roles
<1>6. InStep'
  BY <1>2, <1>3 DEF InStep
<1> QED BY <1>4, <1>5, <1>6 DEF Sequential

LEMMA Ends ==
  ASSUME IInv, Sequential, NEW r \in Requests, Active(r), NEW how \in Over, Go(r, how)
  PROVE  Sequential'
BY Rest, Moves DEF Go

\* What a node of the one run in progress makes of the thread and the tables.
LEMMA NodeEffect ==
  ASSUME IInv, Sequential, NEW r \in Requests, RunNode(r)
  PROVE  /\ pc[r] = "running" /\ UNCHANGED <<pc, action, target, job, log>>
         /\ state' = [state EXCEPT ![r] = thread']
         /\ thread'.message = thread.message /\ thread'.evidence = thread.evidence
         /\ thread'.humans = thread.humans /\ thread.answered \subseteq thread'.answered
         /\ thread.next # "end"
         /\ thread.next = "router" =>
              /\ thread'.next \in Speaking \cup {"outline", "generate"}
              /\ UNCHANGED <<reply, versions>>
         /\ thread.next \in Speaking =>
              /\ thread'.next \in {"chinese_prevent", "end"}
              /\ thread'.paper = thread.paper
              /\ \/ UNCHANGED reply
                 \/ \E e \in {None, thread.evidence} :
                      reply' = [reply EXCEPT ![r] = [message |-> thread.message, evidence |-> e]]
              /\ UNCHANGED versions
         /\ thread.next \in {"outline", "generate"} =>
              /\ thread'.next \in {"generate", "chinese_prevent"}
              /\ UNCHANGED <<reply, versions>>
         /\ thread.next = "chinese_prevent" =>
              /\ thread'.next = (IF thread.paper = "none" THEN "end" ELSE "save_new_paper")
              /\ thread'.paper = thread.paper
              /\ UNCHANGED <<reply, versions>>
         /\ thread.next = "save_new_paper" =>
              /\ thread'.next = "evaluate_document"
              /\ \E x : x.message = thread.message /\ versions' = Append(versions, x)
              /\ UNCHANGED reply
         /\ thread.next = "evaluate_document" =>
              /\ thread'.next = "end"
              /\ DOMAIN versions' = DOMAIN versions
              /\ \A i \in DOMAIN versions : /\ versions'[i].message = versions[i].message
                                            /\ versions'[i].torn = versions[i].torn
              /\ UNCHANGED reply
<1>1. /\ pc[r] = "running" /\ UNCHANGED <<pc, action, target, job, log>>
      /\ state' = [state EXCEPT ![r] = thread']
  BY DEF RunNode, RunRouter, RunReply, RunOutline, RunGenerate, RunChinesePrevent,
         RunSave, RunEvaluate, At, Store
<1>2. state[r] = thread /\ thread \in GraphStates
  BY <1>1 DEF Sequential, InStep, IInv, RunsOK, SaneState
<1>3. CASE RunRouter(r)
  <2>1. PICK a \in Actions : thread' = Routed(thread, a)
    BY <1>2, <1>3, DecisionsOK DEF RunRouter, Store
  <2>2. NodeOf[a] \in Speaking \cup {"outline", "generate"}
    BY <2>1 DEF Actions, DocumentActions, NodeOf, Speaking
  <2>3. thread.next = "router" /\ UNCHANGED <<reply, versions>>
    BY <1>2, <1>3 DEF RunRouter, At
  <2>4. /\ thread'.next = NodeOf[a] /\ thread'.message = thread.message
        /\ thread'.evidence = thread.evidence /\ thread'.humans = thread.humans
        /\ thread'.answered = thread.answered
    BY <1>2, <2>1 DEF Routed, GraphStates
  <2> QED BY <1>1, <2>2, <2>3, <2>4 DEF Speaking
<1>4. CASE RunReply(r)
  <2>1. /\ thread.next \in Speaking /\ UNCHANGED versions
        /\ thread' = [thread EXCEPT !.answered = @ \cup {thread.message},
                                    !.next = IF thread.next = "reject_documentation" THEN "end"
                                             ELSE "chinese_prevent"]
    BY <1>2, <1>4 DEF RunReply, Store
  <2>2. \/ UNCHANGED reply
        \/ \E e \in {None, thread.evidence} :
             reply' = [reply EXCEPT ![r] = [message |-> thread.message, evidence |-> e]]
    BY <1>2, <1>4 DEF RunReply
  <2>3. /\ thread'.next \in {"chinese_prevent", "end"} /\ thread'.message = thread.message
        /\ thread'.evidence = thread.evidence /\ thread'.humans = thread.humans
        /\ thread'.answered = thread.answered \cup {thread.message}
        /\ thread'.paper = thread.paper
    BY <1>2, <2>1 DEF GraphStates
  <2> QED BY <1>1, <2>1, <2>2, <2>3 DEF Speaking
<1>5. CASE RunOutline(r)
  <2>1. /\ thread.next = "outline" /\ UNCHANGED <<reply, versions>>
        /\ thread' = [thread EXCEPT !.paper = "outline", !.next = "chinese_prevent"]
    BY <1>2, <1>5 DEF RunOutline, At, Store
  <2>2. /\ thread'.next = "chinese_prevent" /\ thread'.message = thread.message
        /\ thread'.evidence = thread.evidence /\ thread'.humans = thread.humans
        /\ thread'.answered = thread.answered
    BY <1>2, <2>1 DEF GraphStates
  <2> QED BY <1>1, <2>1, <2>2 DEF Speaking
<1>6. CASE RunGenerate(r)
  <2>1. thread.next = "generate" /\ UNCHANGED <<reply, versions>>
    BY <1>2, <1>6 DEF RunGenerate, At
  <2>2. PICK p, n, next : /\ next \in {"generate", "chinese_prevent"}
                          /\ thread' = [thread EXCEPT !.paper = p, !.attempts = n, !.next = next]
    BY <1>2, <1>6 DEF RunGenerate, Store
  <2>3. /\ thread'.next \in {"generate", "chinese_prevent"} /\ thread'.message = thread.message
        /\ thread'.evidence = thread.evidence /\ thread'.humans = thread.humans
        /\ thread'.answered = thread.answered
    BY <1>2, <2>2 DEF GraphStates
  <2> QED BY <1>1, <2>1, <2>3 DEF Speaking
<1>7. CASE RunChinesePrevent(r)
  <2>1. /\ thread.next = "chinese_prevent" /\ UNCHANGED <<reply, versions>>
        /\ thread' = [thread EXCEPT !.next = IF thread.paper = "none" THEN "end"
                                             ELSE "save_new_paper"]
    BY <1>2, <1>7 DEF RunChinesePrevent, At, Store
  <2>2. /\ thread'.next = (IF thread.paper = "none" THEN "end" ELSE "save_new_paper")
        /\ thread'.message = thread.message /\ thread'.paper = thread.paper
        /\ thread'.evidence = thread.evidence /\ thread'.humans = thread.humans
        /\ thread'.answered = thread.answered
    BY <1>2, <2>1 DEF GraphStates
  <2> QED BY <1>1, <2>1, <2>2 DEF Speaking
<1>8. CASE RunSave(r)
  <2>1. /\ thread.next = "save_new_paper" /\ UNCHANGED reply
        /\ thread' = [thread EXCEPT !.version = Len(versions) + 1, !.next = "evaluate_document",
                                    !.answered = @ \cup {thread.message}]
    BY <1>2, <1>8 DEF RunSave, At, Store
  <2>2. \E x : x.message = thread.message /\ versions' = Append(versions, x)
    BY <1>2, <1>8 DEF RunSave, CommitVersion
  <2>3. /\ thread'.next = "evaluate_document" /\ thread'.message = thread.message
        /\ thread'.evidence = thread.evidence /\ thread'.humans = thread.humans
        /\ thread'.answered = thread.answered \cup {thread.message}
    BY <1>2, <2>1 DEF GraphStates
  <2> QED BY <1>1, <2>1, <2>2, <2>3 DEF Speaking
<1>9. CASE RunEvaluate(r)
  <2>1. /\ thread.next = "evaluate_document" /\ UNCHANGED reply
        /\ thread' = [thread EXCEPT !.next = "end"]
    BY <1>2, <1>9 DEF RunEvaluate, At, Store
  <2>2. /\ DOMAIN versions' = DOMAIN versions
        /\ \A i \in DOMAIN versions : /\ versions'[i].message = versions[i].message
                                      /\ versions'[i].torn = versions[i].torn
    <3>1. versions \in Seq(Versions)
      BY DEF IInv, VersionsOK
    <3>2. PICK n \in Nat : versions \in [1..n -> Versions]
      BY <3>1
    <3> QED BY <1>9, <3>2 DEF RunEvaluate, Versions
  <2>3. /\ thread'.next = "end" /\ thread'.message = thread.message
        /\ thread'.evidence = thread.evidence /\ thread'.humans = thread.humans
        /\ thread'.answered = thread.answered
    BY <1>2, <2>1 DEF GraphStates
  <2> QED BY <1>1, <2>1, <2>2, <2>3 DEF Speaking
<1> QED BY <1>3, <1>4, <1>5, <1>6, <1>7, <1>8, <1>9 DEF RunNode

\* One request at a time stays so, and in step with the thread.
LEMMA SequentialStep ==
  ASSUME OneRequest, IInv, Sequential, [Next]_vars
  PROVE  Sequential'
<1>1. /\ thread \in GraphStates /\ state \in [Requests -> GraphStates]
      /\ pc \in [Requests -> Places]
  BY DEF IInv, RunsOK, SaneState, ControlOK
<1>2. ASSUME NEW t \in Turns, Begin(t) PROVE Sequential'
  <2>1. PICK e \in {t, None} : state' = [state EXCEPT ![t] = TurnState(thread, t, e)]
    BY <1>2 DEF Begin
  <2>2. /\ state'[t].message = t /\ state'[t].humans = thread.humans \cup {t}
        /\ state'[t].answered = thread.answered
    BY <1>1, <2>1, Kinds DEF TurnState, GraphStates
  <2> QED BY <1>2, <2>2, Kinds, NobodyElse, Moves DEF Begin, MaySend, Go
<1>3. ASSUME NEW t \in Turns, LookupFails(t) PROVE Sequential'
  BY <1>3, Kinds, NobodyElse, Moves DEF LookupFails, MaySend, Go
<1>4. ASSUME NEW t \in Turns, StoreInput(t) PROVE Sequential'
  BY <1>4, Kinds, Rest, Moves DEF StoreInput, Go, Active, Sequential, InStep
<1>5. ASSUME NEW t \in Turns, Route(t) PROVE Sequential'
  BY <1>5, Kinds, Rest, Moves DEF Route, Go, Active
<1>6. ASSUME NEW t \in Turns, DecideFails(t) PROVE Sequential'
  BY <1>6, Kinds, Ends DEF DecideFails, End, Active
<1>7. ASSUME NEW t \in Turns, StartStream(t) PROVE Sequential'
  <2>1. t \in Requests /\ Active(t) /\ thread' = thread
    BY <1>7, Kinds DEF StartStream, Active
  <2>2. CASE Go(t, "scheduled")
    BY <1>7, <2>1, <2>2, Rest, Moves DEF Go
  <2>3. CASE End(t, "done")
    BY <2>1, <2>3, Ends DEF End
  <2>4. CASE state' = [state EXCEPT ![t] = thread] /\ Go(t, "running")
    BY <1>1, <2>1, <2>4, Rest, Moves DEF Go
  <2> QED BY <1>7, <2>2, <2>3, <2>4 DEF StartStream
<1>8. ASSUME NEW c \in Continues, NEW t \in Turns, Continue(c, t) PROVE Sequential'
  BY <1>8, Kinds, NobodyElse, Moves DEF Continue, Go
<1>9. ASSUME NEW c \in Continues, UpdateEvidence(c) PROVE Sequential'
  BY <1>9, Kinds, Rest, Moves DEF UpdateEvidence, Go, Active
<1>10. ASSUME NEW r \in Requests, Resume(r) PROVE Sequential'
  BY <1>1, <1>10, Rest, Moves DEF Resume, Go, Active
<1>11. ASSUME NEW r \in Requests, RunNode(r) PROVE Sequential'
  <2>1. /\ pc[r] = "running" /\ pc' = [pc EXCEPT ![r] = "running"]
        /\ state'[r] = thread'
    BY <1>1, <1>11, NodeEffect
  <2> QED BY <2>1, Rest, Moves DEF Active
<1>12. ASSUME NEW r \in Requests, NEW how \in Over, Active(r), End(r, how)
       PROVE  Sequential'
  BY <1>12, Ends DEF End
<1>13. ASSUME NEW r \in Requests, Finish(r) PROVE Sequential'
  BY <1>12, <1>13 DEF Finish, At, Active
<1>14. ASSUME Dies PROVE Sequential'
  BY <1>14 DEF Dies, Sequential, Alone, Roles, InStep, Active
<1>15. ASSUME UNCHANGED <<thread, state, pc>> PROVE Sequential'
  BY <1>15 DEF Sequential, Alone, Roles, InStep, Active
<1>16. ASSUME NEW t \in Turns, ResearchEnds(t) PROVE Sequential'
  BY <1>15, <1>16 DEF ResearchEnds
<1>17. ASSUME NEW t \in Turns, RouteFails(t) PROVE Sequential'
  BY <1>12, <1>17, Kinds DEF RouteFails, Active
<1>18. ASSUME NEW c \in Continues, UpdateFails(c) PROVE Sequential'
  BY <1>12, <1>18, Kinds DEF UpdateFails, Active
<1>19. ASSUME NEW r \in Requests, Raises(r) \/ Cancelled(r) PROVE Sequential'
  BY <1>12, <1>19 DEF Raises, Cancelled, Active
<1> QED
  BY <1>2, <1>3, <1>4, <1>5, <1>6, <1>7, <1>8, <1>9, <1>10, <1>11, <1>13, <1>14, <1>15,
     <1>16, <1>17, <1>18, <1>19
  DEF Next, Progress, NodeFails, Disconnect, SaveTears, Restart, vars

LEMMA SequentialInit == Init => Sequential
<1> SUFFICES ASSUME Init PROVE Sequential
  OBVIOUS
<1>1. \A r \in Requests : pc[r] \in {"idle", "done"}
  BY DEF Init
<1> QED BY <1>1 DEF Sequential, Alone, Roles, InStep, Active

LEMMA OneAtATime ==
  ASSUME OneRequest
  PROVE  Spec => []Sequential
<1>1. IInv /\ Sequential /\ [Next]_vars => Sequential'
  BY SequentialStep
<1> QED BY <1>1, SequentialInit, Inductive, PTL DEF Spec


\* A row is committed for the message that the thread is about to save, and no more.
Torn ==
  /\ thread.next = "save_new_paper"
  /\ \E x : x.message = thread.message /\ x.torn = TRUE /\ versions' = Append(versions, x)

\* Steps after which the thread stands where it stood and nothing is written, but for
\* such a row.
Quiet ==
  /\ UNCHANGED <<action, log>>
  /\ UNCHANGED versions \/ Torn
  /\ thread'.message = thread.message /\ thread'.next = thread.next
  /\ thread'.paper = thread.paper
  /\ thread'.humans = thread.humans /\ thread'.answered = thread.answered
  /\ \A r \in Requests :
       /\ pc[r] # "idle" => pc'[r] # "idle"
       /\ pc'[r] \in {"loaded", "routing"} => pc[r] = pc'[r]
       /\ pc[r] = "loaded" /\ "restart" \notin Faults => pc'[r] = "loaded"
       /\ reply'[r] # None => /\ reply'[r] = reply[r]
                              /\ pc[r] = "running" => pc'[r] = "running"

\* The steps that are not quiet, one by one.
Loud ==
  \/ \E t \in Turns : \/ Begin(t) \/ LookupFails(t) \/ StoreInput(t)
                      \/ Route(t) \/ DecideFails(t)
  \/ \E r \in Requests : RunNode(r) \/ Finish(r)

LEMMA QuietOrLoud ==
  ASSUME IInv, Sequential, [Next]_vars
  PROVE  Quiet \/ Loud
<1>1. /\ thread \in GraphStates /\ state \in [Requests -> GraphStates]
      /\ pc \in [Requests -> Places] /\ reply \in [Requests -> Replies \cup {None}]
  BY DEF IInv, RunsOK, SaneState, ControlOK
<1>2. ASSUME NEW r \in Requests, NEW w \in Places \ {"idle", "loaded", "routing"},
             pc[r] # "loaded", pc[r] = "running" => reply'[r] = None,
             pc' = [pc EXCEPT ![r] = w],
             reply' = reply \/ reply' = [reply EXCEPT ![r] = None],
             UNCHANGED <<thread, action, log>>, UNCHANGED versions \/ Torn
      PROVE  Quiet
  BY <1>1, <1>2 DEF Quiet
<1>3. ASSUME NEW r \in Requests, NEW how \in Over, pc[r] # "loaded", End(r, how),
             UNCHANGED <<thread, action, log>>, UNCHANGED versions \/ Torn
      PROVE  Quiet
  <2>1. reply'[r] = None
    BY <1>1, <1>3 DEF End
  <2> QED BY <1>2, <1>3, <2>1 DEF End, Go
<1>4. ASSUME NEW t \in Turns, StartStream(t) PROVE Quiet
  BY <1>2, <1>3, <1>4, Kinds DEF StartStream, Go
<1>5. ASSUME NEW c \in Continues, NEW t \in Turns, Continue(c, t) PROVE Quiet
  BY <1>2, <1>5, Kinds DEF Continue, Go
<1>6. ASSUME NEW c \in Continues, UpdateEvidence(c) PROVE Quiet
  <2>1. PICK e : thread' = [thread EXCEPT !.evidence = e]
    BY <1>6 DEF UpdateEvidence
  <2>2. /\ thread'.message = thread.message /\ thread'.next = thread.next
        /\ thread'.paper = thread.paper
        /\ thread'.humans = thread.humans /\ thread'.answered = thread.answered
    BY <1>1, <2>1 DEF GraphStates
  <2> QED BY <1>1, <1>6, <2>2, Kinds DEF UpdateEvidence, Go, Quiet
<1>7. ASSUME NEW r \in Requests, Resume(r) PROVE Quiet
  BY <1>2, <1>7 DEF Resume, Go
<1>8. ASSUME Dies, UNCHANGED versions \/ Torn PROVE Quiet
  BY <1>1, <1>8 DEF Dies, Quiet
<1>9. ASSUME UNCHANGED <<thread, pc, action, reply, log, versions>> PROVE Quiet
  BY <1>9 DEF Quiet
<1>10. ASSUME NEW t \in Turns, RouteFails(t) \/ ResearchEnds(t) PROVE Quiet
  BY <1>3, <1>9, <1>10, Kinds DEF RouteFails, ResearchEnds
<1>11. ASSUME NEW c \in Continues, UpdateFails(c) PROVE Quiet
  BY <1>3, <1>11, Kinds DEF UpdateFails
<1>12. ASSUME NEW r \in Requests, Raises(r) \/ Cancelled(r), UNCHANGED versions \/ Torn
       PROVE  Quiet
  BY <1>3, <1>12 DEF Raises, Cancelled
<1>13. ASSUME NEW r \in Requests, SaveTears(r) PROVE Quiet
  <2>1. Torn
    BY <1>13 DEF SaveTears, At, CommitVersion, Torn, Sequential, InStep
  <2> QED BY <1>8, <1>12, <1>13, <2>1 DEF SaveTears
<1>14. ASSUME NEW r \in Requests, NodeFails(r) \/ Disconnect(r) PROVE Quiet
  BY <1>12, <1>14 DEF NodeFails, Disconnect
<1>15. CASE Restart
  BY <1>8, <1>15 DEF Restart
<1> QED
  BY <1>4, <1>5, <1>6, <1>7, <1>9, <1>10, <1>11, <1>13, <1>14, <1>15, Kinds
  DEF Next, Progress, Loud, vars

\* What a decision of the router leaves of the checkpoint.
LEMMA RouterEffect ==
  ASSUME IInv, Sequential, NEW t \in Turns, pc[t] = "routing",
         NEW a \in Decisions(state[t]), thread' = Routed(state[t], a)
  PROVE  /\ state[t] = thread /\ thread.message = t /\ thread.next = "router"
         /\ thread'.message = thread.message /\ thread'.evidence = thread.evidence
         /\ thread'.humans = thread.humans /\ thread'.answered = thread.answered
         /\ thread'.next \in Speaking \cup {"outline", "generate"}
         /\ a \in DocumentActions => thread'.next \in {"outline", "generate"}
<1>1. state[t] = thread /\ thread.message = t /\ thread.next = "router"
      /\ thread \in GraphStates
  BY Kinds DEF Sequential, InStep, IInv, RunsOK, SaneState, RouterPending
<1>2. a \in Actions
  BY DecisionsOK
<1>3. /\ NodeOf[a] \in Speaking \cup {"outline", "generate"}
      /\ a \in DocumentActions => NodeOf[a] \in {"outline", "generate"}
  BY <1>2 DEF Actions, DocumentActions, NodeOf, Speaking
<1>4. /\ thread'.next = NodeOf[a] /\ thread'.message = thread.message
      /\ thread'.evidence = thread.evidence /\ thread'.humans = thread.humans
      /\ thread'.answered = thread.answered
  BY <1>1 DEF Routed, GraphStates
<1> QED BY <1>1, <1>3, <1>4

\* Nothing is forgotten by a step.
LEMMA Remembers ==
  ASSUME IInv, Sequential, [Next]_vars
  PROVE  /\ thread.humans \subseteq thread'.humans
         /\ thread.answered \subseteq thread'.answered
<1>1. CASE Quiet
  BY <1>1 DEF Quiet
<1>2. ASSUME NEW t \in Turns, Begin(t) \/ LookupFails(t)
      PROVE  thread' = thread
  BY <1>2 DEF Begin, LookupFails
<1>3. ASSUME NEW t \in Turns, StoreInput(t)
      PROVE  thread'.humans = thread.humans \cup {t} /\ thread'.answered = thread.answered
  BY <1>3, Kinds DEF StoreInput, Sequential, InStep
<1>4. ASSUME NEW t \in Turns, Route(t) \/ DecideFails(t)
      PROVE  thread'.humans = thread.humans /\ thread'.answered = thread.answered
  BY <1>4, RouterEffect DEF Route, DecideFails
<1>5. ASSUME NEW r \in Requests, Finish(r) PROVE thread' = thread
  BY <1>5 DEF Finish
<1> QED BY <1>1, <1>2, <1>3, <1>4, <1>5, NodeEffect, QuietOrLoud DEF Loud

\* With one request at a time no run stores a copy that lacks what another run
\* added, so the thread only grows (chat_graph_runner.py, README.md:98).
THEOREM HistoryKept ==
  ASSUME OneRequest
  PROVE  Spec => HistoryAccumulates
<1>1. IInv /\ Sequential /\ [Next]_vars =>
        [/\ thread.humans \subseteq thread'.humans
         /\ thread.answered \subseteq thread'.answered]_vars
  BY Remembers
<1> QED BY <1>1, Inductive, OneAtATime, PTL DEF Spec, HistoryAccumulates
-----------------------------------------------------------------------------
(***************************************************************************)
(* One reply and one version                                                *)
(***************************************************************************)
LEMMA Written ==
  ASSUME IInv, NEW role \in {"user", "ack", "assistant"}, NEW r \in Requests,
         NEW m \in Turns, NEW e, Write(role, r, m, e)
  PROVE  /\ \A i \in DOMAIN log : i \in DOMAIN log' /\ log'[i] = log[i]
         /\ \A i \in DOMAIN log' :
              \/ i \in DOMAIN log /\ log'[i] = log[i]
              \/ /\ i \notin DOMAIN log /\ \A j \in DOMAIN log : j < i
                 /\ log'[i] = [role |-> role, by |-> r, message |-> m, evidence |-> e]
         /\ Len(log) + 1 \in DOMAIN log' \ DOMAIN log
         /\ \A i, j \in DOMAIN log' \ DOMAIN log : i = j
<1>1. log \in Seq(Entries)
  BY DEF IInv, LogOK
<1> QED BY <1>1 DEF Write

LEMMA WrittenFor ==
  ASSUME IInv, NEW role \in {"user", "ack", "assistant"}, NEW r \in Requests,
         NEW m \in Turns, NEW e, Write(role, r, m, e)
  PROVE  /\ \A n : Answered(n)' <=> Answered(n) \/ (role = "assistant" /\ n = m)
         /\ \A n : Ack(n)' <=> Ack(n) \/ (role = "ack" /\ n = m)
<1> DEFINE x == [role |-> role, by |-> r, message |-> m, evidence |-> e]
           new == Len(log) + 1
<1>1. /\ \A i \in DOMAIN log : i \in DOMAIN log' /\ log'[i] = log[i]
      /\ \A i \in DOMAIN log' : (i \in DOMAIN log /\ log'[i] = log[i]) \/ log'[i] = x
      /\ new \in DOMAIN log' /\ log'[new] = x
  BY Written
<1>2. x.role = role /\ x.message = m
  OBVIOUS
<1> HIDE DEF x, new
<1>3. \A n : Answered(n)' <=> Answered(n) \/ (role = "assistant" /\ n = m)
  BY <1>1, <1>2 DEF Answered, Said
<1>4. \A n : Ack(n)' <=> Ack(n) \/ (role = "ack" /\ n = m)
  BY <1>1, <1>2 DEF Ack
<1> QED BY <1>3, <1>4

\* A message that is answered, or acknowledged, for the first time.
LEMMA OneReplyWritten ==
  ASSUME IInv, OneReplyPerMessage,
         NEW role \in {"user", "ack", "assistant"}, NEW r \in Requests,
         NEW m \in Turns, NEW e, Write(role, r, m, e),
         role = "assistant" => ~Answered(m) /\ ~Ack(m),
         role = "ack" => ~Answered(m)
  PROVE  OneReplyPerMessage'
<1> DEFINE x == [role |-> role, by |-> r, message |-> m, evidence |-> e]
<1>1. /\ \A i \in DOMAIN log' : (i \in DOMAIN log /\ log'[i] = log[i])
                               \/ (i \notin DOMAIN log /\ log'[i] = x)
      /\ \A i, j \in DOMAIN log' \ DOMAIN log : i = j
  BY Written
<1>2. x.role = role /\ x.message = m
  OBVIOUS
<1> HIDE DEF x
<1>3. \A i, j \in Said' : log'[i].message = log'[j].message => i = j
  BY <1>1, <1>2 DEF Said, Answered, OneReplyPerMessage
<1>4. ASSUME NEW i \in Said' PROVE ~Ack(log[i].message)'
  <2>1. \A n : Ack(n)' <=> Ack(n) \/ (role = "ack" /\ n = m)
    BY WrittenFor
  <2>2. \/ i \in Said /\ log'[i] = log[i]
        \/ role = "assistant" /\ log'[i].message = m
    BY <1>1, <1>2 DEF Said
  <2> QED BY <2>1, <2>2 DEF OneReplyPerMessage, Answered
<1> QED BY <1>3, <1>4 DEF OneReplyPerMessage


\* The entries that Write adds are of turns and requests that have begun.
LEMMA BegunWritten ==
  ASSUME IInv, Begun, NEW role \in {"user", "ack", "assistant"}, NEW r \in Requests,
         NEW m \in Turns, NEW e, Write(role, r, m, e),
         UNCHANGED versions, thread'.message = thread.message,
         \A q \in Requests : pc[q] # "idle" => pc'[q] # "idle",
         pc'[r] # "idle", pc'[m] # "idle"
  PROVE  Begun'
<1> DEFINE x == [role |-> role, by |-> r, message |-> m, evidence |-> e]
<1>1. \A i \in DOMAIN log' : (i \in DOMAIN log /\ log'[i] = log[i]) \/ log'[i] = x
  BY Written
<1>2. x.by = r /\ x.message = m
  OBVIOUS
<1>3. /\ log \in Seq(Entries) /\ versions \in Seq(Versions) /\ thread \in GraphStates
  BY DEF IInv, LogOK, VersionsOK, RunsOK, SaneState
<1>4. /\ \A i \in DOMAIN log : log[i].by \in Requests /\ log[i].message \in Requests
      /\ \A i \in DOMAIN versions : versions[i].message \in Requests
      /\ thread.message # None => thread.message \in Requests
  <2>1. /\ \A i \in DOMAIN log : log[i] \in Entries
        /\ \A i \in DOMAIN versions : versions[i] \in Versions
    BY <1>3
  <2> QED BY <1>3, <2>1, Kinds DEF Entries, Versions, GraphStates
<1> HIDE DEF x
<1> QED BY <1>1, <1>2, <1>4 DEF Begun

LEMMA OnceQuiet ==
  ASSUME IInv, OnceInv, Quiet
  PROVE  OnceInv'
<1>1. /\ \A i \in DOMAIN log : log[i].by \in Requests /\ log[i].message \in Requests
      /\ \A i \in DOMAIN versions : versions[i].message \in Requests
      /\ thread.message # None => thread.message \in Requests
  <2>1. /\ \A i \in DOMAIN log : log[i] \in Entries
        /\ \A i \in DOMAIN versions : versions[i] \in Versions
    BY DEF IInv, LogOK, VersionsOK
  <2> QED BY <2>1, Kinds DEF IInv, RunsOK, SaneState, Entries, Versions, GraphStates
<1>2. /\ UNCHANGED Said /\ \A n : /\ Answered(n)' <=> Answered(n)
                                  /\ Ack(n)' <=> Ack(n)
  BY DEF Quiet, Answered, Said, Ack
<1>3. /\ \A i \in DOMAIN versions' :
           \/ i \in DOMAIN versions /\ versions'[i] = versions[i]
           \/ /\ \A j \in DOMAIN versions' : j <= i
              /\ versions'[i].message = thread.message /\ versions'[i].torn = TRUE
              /\ thread.next = "save_new_paper"
      /\ DOMAIN versions' \subseteq Nat
  <2>1. versions \in Seq(Versions)
    BY DEF IInv, VersionsOK
  <2> QED BY <2>1 DEF Quiet, Torn
<1>4. \A n : Through(n)' => Through(n)
  BY <1>3 DEF Through
<1>5. Begun'
  <2>1. thread.next = "save_new_paper" => thread.message # None
    BY DEF IInv, RunsOK, SaneState, Coherent
  <2> QED BY <1>1, <1>3, <2>1 DEF Quiet, OnceInv, Begun
<1>6. Fresh'
  BY <1>2, <1>4, Kinds DEF Quiet, OnceInv, Fresh
<1>7. Settled'
  BY <1>2, <1>4 DEF Quiet, OnceInv, Settled
<1>8. Streamed'
  BY <1>2 DEF Quiet, OnceInv, Streamed
<1>9. OneReplyPerMessage'
  BY <1>2 DEF Quiet, OnceInv, OneReplyPerMessage
<1>10. OneVersionPerMessage'
  <2>1. thread.next = "save_new_paper" => ~Through(thread.message)
    BY DEF OnceInv, Settled
  <2> QED BY <1>3, <2>1 DEF OnceInv, OneVersionPerMessage, Through
<1> QED BY <1>5, <1>6, <1>7, <1>8, <1>9, <1>10 DEF OnceInv

\* A message is committed while no request is in progress.
LEMMA OnceSent ==
  ASSUME IInv, OnceInv, NEW t \in Turns, pc[t] = "idle",
         \A q \in Requests : ~Active(q), Write("user", t, t, None),
         NEW w \in {"loaded", "failed"}, pc' = [pc EXCEPT ![t] = w],
         UNCHANGED <<thread, reply, versions>>
  PROVE  OnceInv'
<1>1. pc \in [Requests -> Places] /\ t \in Requests
  BY Kinds DEF IInv, ControlOK
<1>2. \A n : /\ Answered(n)' <=> Answered(n)
             /\ Ack(n)' <=> Ack(n)
             /\ Through(n)' <=> Through(n)
  BY <1>1, WrittenFor DEF Through
<1>3. Begun'
  BY <1>1, BegunWritten DEF OnceInv
<1>4. Fresh'
  <2>1. \A u \in Turns : pc'[u] = "loaded" => u = t
    BY <1>1, Kinds DEF Active
  <2>2. ~Answered(t) /\ ~Ack(t) /\ ~Through(t)
    BY DEF OnceInv, Begun, Answered, Said, Ack, Through
  <2> QED BY <1>2, <2>1, <2>2 DEF Fresh
<1>5. Settled'
  BY <1>2 DEF OnceInv, Settled
<1>6. Streamed'
  BY <1>2 DEF OnceInv, Streamed, Active
<1>7. OneReplyPerMessage'
  BY <1>1, OneReplyWritten DEF OnceInv
<1>8. OneVersionPerMessage'
  BY DEF OnceInv, OneVersionPerMessage
<1> QED BY <1>3, <1>4, <1>5, <1>6, <1>7, <1>8 DEF OnceInv

LEMMA OnceStored ==
  ASSUME IInv, Sequential, OnceInv, NEW t \in Turns, StoreInput(t)
  PROVE  OnceInv'
<1>1. /\ pc \in [Requests -> Places] /\ t \in Requests /\ pc[t] = "loaded"
      /\ pc' = [pc EXCEPT ![t] = "routing"] /\ UNCHANGED <<reply, log, versions>>
      /\ thread'.message = t
  BY Kinds DEF IInv, ControlOK, StoreInput, Go, Sequential, InStep
<1>2. \A q \in Requests : q # t => pc[q] \in {"idle", "done", "failed"}
  BY <1>1, Rest DEF Active
<1>3. ~Answered(t) /\ ~Ack(t) /\ ~Through(t)
  BY <1>1 DEF OnceInv, Fresh
<1>4. /\ UNCHANGED Said /\ \A n : /\ Answered(n)' <=> Answered(n)
                                  /\ Ack(n)' <=> Ack(n)
                                  /\ Through(n)' <=> Through(n)
  BY <1>1 DEF Answered, Said, Ack, Through
<1>5. Begun'
  BY <1>1 DEF OnceInv, Begun
<1>6. Fresh'
  BY <1>1, <1>2, Kinds DEF Fresh
<1>7. Settled'
  BY <1>1, <1>3, <1>4 DEF Settled
<1>8. Streamed'
  BY <1>1, <1>2 DEF OnceInv, Streamed
<1>9. OneReplyPerMessage' /\ OneVersionPerMessage'
  BY <1>1, <1>4 DEF OnceInv, OneReplyPerMessage, OneVersionPerMessage
<1> QED BY <1>5, <1>6, <1>7, <1>8, <1>9 DEF OnceInv

\* The router decides, and acknowledges the message or not.
LEMMA OnceRouted ==
  ASSUME IInv, Sequential, OnceInv, NEW t \in Turns, pc[t] = "routing",
         NEW a \in Decisions(state[t]), thread' = Routed(state[t], a),
         NEW w \in {"routed", "failed"}, pc' = [pc EXCEPT ![t] = w],
         reply' = reply \/ reply' = [reply EXCEPT ![t] = None],
         UNCHANGED versions,
         UNCHANGED log \/ (a \in DocumentActions /\ Write("ack", t, t, None))
  PROVE  OnceInv'
<1>1. /\ thread.message = t /\ thread.next = "router" /\ thread'.message = t
      /\ thread'.next \in Speaking \cup {"outline", "generate"}
      /\ a \in DocumentActions => thread'.next \in {"outline", "generate"}
      /\ pc \in [Requests -> Places] /\ t \in Requests
      /\ reply \in [Requests -> Replies \cup {None}]
  BY RouterEffect, Kinds DEF IInv, ControlOK, RunsOK
<1>2. \A q \in Requests : q # t => pc[q] \in {"idle", "done", "failed"}
  BY <1>1, Rest DEF Active
<1>3. \A q \in Requests : reply[q] = None /\ reply'[q] = None
  BY <1>1, <1>2 DEF OnceInv, Streamed
<1>4. ~Answered(t) /\ ~Ack(t) /\ ~Through(t)
  BY <1>1 DEF OnceInv, Settled
<1>5. \A n : /\ Answered(n)' <=> Answered(n)
             /\ Through(n)' <=> Through(n)
             /\ Ack(n)' => Ack(n) \/ (n = t /\ a \in DocumentActions)
  <2>1. CASE UNCHANGED log
    BY <2>1 DEF Answered, Said, Ack, Through
  <2>2. CASE a \in DocumentActions /\ Write("ack", t, t, None)
    BY <1>1, <2>2, WrittenFor DEF Through
  <2> QED BY <2>1, <2>2
<1>6. Begun'
  <2>1. CASE UNCHANGED log
    BY <1>1, <2>1 DEF OnceInv, Begun
  <2>2. CASE Write("ack", t, t, None)
    BY <1>1, <2>2, BegunWritten DEF OnceInv
  <2> QED BY <2>1, <2>2
<1>7. Fresh'
  BY <1>1, <1>2, Kinds DEF Fresh
<1>8. Settled'
  BY <1>1, <1>4, <1>5 DEF Settled, Speaking
<1>9. Streamed'
  BY <1>3 DEF Streamed
<1>10. OneReplyPerMessage'
  <2>1. CASE UNCHANGED log
    BY <2>1 DEF OnceInv, OneReplyPerMessage, Said, Ack
  <2>2. CASE Write("ack", t, t, None)
    BY <1>1, <1>4, <2>2, OneReplyWritten DEF OnceInv
  <2> QED BY <2>1, <2>2
<1>11. OneVersionPerMessage'
  BY DEF OnceInv, OneVersionPerMessage
<1> QED BY <1>6, <1>7, <1>8, <1>9, <1>10, <1>11 DEF OnceInv

\* Every node leaves the thread where it tells what was written for the message.
LEMMA OnceNode ==
  ASSUME IInv, Sequential, OnceInv, NEW r \in Requests, RunNode(r)
  PROVE  OnceInv'
<1>1. /\ pc[r] = "running" /\ UNCHANGED <<pc, log>>
      /\ thread'.message = thread.message /\ thread.next # "end"
  BY NodeEffect
<1>2. /\ UNCHANGED Said /\ \A n : (Answered(n)' <=> Answered(n)) /\ (Ack(n)' <=> Ack(n))
  BY <1>1 DEF Answered, Said, Ack
<1>3. /\ thread \in GraphStates /\ Coherent(thread) /\ versions \in Seq(Versions)
      /\ reply \in [Requests -> Replies \cup {None}]
  BY DEF IInv, RunsOK, SaneState, VersionsOK
<1>4. \A q \in Requests : q # r => pc[q] # "running" /\ pc[q] # "loaded"
  BY <1>1, Rest DEF Active
<1>5. /\ \A i \in DOMAIN versions' :
           \/ /\ i \in DOMAIN versions /\ versions'[i].message = versions[i].message
              /\ versions'[i].torn = versions[i].torn
           \/ /\ \A j \in DOMAIN versions' : j <= i
              /\ versions'[i].message = thread.message /\ thread.next = "save_new_paper"
      /\ DOMAIN versions' \subseteq Nat
  <2>1. CASE thread.next = "save_new_paper"
    <3>1. PICK x : x.message = thread.message /\ versions' = Append(versions, x)
      BY <2>1, NodeEffect
    <3> QED BY <1>3, <2>1, <3>1
  <2>2. CASE thread.next = "evaluate_document"
    BY <1>3, <2>2, NodeEffect
  <2>3. CASE UNCHANGED versions
    BY <1>3, <2>3
  <2> QED BY <1>1, <1>3, <2>1, <2>2, <2>3, NodeEffect DEF GraphStates, Nodes, Speaking
<1>6. Through(thread.message)' => Through(thread.message) \/ thread.next = "save_new_paper"
  BY <1>1, <1>5 DEF Through
<1>7. Begun'
  <2>1. thread.message # None
    BY <1>1, <1>3 DEF Coherent
  <2> QED BY <1>1, <1>5, <2>1 DEF OnceInv, Begun
<1>8. Fresh'
  BY <1>1, <1>4, Kinds DEF Fresh
<1>9. Settled'
  <2>1. ~Answered(thread.message)'
    BY <1>1, <1>2 DEF OnceInv, Settled
  <2>2. Ack(thread.message) => thread'.next \notin Speaking \cup {"router"}
    BY <1>1, <1>3, NodeEffect DEF OnceInv, Settled, GraphStates, Nodes, Speaking
  <2>3. Through(thread.message) \/ thread.next = "save_new_paper" =>
          thread'.next \in {"evaluate_document", "end"}
    BY <1>1, NodeEffect DEF OnceInv, Settled
  <2> QED BY <1>1, <1>2, <1>6, <2>1, <2>2, <2>3 DEF Settled
<1>10. Streamed'
  <2> SUFFICES ASSUME NEW q \in Requests, reply'[q] # None
               PROVE  /\ pc[q] = "running" /\ reply'[q].message = thread.message
                      /\ thread'.next \in {"chinese_prevent", "end"} /\ thread'.paper = "none"
                      /\ ~Ack(thread.message)
    BY <1>1, <1>2 DEF Streamed
  <2>1. CASE thread.next \in Speaking
    <3>1. reply[q] = None
      BY <2>1 DEF OnceInv, Streamed, Speaking
    <3>2. q = r /\ reply'[q].message = thread.message
      BY <1>3, <2>1, <3>1, NodeEffect
    <3>3. thread.paper = "none" /\ ~Ack(thread.message)
      BY <1>3, <2>1 DEF Coherent, OnceInv, Settled
    <3> QED BY <1>1, <2>1, <3>2, <3>3, NodeEffect
  <2>2. CASE thread.next \notin Speaking
    <3>1. UNCHANGED reply
      BY <1>1, <1>3, <2>2, NodeEffect DEF GraphStates, Nodes, Speaking
    <3>2. /\ pc[q] = "running" /\ reply[q].message = thread.message
          /\ thread.next = "chinese_prevent" /\ thread.paper = "none" /\ ~Ack(thread.message)
      BY <1>1, <3>1 DEF OnceInv, Streamed
    <3> QED BY <3>1, <3>2, NodeEffect
  <2> QED BY <2>1, <2>2
<1>11. OneReplyPerMessage'
  BY <1>1, <1>2 DEF OnceInv, OneReplyPerMessage
<1>12. OneVersionPerMessage'
  <2>1. thread.next = "save_new_paper" => ~Through(thread.message)
    BY DEF OnceInv, Settled
  <2> QED BY <1>5, <2>1 DEF OnceInv, OneVersionPerMessage, Through
<1> QED BY <1>7, <1>8, <1>9, <1>10, <1>11, <1>12 DEF OnceInv

\* The reply is written when its run is over.
LEMMA OnceFinished ==
  ASSUME IInv, Sequential, OnceInv, NEW r \in Requests, Finish(r)
  PROVE  OnceInv'
<1>1. /\ pc[r] = "running" /\ pc' = [pc EXCEPT ![r] = "done"]
      /\ reply' = [reply EXCEPT ![r] = None] /\ UNCHANGED <<thread, versions>>
      /\ pc \in [Requests -> Places] /\ reply \in [Requests -> Replies \cup {None}]
  BY DEF Finish, At, End, Go, IInv, ControlOK, RunsOK
<1>2. thread.next = "end"
  BY <1>1 DEF Finish, At, Sequential, InStep
<1>3. \A q \in Requests : q # r => pc[q] \in {"idle", "done", "failed"}
  BY <1>1, Rest DEF Active
<1>4. \A q \in Requests : reply'[q] = None
  BY <1>1, <1>3 DEF OnceInv, Streamed
<1>5. CASE UNCHANGED log
  <2>1. Quiet
    <3>1. UNCHANGED action
      BY DEF Finish
    <3> QED BY <1>1, <1>4, <1>5, <3>1 DEF Quiet
  <2> QED BY <2>1, OnceQuiet
<1>6. CASE reply[r] # None /\ Write("assistant", r, reply[r].message, reply[r].evidence)
  <2> DEFINE m == reply[r].message
  <2>1. m \in Turns /\ m = thread.message /\ ~Ack(m) /\ ~Answered(m)
    <3>1. reply[r] \in Replies
      BY <1>1, <1>6
    <3> QED BY <1>6, <3>1 DEF Replies, OnceInv, Streamed, Settled
  <2>2. Write("assistant", r, m, reply[r].evidence)
    BY <1>6
  <2> HIDE DEF m
  <2>3. \A n : /\ Answered(n)' => Answered(n) \/ n = m
               /\ Ack(n)' <=> Ack(n)
               /\ Through(n)' <=> Through(n)
    BY <1>1, <2>1, <2>2, WrittenFor DEF Through
  <2>4. Begun'
    <3>1. pc'[m] # "idle"
      BY <1>1, <2>1, Kinds DEF OnceInv, Begun
    <3> QED BY <1>1, <2>1, <2>2, <3>1, BegunWritten DEF OnceInv
  <2>5. Fresh'
    BY <1>1, <1>3, Kinds DEF Fresh
  <2>6. Settled'
    BY <1>1, <1>2, <1>4, <2>3 DEF OnceInv, Settled
  <2>7. Streamed'
    BY <1>4 DEF Streamed
  <2>8. OneReplyPerMessage'
    BY <2>1, <2>2, OneReplyWritten DEF OnceInv
  <2>9. OneVersionPerMessage'
    BY <1>1 DEF OnceInv, OneVersionPerMessage
  <2> QED BY <2>4, <2>5, <2>6, <2>7, <2>8, <2>9 DEF OnceInv
<1> QED BY <1>5, <1>6 DEF Finish

LEMMA OnceStep ==
  ASSUME OneRequest, IInv, Sequential, OnceInv, [Next]_vars
  PROVE  OnceInv'
<1>1. ASSUME NEW t \in Turns, Begin(t) \/ LookupFails(t) PROVE OnceInv'
  BY <1>1, NobodyElse, OnceSent DEF Begin, LookupFails, MaySend, Go
<1>2. ASSUME NEW t \in Turns, Route(t) PROVE OnceInv'
  BY <1>2, OnceRouted DEF Route, Go
<1>3. ASSUME NEW t \in Turns, DecideFails(t) PROVE OnceInv'
  BY <1>3, OnceRouted DEF DecideFails, End, Go
<1> QED BY <1>1, <1>2, <1>3, QuietOrLoud, OnceQuiet, OnceStored, OnceNode, OnceFinished DEF Loud

LEMMA OnceHolds ==
  ASSUME OneRequest
  PROVE  Spec => []OnceInv
<1>1. Init => OnceInv
  BY DEF Init, OnceInv, Begun, Fresh, Settled, Streamed, OneReplyPerMessage,
         OneVersionPerMessage, NewThread, Answered, Said, Ack, Through
<1>2. IInv /\ Sequential /\ OnceInv /\ [Next]_vars => OnceInv'
  BY OnceStep
<1> QED BY <1>1, <1>2, Inductive, OneAtATime, PTL DEF Spec

\* One request at a time: no message is answered twice, or answered as well as
\* acknowledged, whatever fails and however often continue is called
\* (chat_service.py, _stream_assistant_reply).
THEOREM RepliedOnce ==
  ASSUME OneRequest
  PROVE  Spec => []OneReplyPerMessage
<1>1. OnceInv => OneReplyPerMessage
  BY DEF OnceInv
<1> QED BY <1>1, OnceHolds, PTL

\* One request at a time: a document request is saved again only after a run that saved
\* it broke off behind the commit of its row, whatever else fails and is resumed
\* (save_new_paper.py:37).
THEOREM SavedOnce ==
  ASSUME OneRequest
  PROVE  Spec => []OneVersionPerMessage
<1>1. OnceInv => OneVersionPerMessage
  BY DEF OnceInv
<1> QED BY <1>1, OnceHolds, PTL

-----------------------------------------------------------------------------
(***************************************************************************)
(* The opening turn                                                         *)
(***************************************************************************)
LEMMA EnteredWritten ==
  ASSUME IInv, NEW role \in {"user", "ack", "assistant"}, NEW r \in Requests,
         NEW m \in Turns, NEW e, Write(role, r, m, e)
  PROVE  /\ Entered(m)' /\ \A t : Entered(t) => Entered(t)'
         /\ \A t, u : Before(t, u) => Before(t, u)'
         /\ \A t : Entered(t) => Before(t, m)'
<1> DEFINE x == [role |-> role, by |-> r, message |-> m, evidence |-> e]
           new == Len(log) + 1
<1>1. /\ \A i \in DOMAIN log : i \in DOMAIN log' /\ log'[i] = log[i] /\ i < new
      /\ new \in DOMAIN log' /\ log'[new] = x
  BY Written
<1>2. x.message = m
  OBVIOUS
<1> HIDE DEF x, new
<1>3. Entered(m)' /\ \A t : Entered(t) => Entered(t)'
  BY <1>1, <1>2 DEF Entered
<1>4. \A t, u : Before(t, u) => Before(t, u)'
  BY <1>1 DEF Before
<1>5. \A t : Entered(t) => Before(t, m)'
  BY <1>1, <1>2 DEF Entered, Before
<1> QED BY <1>3, <1>4, <1>5

LEMMA OpeningIsAction == "opening" # None
BY ConstantsOK DEF Actions

\* Steps that decide nothing keep what is known of the opening.
LEMMA OpenedKept ==
  ASSUME OpenedInv, UNCHANGED action,
         thread.humans \subseteq thread'.humans,
         \A t : Entered(t) => Entered(t)',
         \A t, u : Before(t, u) => Before(t, u)',
         \A t \in Turns : pc'[t] = "routing" => t \in thread'.humans,
         \A t \in Turns : pc'[t] \in {"loaded", "routing"} =>
           pc[t] \in {"loaded", "routing"} \/
             (Entered(t)' /\ \A u \in Turns : Entered(u) => Before(u, t)')
  PROVE  OpenedInv'
<1>1. \A t \in Turns : action[t] = "opening" => Entered(t)
  BY OpeningIsAction DEF OpenedInv
<1>2. /\ \A t \in Turns : action'[t] # None \/ pc'[t] = "routing" => t \in thread'.humans
      /\ \A t \in Turns : action'[t] # None \/ pc'[t] \in {"loaded", "routing"} => Entered(t)'
  BY DEF OpenedInv
<1>3. \A t, u \in Turns :
        action'[t] = "opening" /\ u # t /\ pc'[u] \in {"loaded", "routing"} => Before(t, u)'
  BY <1>1 DEF OpenedInv
<1>4. OpeningOnce'
  BY DEF OpenedInv, OpeningOnce, Before
<1> QED BY <1>2, <1>3, <1>4 DEF OpenedInv

\* Two messages in the thread: no later turn is the opening.
LEMMA OpeningIsAlone ==
  ASSUME IInv, NEW t \in thread.humans, NEW u \in thread.humans, IsOpening(thread)
  PROVE  t = u
<1>1. IsFiniteSet(thread.humans)
  <2>1. thread.humans \in SUBSET Turns
    BY DEF IInv, RunsOK, SaneState, GraphStates
  <2> QED BY <2>1, ConstantsOK, FS_Subset
<1>2. Cardinality(thread.humans) = 1
  BY DEF IsOpening
<1> QED BY <1>1, <1>2, FS_Singleton

LEMMA OpenedRouted ==
  ASSUME IInv, Sequential, OpenedInv, NEW t \in Turns, pc[t] = "routing",
         NEW a \in Decisions(state[t]), thread' = Routed(state[t], a),
         NEW w \in {"routed", "failed"}, pc' = [pc EXCEPT ![t] = w],
         action' = [action EXCEPT ![t] = a],
         UNCHANGED log \/ Write("ack", t, t, None)
  PROVE  OpenedInv'
<1>1. /\ thread'.humans = thread.humans /\ state[t] = thread
      /\ pc \in [Requests -> Places] /\ t \in Requests
      /\ action \in [Turns -> Actions \cup {None}]
  BY RouterEffect, Kinds DEF IInv, ControlOK
<1>2. \A q \in Requests : q # t => pc'[q] \in {"idle", "done", "failed"}
  BY <1>1, Rest DEF Active
<1>3. \A q \in Turns : pc'[q] \notin {"loaded", "routing"}
  BY <1>1, <1>2, Kinds
<1>4. /\ \A u : Entered(u) => Entered(u)'
      /\ \A u, v : Before(u, v) => Before(u, v)'
  <2>1. CASE UNCHANGED log
    BY <2>1 DEF Entered, Before
  <2>2. CASE Write("ack", t, t, None)
    BY <1>1, <2>2, EnteredWritten
  <2> QED BY <2>1, <2>2
<1>5. t \in thread.humans /\ Entered(t)
  BY DEF OpenedInv
<1>6. \A u \in Turns : action'[u] # None => u = t \/ (action'[u] = action[u] /\ action[u] # None)
  BY <1>1
<1>7. /\ \A u \in Turns : action'[u] # None => u \in thread'.humans
      /\ \A u \in Turns : action'[u] # None => Entered(u)'
  BY <1>1, <1>4, <1>5, <1>6 DEF OpenedInv
<1>8. OpeningOnce'
  <2> SUFFICES ASSUME NEW v \in Turns, action'[v] = "opening",
                      NEW u \in Turns, action'[u] # None, u # v
               PROVE  action'[u] # "opening" /\ Before(v, u)'
    BY OpeningIsAction DEF OpeningOnce, Before
  <2>1. v \in thread.humans /\ u \in thread.humans
    BY <1>1, <1>7, OpeningIsAction
  <2>2. ~IsOpening(thread)
    BY <2>1, OpeningIsAlone
  <2>3. a # "opening"
    BY <1>1, <2>2 DEF Decisions, DocumentActions
  <2>4. v # t /\ action[v] = "opening"
    BY <1>1, <2>3
  <2>5. CASE u = t
    BY <1>1, <1>4, <2>3, <2>4, <2>5 DEF OpenedInv
  <2>6. CASE u # t
    <3>1. action[u] = action'[u]
      BY <1>1, <2>6
    <3>2. action[u] # "opening" /\ Before(v, u)
      BY <2>4, <3>1 DEF OpenedInv, OpeningOnce, Before
    <3> QED BY <1>4, <3>1, <3>2
  <2> QED BY <2>5, <2>6
<1> QED BY <1>3, <1>7, <1>8 DEF OpenedInv

LEMMA OpenedStep ==
  ASSUME OneRequest, IInv, Sequential, OpenedInv, [Next]_vars
  PROVE  OpenedInv'
<1>1. /\ pc \in [Requests -> Places] /\ thread.humans \subseteq thread'.humans
  BY Remembers DEF IInv, ControlOK
<1>2. ASSUME UNCHANGED log
      PROVE  (\A t : Entered(t) => Entered(t)') /\ \A t, u : Before(t, u) => Before(t, u)'
  BY <1>2 DEF Entered, Before
<1>3. CASE Quiet
  <2>1. \A t \in Turns : pc'[t] \in {"loaded", "routing"} => pc'[t] = pc[t]
    BY <1>3, Kinds DEF Quiet
  <2>2. \A t \in Turns : pc[t] = "routing" => t \in thread.humans
    BY DEF OpenedInv
  <2> QED BY <1>1, <1>2, <1>3, <2>1, <2>2, OpenedKept DEF Quiet
<1>4. ASSUME NEW t \in Turns, pc[t] = "idle", \A q \in Requests : ~Active(q),
             Write("user", t, t, None), NEW w \in {"loaded", "failed"},
             pc' = [pc EXCEPT ![t] = w], UNCHANGED action
      PROVE  OpenedInv'
  <2>1. \A u \in Turns : pc'[u] # "routing" /\ (pc'[u] = "loaded" => u = t)
    BY <1>1, <1>4, Kinds DEF Active
  <2>2. /\ Entered(t)' /\ \A u : Entered(u) => Entered(u)' /\ Before(u, t)'
        /\ \A u, v : Before(u, v) => Before(u, v)'
    BY <1>4, Kinds, EnteredWritten
  <2> QED BY <1>1, <1>4, <2>1, <2>2, OpenedKept
<1>5. ASSUME NEW t \in Turns, Begin(t) \/ LookupFails(t) PROVE OpenedInv'
  BY <1>4, <1>5, NobodyElse DEF Begin, LookupFails, MaySend, Go
<1>6. ASSUME NEW t \in Turns, StoreInput(t) PROVE OpenedInv'
  <2>1. /\ pc[t] = "loaded" /\ pc' = [pc EXCEPT ![t] = "routing"]
        /\ t \in thread'.humans /\ UNCHANGED <<action, log>>
    BY <1>6, Kinds DEF StoreInput, Go, Sequential, InStep
  <2>2. \A u \in Turns : pc'[u] \in {"loaded", "routing"} => u = t
    BY <1>1, <2>1, Kinds, Rest DEF Active
  <2> QED BY <1>1, <1>2, <2>1, <2>2, OpenedKept
<1>7. ASSUME NEW t \in Turns, Route(t) PROVE OpenedInv'
  BY <1>7, OpenedRouted DEF Route, Go
<1>8. ASSUME NEW t \in Turns, DecideFails(t) PROVE OpenedInv'
  BY <1>8, OpenedRouted DEF DecideFails, End, Go
<1>9. ASSUME NEW r \in Requests, pc[r] = "running", UNCHANGED action,
             pc' = pc \/ pc' = [pc EXCEPT ![r] = "done"],
             \A t : Entered(t) => Entered(t)',
             \A t, u : Before(t, u) => Before(t, u)'
      PROVE  OpenedInv'
  <2>1. \A u \in Turns : pc'[u] \notin {"loaded", "routing"}
    BY <1>1, <1>9, Kinds, Rest DEF Active
  <2> QED BY <1>1, <1>9, <2>1, OpenedKept
<1>10. ASSUME NEW r \in Requests, RunNode(r) PROVE OpenedInv'
  BY <1>2, <1>9, <1>10, NodeEffect
<1>11. ASSUME NEW r \in Requests, Finish(r) PROVE OpenedInv'
  <2>1. /\ pc[r] = "running" /\ pc' = [pc EXCEPT ![r] = "done"] /\ UNCHANGED action
        /\ UNCHANGED log \/ (reply[r] # None /\ Write("assistant", r, reply[r].message, reply[r].evidence))
    BY <1>11 DEF Finish, At, End, Go
  <2>2. reply[r] # None => reply[r].message \in Turns
    BY DEF IInv, RunsOK, Replies
  <2> QED BY <1>2, <1>9, <2>1, <2>2, EnteredWritten
<1> QED BY <1>3, <1>5, <1>6, <1>7, <1>8, <1>10, <1>11, QuietOrLoud DEF Loud

\* One request at a time: only the first message that the router decided opens
\* the manuscript, whatever failed before it (router.py).
THEOREM OpenedOnce ==
  ASSUME OneRequest
  PROVE  Spec => []OpeningOnce
<1>1. Init => OpenedInv
  BY Kinds, OpeningIsAction DEF Init, OpenedInv, OpeningOnce, Entered
<1>2. IInv /\ Sequential /\ OpenedInv /\ [Next]_vars => OpenedInv'
  BY OpenedStep
<1>3. OpenedInv => OpeningOnce
  BY DEF OpenedInv
<1> QED BY <1>1, <1>2, <1>3, Inductive, OneAtATime, PTL DEF Spec
-----------------------------------------------------------------------------
(***************************************************************************)
(* Messages reach the thread                                                *)
(***************************************************************************)
LEMMA ReachKept ==
  ASSUME IInv, ReachInv, thread.humans \subseteq thread'.humans,
         \A t \in Turns : pc[t] = "loaded" => pc'[t] = "loaded" \/ t \in thread'.humans,
         \/ UNCHANGED log
         \/ \E e : \E role \in {"user", "ack", "assistant"}, r \in Requests, m \in Turns :
              /\ Write(role, r, m, e)
              /\ role = "user" => r = m /\ pc'[m] = "loaded"
  PROVE  ReachInv'
<1>1. \A i \in DOMAIN log : log[i].role = "user" =>
        /\ log[i].by = log[i].message
        /\ pc'[log[i].by] = "loaded" \/ log[i].message \in thread'.humans
  <2>1. \A i \in DOMAIN log : log[i].message \in Turns
    <3>1. \A i \in DOMAIN log : log[i] \in Entries
      BY DEF IInv, LogOK
    <3> QED BY <3>1 DEF Entries
  <2> QED BY <2>1 DEF ReachInv, MessagesReachThread
<1>2. CASE UNCHANGED log
  BY <1>1, <1>2 DEF ReachInv, MessagesReachThread
<1>3. ASSUME NEW role \in {"user", "ack", "assistant"}, NEW r \in Requests, NEW m \in Turns,
             NEW e, Write(role, r, m, e), role = "user" => r = m /\ pc'[m] = "loaded"
      PROVE  ReachInv'
  <2>1. \A i \in DOMAIN log' :
          \/ i \in DOMAIN log /\ log'[i] = log[i]
          \/ log'[i].role = role /\ log'[i].by = r /\ log'[i].message = m
    BY <1>3, Written
  <2> QED BY <1>1, <1>3, <2>1 DEF ReachInv, MessagesReachThread
<1> QED BY <1>2, <1>3

LEMMA ReachStep ==
  ASSUME OneRequest, NoneLost, IInv, Sequential, ReachInv, [Next]_vars
  PROVE  ReachInv'
<1>1. pc \in [Requests -> Places] /\ thread.humans \subseteq thread'.humans
  BY Remembers DEF IInv, ControlOK
<1>2. CASE Quiet
  BY <1>1, <1>2, ReachKept, Kinds DEF Quiet, NoneLost
<1>3. ASSUME NEW t \in Turns, Begin(t) PROVE ReachInv'
  <2>1. Write("user", t, t, None) /\ pc' = [pc EXCEPT ![t] = "loaded"]
    BY <1>3 DEF Begin, Go
  <2>2. pc'[t] = "loaded" /\ \A u \in Turns : pc[u] = "loaded" => pc'[u] = "loaded"
    BY <1>1, <2>1, Kinds
  <2> QED BY <1>1, <2>1, <2>2, ReachKept, Kinds
<1>4. ASSUME NEW t \in Turns, StoreInput(t) PROVE ReachInv'
  <2>1. pc' = [pc EXCEPT ![t] = "routing"] /\ t \in thread'.humans /\ UNCHANGED log
    BY <1>4, Kinds DEF StoreInput, Go, Sequential, InStep
  <2>2. \A u \in Turns : pc[u] = "loaded" => pc'[u] = "loaded" \/ u \in thread'.humans
    BY <1>1, <2>1, Kinds
  <2> QED BY <1>1, <2>1, <2>2, ReachKept
<1>5. ASSUME NEW r \in Requests, pc[r] # "loaded", NEW w, pc' = [pc EXCEPT ![r] = w],
             \/ UNCHANGED log
             \/ \E e : \E role \in {"ack", "assistant"}, m \in Turns : Write(role, r, m, e)
      PROVE  ReachInv'
  <2>1. \A u \in Turns : pc[u] = "loaded" => pc'[u] = "loaded"
    BY <1>1, <1>5, Kinds
  <2> QED BY <1>1, <1>5, <2>1, ReachKept
<1>6. ASSUME NEW t \in Turns, Route(t) PROVE ReachInv'
  BY <1>5, <1>6, Kinds DEF Route, Go
<1>7. ASSUME NEW t \in Turns, LookupFails(t) \/ DecideFails(t) PROVE ReachInv'
  BY <1>7 DEF LookupFails, DecideFails, NoneLost
<1>8. ASSUME NEW r \in Requests, RunNode(r) PROVE ReachInv'
  BY <1>1, <1>8, NodeEffect, ReachKept
<1>9. ASSUME NEW r \in Requests, Finish(r) PROVE ReachInv'
  <2>1. /\ pc[r] = "running" /\ pc' = [pc EXCEPT ![r] = "done"]
        /\ UNCHANGED log \/ (reply[r] # None /\ Write("assistant", r, reply[r].message, reply[r].evidence))
    BY <1>9 DEF Finish, At, End, Go
  <2>2. reply[r] # None => reply[r].message \in Turns
    BY DEF IInv, RunsOK, Replies
  <2> QED BY <1>5, <2>1, <2>2
<1> QED BY <1>2, <1>3, <1>4, <1>6, <1>7, <1>8, <1>9, QuietOrLoud DEF Loud

\* One request at a time, in a process that lives and finds evidence: a committed
\* message is in the thread, though nodes raise and streams are cancelled
\* (chat_service.py commits it, chat_graph_runner.py stores it).
THEOREM MessagesReached ==
  ASSUME OneRequest, NoneLost
  PROVE  Spec => []MessagesReachThread
<1>1. Init => ReachInv
  BY DEF Init, ReachInv, MessagesReachThread
<1>2. IInv /\ Sequential /\ ReachInv /\ [Next]_vars => ReachInv'
  BY ReachStep
<1>3. ReachInv => MessagesReachThread
  BY DEF ReachInv
<1> QED BY <1>1, <1>2, <1>3, Inductive, OneAtATime, PTL DEF Spec

-----------------------------------------------------------------------------
(***************************************************************************)
(* Replies to the own turn                                                  *)
(***************************************************************************)
\* The log's entries keep their turn: whoever wrote one has begun.
LEMMA OwnLogKept ==
  ASSUME IInv, Begun, OwnInv,
         \A c \in Continues : pc[c] # "idle" => target'[c] = target[c],
         \/ UNCHANGED log
         \/ \E e : \E role \in {"user", "ack", "assistant"}, r \in Requests, m \in Turns :
              /\ Write(role, r, m, e)
              /\ role = "assistant" => m = TurnOf(r)' /\ e \in {None, m}
  PROVE  RepliesToOwnTurn'
<1>1. \A i \in Said : log[i].by \in Requests /\ (log[i].by \notin Turns =>
                         target'[log[i].by] = target[log[i].by])
  <2>1. \A i \in DOMAIN log : log[i] \in Entries
    BY DEF IInv, LogOK
  <2>2. \A i \in DOMAIN log : log[i].by \in Requests /\ pc[log[i].by] # "idle"
    BY <2>1 DEF Entries, Begun
  <2> QED BY <2>2 DEF Said, Requests
<1>2. CASE UNCHANGED log
  BY <1>1, <1>2 DEF OwnInv, RepliesToOwnTurn, Said
<1>3. ASSUME NEW role \in {"user", "ack", "assistant"}, NEW r \in Requests, NEW m \in Turns,
             NEW e, Write(role, r, m, e),
             role = "assistant" => m = TurnOf(r)' /\ e \in {None, m}
      PROVE  RepliesToOwnTurn'
  <2>1. \A i \in DOMAIN log' :
          \/ i \in DOMAIN log /\ log'[i] = log[i]
          \/ /\ log'[i].role = role /\ log'[i].by = r
             /\ log'[i].message = m /\ log'[i].evidence = e
    BY <1>3, Written
  <2>2. \A i \in Said' :
          \/ i \in Said /\ log'[i] = log[i]
          \/ /\ role = "assistant" /\ log'[i].by = r
             /\ log'[i].message = m /\ log'[i].evidence = e
    BY <2>1 DEF Said
  <2>3. role = "assistant" => m = (IF r \in Turns THEN r ELSE target'[r]) /\ e \in {None, m}
    BY <1>3 DEF TurnOf
  <2> QED BY <1>1, <2>2, <2>3 DEF OwnInv, RepliesToOwnTurn
<1> QED BY <1>2, <1>3

\* Steps that neither start a request nor touch the thread or the targets.
LEMMA OwnKept ==
  ASSUME IInv, Begun, OwnInv, UNCHANGED <<thread, target, log>>,
         \A t \in Turns : Unanswered(t)' => Unanswered(t),
         \A r \in Requests :
           /\ pc'[r] = "loaded" => pc[r] = "loaded" /\ state'[r] = state[r]
           /\ Active(r)' => /\ Active(r)
                            /\ pc[r] \in {"loaded", "accepted"} => pc'[r] = pc[r]
           /\ reply'[r] # None => reply'[r] = reply[r]
  PROVE  OwnInv'
<1>1. RepliesToOwnTurn'
  BY OwnLogKept
<1>2. \A r \in Requests : TurnOf(r)' = TurnOf(r)
  BY DEF TurnOf
<1> QED BY <1>1, <1>2, Kinds DEF OwnInv

LEMMA OwnBegin ==
  ASSUME Client = {}, IInv, Begun, OwnInv, NEW t \in Turns, MaySend(t),
         Write("user", t, t, None), UNCHANGED <<thread, target, job, reply>>,
         \/ pc' = [pc EXCEPT ![t] = "failed"]
         \/ pc' = [pc EXCEPT ![t] = "loaded"] /\ state'[t].evidence \in {None, t}
  PROVE  OwnInv'
<1>1. /\ \A u \in Turns : ~Unanswered(u) /\ ~Unanswered(u)'
      /\ \A q \in Requests : ~Active(q)
      /\ pc \in [Requests -> Places] /\ t \in Requests
  BY NobodyElse, Kinds DEF MaySend, OneRequest, Unanswered, IInv, ControlOK
<1>2. RepliesToOwnTurn'
  BY <1>1, OwnLogKept
<1>3. \A r \in Requests : TurnOf(r)' = TurnOf(r) /\ (Active(r)' => r = t)
  BY <1>1 DEF TurnOf, Active
<1>4. pc'[t] \in {"failed", "loaded"}
  BY <1>1
<1>5. \A r \in Requests :
       /\ pc'[r] = "loaded" => state'[r].evidence \in {None, r}
       /\ Active(r)' => pc'[r] = "loaded"
       /\ reply'[r] # None => reply'[r].evidence \in {None, TurnOf(r)'}
  BY <1>1, <1>3, <1>4 DEF Active, OwnInv
<1> QED BY <1>1, <1>2, <1>5 DEF OwnInv

LEMMA OwnStored ==
  ASSUME IInv, Sequential, OnceInv, OwnInv, NEW t \in Turns, StoreInput(t)
  PROVE  OwnInv'
<1>1. /\ pc \in [Requests -> Places] /\ t \in Requests /\ pc[t] = "loaded"
      /\ pc' = [pc EXCEPT ![t] = "routing"]
      /\ UNCHANGED <<state, target, job, reply, log>>
      /\ thread' = state[t] /\ thread'.message = t
  BY Kinds DEF IInv, ControlOK, StoreInput, Go, Sequential, InStep
<1>2. \A q \in Requests : q # t => pc[q] \in {"idle", "done", "failed"}
  BY <1>1, Rest DEF Active
<1>3. \A u \in Turns : ~Unanswered(u) /\ ~Unanswered(u)'
  BY <1>1 DEF OwnInv, Unanswered
<1>4. RepliesToOwnTurn'
  BY <1>1, OwnLogKept DEF OnceInv
<1>5. thread'.evidence \in {None, t} /\ TurnOf(t)' = t
  BY <1>1 DEF OwnInv, TurnOf
<1>6. \A r \in Requests : reply'[r] = None
  BY <1>1, <1>2 DEF OnceInv, Streamed
<1>7. \A r \in Requests : Active(r)' => r = t
  BY <1>1, <1>2 DEF Active
<1>8. \A r \in Requests : pc'[r] # "loaded"
  BY <1>1, <1>2
<1> QED BY <1>1, <1>3, <1>4, <1>5, <1>6, <1>7, <1>8 DEF OwnInv

LEMMA OwnRouted ==
  ASSUME IInv, Sequential, OnceInv, OwnInv, NEW t \in Turns, pc[t] = "routing",
         NEW a \in Decisions(state[t]), thread' = Routed(state[t], a),
         NEW w \in {"routed", "failed"}, pc' = [pc EXCEPT ![t] = w],
         reply' = reply \/ reply' = [reply EXCEPT ![t] = None],
         UNCHANGED target,
         UNCHANGED job \/ job' = [job EXCEPT ![t] = "open"],
         UNCHANGED log \/ Write("ack", t, t, None)
  PROVE  OwnInv'
<1>1. /\ pc \in [Requests -> Places] /\ t \in Requests
      /\ job \in [Turns -> {"none", "open", "ready", "over"}]
      /\ reply \in [Requests -> Replies \cup {None}]
      /\ thread.message = t /\ thread'.message = t /\ thread'.evidence = thread.evidence
  BY RouterEffect, Kinds DEF IInv, ControlOK, RunsOK
<1>2. \A q \in Requests : q # t => pc'[q] \in {"idle", "done", "failed"}
  BY <1>1, Rest DEF Active
<1>3. \A u \in Turns : Unanswered(u)' => u = t \/ Unanswered(u)
  BY <1>1 DEF Unanswered
<1>4. RepliesToOwnTurn'
  BY <1>1, OwnLogKept DEF OnceInv
<1>5. \A r \in Requests : reply[r] = None
  BY <1>1, <1>2 DEF OnceInv, Streamed
<1>6. \A r \in Requests : reply'[r] = None
  BY <1>1, <1>5
<1>7. thread'.evidence \in {None, t} /\ TurnOf(t)' = t
  BY <1>1 DEF OwnInv, TurnOf, Active
<1>8. \A r \in Requests : pc'[r] # "loaded" /\ (Active(r)' => r = t)
  BY <1>1, <1>2 DEF Active
<1> QED BY <1>1, <1>3, <1>4, <1>6, <1>7, <1>8 DEF OwnInv

\* A continue call takes over the research that the thread stands at.
LEMMA OwnContinued ==
  ASSUME Client = {}, IInv, Sequential, OnceInv, OwnInv,
         NEW c \in Continues, NEW t \in Turns, Continue(c, t)
  PROVE  OwnInv'
<1>1. /\ pc \in [Requests -> Places] /\ c \in Requests /\ c \notin Turns
      /\ target \in [Continues -> Turns \cup {None}]
      /\ pc[c] = "idle" /\ pc' = [pc EXCEPT ![c] = "accepted"]
      /\ target' = [target EXCEPT ![c] = t] /\ target[c] = None
      /\ UNCHANGED <<thread, state, job, reply, log>>
      /\ t # None
  BY Kinds DEF IInv, ControlOK, Continue, Go
<1>2. thread.message = t
  BY DEF Continue, OwnInv
<1>3. \A r \in Requests : ~Active(r)
  BY NobodyElse DEF Continue, OneRequest
<1>4. \A r \in Requests : reply[r] = None
  BY <1>3 DEF OnceInv, Streamed, Active
<1>5. RepliesToOwnTurn'
  BY <1>1, OwnLogKept DEF OnceInv
<1>6. \A u \in Turns : Unanswered(u)' => Unanswered(u)
  <2>1. \A u \in Turns : (\A d \in Continues : target'[d] # u) =>
                         \A d \in Continues : target[d] # u
    BY <1>1, Kinds
  <2> QED BY <1>1, <2>1 DEF Unanswered
<1>7. TurnOf(c)' = t /\ \A r \in Requests : Active(r)' => r = c
  BY <1>1, <1>3 DEF TurnOf, Active
<1>8. \A r \in Requests : pc'[r] # "loaded"
  BY <1>1, <1>3 DEF Active
<1> QED BY <1>1, <1>2, <1>4, <1>5, <1>6, <1>7, <1>8 DEF OwnInv

LEMMA OwnUpdated ==
  ASSUME IInv, Sequential, OnceInv, OwnInv, NEW c \in Continues, UpdateEvidence(c)
  PROVE  OwnInv'
<1>1. /\ pc \in [Requests -> Places] /\ c \in Requests /\ c \notin Turns
      /\ pc[c] = "accepted" /\ pc' = [pc EXCEPT ![c] = "updated"]
      /\ UNCHANGED <<target, job, reply, log>> /\ thread \in GraphStates
  BY Kinds DEF IInv, ControlOK, RunsOK, SaneState, UpdateEvidence, Go
<1>2. PICK e \in {target[c], None} : thread' = [thread EXCEPT !.evidence = e]
  BY DEF UpdateEvidence
<1>3. thread'.message = thread.message /\ thread'.evidence = e
  BY <1>1, <1>2 DEF GraphStates
<1>4. \A q \in Requests : q # c => pc[q] \in {"idle", "done", "failed"}
  BY <1>1, Rest DEF Active
<1>5. RepliesToOwnTurn'
  BY <1>1, OwnLogKept DEF OnceInv
<1>6. \A r \in Requests : reply'[r] = None
  BY <1>1, <1>4 DEF OnceInv, Streamed
<1>7. /\ thread.message = target[c] /\ TurnOf(c)' = target[c]
      /\ \A r \in Requests : Active(r)' => r = c
  BY <1>1, <1>4 DEF OwnInv, TurnOf, Active
<1>8. \A r \in Requests : pc'[r] # "loaded"
  BY <1>1, <1>4
<1>9. \A u \in Turns : Unanswered(u)' => Unanswered(u)
  BY <1>1 DEF Unanswered
<1> QED BY <1>1, <1>2, <1>3, <1>5, <1>6, <1>7, <1>8, <1>9 DEF OwnInv

LEMMA OwnNode ==
  ASSUME IInv, Sequential, OnceInv, OwnInv, NEW r \in Requests, RunNode(r)
  PROVE  OwnInv'
<1>1. /\ pc[r] = "running" /\ UNCHANGED <<pc, target, job, log>>
      /\ state' = [state EXCEPT ![r] = thread']
      /\ thread'.message = thread.message /\ thread'.evidence = thread.evidence
      /\ reply \in [Requests -> Replies \cup {None}]
  BY NodeEffect DEF IInv, RunsOK
<1>2. \A q \in Requests : q # r => pc[q] \in {"idle", "done", "failed"}
  BY <1>1, Rest, ZenonT(20) DEF Active, IInv, ControlOK
<1>3. RepliesToOwnTurn'
  BY <1>1, OwnLogKept DEF OnceInv
<1>4. \A q \in Requests : TurnOf(q)' = TurnOf(q)
  BY <1>1 DEF TurnOf
<1>5. thread.evidence \in {None, TurnOf(r)}
  BY <1>1 DEF OwnInv, Active
<1>6. \A q \in Requests : reply'[q] # None =>
        reply'[q] = reply[q] \/ (q = r /\ reply'[q].evidence \in {None, thread.evidence})
  <2>1. CASE UNCHANGED reply
    BY <2>1
  <2>2. CASE \E e \in {None, thread.evidence} :
               reply' = [reply EXCEPT ![r] = [message |-> thread.message, evidence |-> e]]
    BY <1>1, <2>2
  <2> QED BY <2>1, <2>2, NodeEffect DEF IInv, RunsOK, SaneState, GraphStates, Nodes, Speaking
<1>7. \A q \in Requests : reply'[q] # None => reply'[q].evidence \in {None, TurnOf(q)}
  BY <1>5, <1>6 DEF OwnInv
<1>8. /\ \A q \in Requests : pc[q] # "loaded"
      /\ \A u \in Turns : Unanswered(u)' <=> Unanswered(u)
  BY <1>1, <1>2 DEF Unanswered
<1> QED BY <1>1, <1>3, <1>4, <1>7, <1>8 DEF OwnInv, Active

LEMMA OwnFinished ==
  ASSUME IInv, Sequential, OnceInv, OwnInv, NEW r \in Requests, Finish(r)
  PROVE  OwnInv'
<1>1. /\ pc[r] = "running" /\ pc' = [pc EXCEPT ![r] = "done"]
      /\ reply' = [reply EXCEPT ![r] = None] /\ UNCHANGED <<thread, target, job>>
      /\ pc \in [Requests -> Places] /\ reply \in [Requests -> Replies \cup {None}]
  BY DEF Finish, At, End, Go, IInv, ControlOK, RunsOK
<1>2. \A q \in Requests : q # r => pc[q] \in {"idle", "done", "failed"}
  BY <1>1, Rest DEF Active
<1>3. /\ \A q \in Requests : TurnOf(q)' = TurnOf(q)
      /\ \A u \in Turns : Unanswered(u)' <=> Unanswered(u)
  BY <1>1 DEF TurnOf, Unanswered
<1>4. RepliesToOwnTurn'
  <2>1. CASE UNCHANGED log
    BY <1>1, <2>1, OwnLogKept DEF OnceInv
  <2>2. CASE reply[r] # None /\ Write("assistant", r, reply[r].message, reply[r].evidence)
    <3>1. reply[r].message \in Turns /\ reply[r].message = TurnOf(r)
      <4>1. reply[r] \in Replies /\ reply[r].message = thread.message
        BY <1>1, <2>2 DEF OnceInv, Streamed
      <4>2. thread.message = TurnOf(r)
        BY <1>1 DEF OwnInv, Active
      <4> QED BY <4>1, <4>2 DEF Replies
    <3>2. reply[r].evidence \in {None, reply[r].message}
      BY <2>2, <3>1 DEF OwnInv
    <3> QED BY <1>1, <1>3, <2>2, <3>1, <3>2, OwnLogKept DEF OnceInv
  <2> QED BY <2>1, <2>2 DEF Finish
<1>5. \A q \in Requests : /\ ~Active(q)' /\ pc'[q] # "loaded"
                          /\ reply'[q] # None => reply'[q] = reply[q]
  BY <1>1, <1>2 DEF Active
<1> QED BY <1>1, <1>3, <1>4, <1>5 DEF OwnInv

LEMMA OwnStep ==
  ASSUME Client = {}, IInv, Sequential, OnceInv, OwnInv, [Next]_vars
  PROVE  OwnInv'
<1>1. /\ pc \in [Requests -> Places] /\ job \in [Turns -> {"none", "open", "ready", "over"}]
      /\ reply \in [Requests -> Replies \cup {None}] /\ Begun
  BY DEF IInv, ControlOK, RunsOK, OnceInv
<1>2. ASSUME UNCHANGED <<target, job>>
      PROVE  \A t \in Turns : Unanswered(t)' => Unanswered(t)
  BY <1>2 DEF Unanswered
<1>3. ASSUME NEW r \in Requests, NEW w \in Places \ {"idle", "loaded", "accepted"},
             Active(r), pc[r] \notin {"loaded", "accepted"} \/ w \in Over,
             pc' = [pc EXCEPT ![r] = w],
             reply' = reply \/ reply' = [reply EXCEPT ![r] = None],
             UNCHANGED <<thread, target, job, log>>,
             \A q \in Requests : q # r => state'[q] = state[q]
      PROVE  OwnInv'
  <2>1. \A q \in Requests :
           /\ pc'[q] = "loaded" => pc[q] = "loaded" /\ state'[q] = state[q]
           /\ Active(q)' => /\ Active(q)
                            /\ pc[q] \in {"loaded", "accepted"} => pc'[q] = pc[q]
           /\ reply'[q] # None => reply'[q] = reply[q]
    BY <1>1, <1>3 DEF Active
  <2> QED BY <1>1, <1>2, <1>3, <2>1, OwnKept
<1>4. state \in [Requests -> GraphStates]
  BY DEF IInv, RunsOK
<1>5. ASSUME NEW r \in Requests, NEW how \in Over, Active(r), End(r, how),
             UNCHANGED <<thread, target, job, log>>
      PROVE  OwnInv'
  BY <1>3, <1>4, <1>5 DEF End, Go
<1>6. ASSUME NEW t \in Turns, Begin(t) \/ LookupFails(t) PROVE OwnInv'
  <2>1. CASE LookupFails(t)
    BY <1>1, <2>1, OwnBegin DEF LookupFails, Go
  <2>2. CASE Begin(t)
    <3>1. PICK e \in {t, None} : state' = [state EXCEPT ![t] = TurnState(thread, t, e)]
      BY <2>2 DEF Begin
    <3>2. state'[t].evidence = e
      BY <1>4, <3>1, Kinds DEF IInv, RunsOK, SaneState, TurnState, GraphStates
    <3> QED BY <1>1, <2>2, <3>2, OwnBegin DEF Begin, Go
  <2> QED BY <1>6, <2>1, <2>2
<1>7. ASSUME NEW t \in Turns, Route(t) PROVE OwnInv'
  BY <1>7, OwnRouted DEF Route, Go
<1>8. ASSUME NEW t \in Turns, DecideFails(t) PROVE OwnInv'
  BY <1>8, OwnRouted DEF DecideFails, End, Go
<1>9. ASSUME NEW t \in Turns, RouteFails(t) PROVE OwnInv'
  BY <1>5, <1>9, Kinds DEF RouteFails, Active
<1>10. ASSUME NEW t \in Turns, ResearchEnds(t) PROVE OwnInv'
  <2>1. \A u \in Turns : Unanswered(u)' => Unanswered(u)
    BY <1>1, <1>10 DEF ResearchEnds, Unanswered
  <2> QED BY <1>1, <1>10, <2>1, OwnKept DEF ResearchEnds, Active
<1>11. ASSUME NEW t \in Turns, StartStream(t) PROVE OwnInv'
  <2>1. /\ t \in Requests /\ pc[t] = "routed" /\ Active(t)
        /\ UNCHANGED <<thread, target, job, log>>
    BY <1>11, Kinds DEF StartStream, Active
  <2>2. CASE End(t, "done")
    BY <1>5, <2>1, <2>2
  <2>3. CASE Go(t, "scheduled") /\ UNCHANGED <<state, reply>>
    BY <1>3, <2>1, <2>3 DEF Go
  <2>4. CASE state' = [state EXCEPT ![t] = thread] /\ Go(t, "running") /\ UNCHANGED reply
    BY <1>3, <1>4, <2>1, <2>4 DEF Go
  <2> QED BY <1>11, <2>2, <2>3, <2>4 DEF StartStream
<1>12. ASSUME NEW c \in Continues, UpdateFails(c) PROVE OwnInv'
  BY <1>5, <1>12, Kinds DEF UpdateFails, Active
<1>13. ASSUME NEW r \in Requests, Resume(r) PROVE OwnInv'
  BY <1>3, <1>4, <1>13 DEF Resume, Go, Active
<1>14. ASSUME NEW r \in Requests, Raises(r) \/ Cancelled(r) PROVE OwnInv'
  BY <1>5, <1>14 DEF Raises, Cancelled, Active
<1>15. ASSUME Dies PROVE OwnInv'
  <2>1. /\ \A r \in Requests : pc'[r] \in {"idle", "done", "failed"} /\ reply'[r] = None
        /\ UNCHANGED <<thread, target, log>>
    BY <1>1, <1>15 DEF Dies
  <2>2. \A u \in Turns : Unanswered(u)' => Unanswered(u)
    BY <1>1, <1>15 DEF Dies, Unanswered
  <2> QED BY <1>1, <2>1, <2>2, OwnKept DEF Active
<1>16. CASE UNCHANGED vars
  BY <1>1, <1>2, <1>16, OwnKept DEF vars, Active
<1> QED
  BY <1>6, <1>7, <1>8, <1>9, <1>10, <1>11, <1>12, <1>13, <1>14, <1>15, <1>16,
     OwnStored, OwnContinued, OwnUpdated, OwnNode, OwnFinished
  DEF Next, Progress, NodeFails, Disconnect, SaveTears, Restart

\* The client that waits for every answer is answered the message it sent, on the
\* evidence for it, whatever fails (chat_service.py:210).
THEOREM RepliedToOwnTurn ==
  ASSUME Client = {}
  PROVE  Spec => []RepliesToOwnTurn
<1>1. OneRequest
  BY DEF OneRequest
<1>2. Init => OwnInv
  BY Kinds DEF Init, OwnInv, RepliesToOwnTurn, Said, Unanswered, Active
<1>3. IInv /\ Sequential /\ OnceInv /\ OwnInv /\ [Next]_vars => OwnInv'
  BY OwnStep
<1>4. OwnInv => RepliesToOwnTurn
  BY DEF OwnInv
<1> QED BY <1>1, <1>2, <1>3, <1>4, Inductive, OneAtATime, OnceHolds, PTL DEF Spec
-----------------------------------------------------------------------------
(***************************************************************************)
(* A request ends by itself                                                 *)
(***************************************************************************)
\* How many nodes a run of the graph still has before it, the end included.
NodesLeft(s) ==
  CASE s.next = "router" -> MaxAttempts + 6
    [] s.next = "generate" -> MaxAttempts + 5 - s.attempts
    [] s.next \in Speaking \cup {"outline"} -> 5
    [] s.next = "chinese_prevent" -> 4
    [] s.next = "save_new_paper" -> 3
    [] s.next = "evaluate_document" -> 2
    [] OTHER -> 1

\* How many steps a request at p, with the copy s, may still take.
ToGoFrom(p, s) ==
  CASE p = "idle" -> MaxAttempts + 11
    [] p = "loaded" -> MaxAttempts + 10
    [] p = "routing" -> MaxAttempts + 9
    [] p \in {"routed", "accepted"} -> MaxAttempts + 8
    [] p \in {"scheduled", "updated"} -> MaxAttempts + 7
    [] p = "running" -> NodesLeft(s)
    [] OTHER -> 0

ToGo(r) == ToGoFrom(pc[r], state[r])

\* Every step of a request leaves it fewer, and nothing ever gives it more: not even
\* another run that stores a checkpoint of its own in between.
RequestsRunOut ==
  \A r \in Requests : /\ ToGo(r) \in 0..(MaxAttempts + 11)
                      /\ ToGo(r)' <= ToGo(r)
                      /\ Progress(r) => ToGo(r)' < ToGo(r)

LEMMA NodesLeftOK ==
  ASSUME NEW s \in GraphStates
  PROVE  NodesLeft(s) \in 1..(MaxAttempts + 6) /\ MaxAttempts \in Nat
BY ConstantsOK DEF NodesLeft, GraphStates

LEMMA ToGoOK ==
  ASSUME NEW p \in Places, NEW s \in GraphStates
  PROVE  /\ ToGoFrom(p, s) \in 0..(MaxAttempts + 11)
         /\ p \in Over => ToGoFrom(p, s) = 0
         /\ p \notin Over => ToGoFrom(p, s) > 0
<1>1. NodesLeft(s) \in 1..(MaxAttempts + 6) /\ MaxAttempts \in Nat
  BY NodesLeftOK
<1>2. CASE p = "running"
  BY <1>1, <1>2 DEF ToGoFrom
<1>3. CASE p \in Over
  BY <1>1, <1>3 DEF ToGoFrom
<1>4. CASE p \notin {"running"} \cup Over
  <2>1. ToGoFrom(p, s) \in (MaxAttempts + 7)..(MaxAttempts + 11)
    BY <1>1, <1>4 DEF ToGoFrom
  <2> QED BY <1>1, <1>4, <2>1
<1> QED BY <1>2, <1>3, <1>4

\* The edges of the graph lead forward, and generate comes back with one attempt less.
LEMMA NodeLessens ==
  ASSUME IInv, NEW r \in Requests, RunNode(r), state'[r] \in GraphStates
  PROVE  /\ pc[r] = "running" /\ pc' = pc
         /\ \A q \in Requests \ {r} : state'[q] = state[q]
         /\ NodesLeft(state'[r]) < NodesLeft(state[r])
<1> DEFINE s == state[r]
           n == state'[r]
<1>0. /\ state \in [Requests -> GraphStates] /\ s \in GraphStates
      /\ MaxAttempts \in Nat /\ s.attempts \in 0..MaxAttempts /\ n.attempts \in 0..MaxAttempts
  BY ConstantsOK DEF IInv, RunsOK, GraphStates
<1>1. /\ pc[r] = "running" /\ pc' = pc
      /\ \A q \in Requests \ {r} : state'[q] = state[q]
  BY <1>0 DEF RunNode, RunRouter, RunReply, RunOutline, RunGenerate, RunChinesePrevent,
              RunSave, RunEvaluate, At, Store
<1>2. ASSUME NEW x, Store(r, x) PROVE n = x
  BY <1>0, <1>2 DEF Store
<1>3. CASE RunRouter(r)
  <2>1. PICK a \in Actions : n = Routed(s, a)
    BY <1>2, <1>3, <1>0, DecisionsOK DEF RunRouter
  <2>2. n.next \in Speaking \cup {"outline", "generate"}
    <3>1. NodeOf[a] \in Speaking \cup {"outline", "generate"}
      BY <2>1 DEF Actions, DocumentActions, NodeOf, Speaking
    <3> QED BY <1>0, <2>1, <3>1 DEF Routed, GraphStates
  <2>3. NodesLeft(n) < MaxAttempts + 6
    BY <1>0, <2>2 DEF NodesLeft, Speaking
  <2>4. NodesLeft(s) = MaxAttempts + 6
    BY <1>3 DEF RunRouter, At, NodesLeft, Speaking
  <2> QED BY <1>1, <2>3, <2>4
<1>4. CASE RunReply(r)
  <2>1. s.next \in Speaking /\ n.next \in {"end", "chinese_prevent"}
    BY <1>0, <1>2, <1>4 DEF RunReply, GraphStates
  <2> QED BY <1>1, <2>1 DEF NodesLeft, Speaking
<1>5. CASE RunOutline(r)
  <2>1. s.next = "outline" /\ n.next = "chinese_prevent"
    BY <1>0, <1>2, <1>5 DEF RunOutline, At, GraphStates
  <2> QED BY <1>1, <2>1 DEF NodesLeft, Speaking
<1>6. CASE RunGenerate(r)
  <2>1. /\ s.next = "generate" /\ n.next \in {"generate", "chinese_prevent"}
        /\ n.attempts = s.attempts + 1
    BY <1>0, <1>2, <1>6 DEF RunGenerate, At, GraphStates
  <2>2. NodesLeft(s) = MaxAttempts + 5 - s.attempts
    BY <2>1 DEF NodesLeft, Speaking
  <2>3. NodesLeft(n) = 4 \/ NodesLeft(n) = MaxAttempts + 5 - n.attempts
    BY <2>1 DEF NodesLeft, Speaking
  <2> QED BY <1>0, <1>1, <2>1, <2>2, <2>3
<1>7. CASE RunChinesePrevent(r)
  <2>1. s.next = "chinese_prevent" /\ n.next \in {"end", "save_new_paper"}
    BY <1>0, <1>2, <1>7 DEF RunChinesePrevent, At, GraphStates
  <2> QED BY <1>1, <2>1 DEF NodesLeft, Speaking
<1>8. CASE RunSave(r)
  <2>1. s.next = "save_new_paper" /\ n.next = "evaluate_document"
    BY <1>0, <1>2, <1>8 DEF RunSave, At, GraphStates
  <2> QED BY <1>1, <2>1 DEF NodesLeft, Speaking
<1>9. CASE RunEvaluate(r)
  <2>1. s.next = "evaluate_document" /\ n.next = "end"
    BY <1>0, <1>2, <1>9 DEF RunEvaluate, At, GraphStates
  <2> QED BY <1>1, <2>1 DEF NodesLeft, Speaking
<1> QED BY <1>3, <1>4, <1>5, <1>6, <1>7, <1>8, <1>9 DEF RunNode

\* A request that goes somewhere else goes on or ends; the others stay where they are.
LEMMA GoLessens ==
  ASSUME IInv, IInv', NEW r \in Requests, NEW w \in Places, Go(r, w),
         \A q \in Requests \ {r} : state'[q] = state[q],
         \/ w \in Over /\ pc[r] \notin Over
         \/ pc[r] = "idle" /\ w \in {"loaded", "accepted"}
         \/ pc[r] = "loaded" /\ w = "routing"
         \/ pc[r] = "routing" /\ w = "routed"
         \/ pc[r] = "routed" /\ w \in {"scheduled", "running"}
         \/ pc[r] = "accepted" /\ w = "updated"
         \/ pc[r] \in {"scheduled", "updated"} /\ w = "running"
  PROVE  /\ ToGoFrom(pc'[r], state'[r]) < ToGo(r)
         /\ \A q \in Requests \ {r} : ToGoFrom(pc'[q], state'[q]) = ToGo(q)
<1>1. /\ pc \in [Requests -> Places] /\ pc'[r] = w /\ pc[r] \in Places
      /\ \A q \in Requests \ {r} : pc'[q] = pc[q]
      /\ state[r] \in GraphStates /\ state'[r] \in GraphStates
  BY DEF IInv, ControlOK, RunsOK, Go
<1>2. /\ NodesLeft(state[r]) \in 1..(MaxAttempts + 6) /\ MaxAttempts \in Nat
      /\ NodesLeft(state'[r]) \in 1..(MaxAttempts + 6)
  BY <1>1, NodesLeftOK
<1>3. ToGoFrom(w, state'[r]) < ToGoFrom(pc[r], state[r])
  <2>1. CASE w \in Over /\ pc[r] \notin Over
    BY <1>1, <1>2, <2>1, ToGoOK
  <2>2. CASE w = "running" /\ pc[r] \in {"routed", "scheduled", "updated"}
    BY <1>2, <2>2 DEF ToGoFrom
  <2>3. CASE \/ pc[r] = "idle" /\ w \in {"loaded", "accepted"}
             \/ pc[r] = "loaded" /\ w = "routing"
             \/ pc[r] = "routing" /\ w = "routed"
             \/ pc[r] = "routed" /\ w = "scheduled"
             \/ pc[r] = "accepted" /\ w = "updated"
    BY <1>2, <2>3 DEF ToGoFrom
  <2> QED BY <2>1, <2>2, <2>3
<1> QED BY <1>1, <1>3 DEF ToGo

\* What a step of r, or the end of r, does to every request.
Lessens(r) ==
  /\ ToGoFrom(pc'[r], state'[r]) < ToGo(r)
  /\ \A q \in Requests \ {r} : ToGoFrom(pc'[q], state'[q]) = ToGo(q)

LEMMA EndLessens ==
  ASSUME IInv, IInv', NEW r \in Requests, NEW how \in Over, End(r, how), pc[r] \notin Over
  PROVE  Lessens(r)
<1>1. \A q \in Requests \ {r} : state'[q] = state[q]
  BY DEF End, IInv, RunsOK
<1> QED BY <1>1, GoLessens DEF End, Lessens

LEMMA ProgressLessens ==
  ASSUME IInv, IInv', NEW r \in Requests, Progress(r)
  PROVE  Lessens(r)
<1>0. state \in [Requests -> GraphStates] /\ state' \in [Requests -> GraphStates]
  BY DEF IInv, RunsOK
<1>1. CASE StoreInput(r)
  BY <1>1, GoLessens DEF StoreInput, Lessens
<1>2. CASE Route(r)
  <2>1. pc[r] = "routing" /\ Go(r, "routed") /\ \A q \in Requests \ {r} : state'[q] = state[q]
    BY <1>0, <1>2 DEF Route
  <2> QED BY <2>1, GoLessens DEF Lessens
<1>3. CASE StartStream(r)
  <2>1. /\ pc[r] = "routed" /\ \A q \in Requests \ {r} : state'[q] = state[q]
        /\ Go(r, "scheduled") \/ Go(r, "done") \/ Go(r, "running")
    BY <1>0, <1>3 DEF StartStream, End
  <2> QED BY <2>1, GoLessens DEF Lessens
<1>4. CASE UpdateEvidence(r)
  BY <1>4, GoLessens DEF UpdateEvidence, Lessens
<1>5. CASE Resume(r)
  <2>1. /\ pc[r] \in {"scheduled", "updated"} /\ Go(r, "running")
        /\ \A q \in Requests \ {r} : state'[q] = state[q]
    BY <1>0, <1>5 DEF Resume
  <2> QED BY <2>1, GoLessens DEF Lessens
<1>6. CASE RunNode(r)
  BY <1>0, <1>6, NodeLessens DEF Lessens, ToGo, ToGoFrom
<1>7. CASE Finish(r)
  BY <1>7, EndLessens DEF Finish, At
<1> QED BY <1>1, <1>2, <1>3, <1>4, <1>5, <1>6, <1>7 DEF Progress

\* What AckedDocumentIsSaved rests on: no run goes round for ever, for any number of
\* attempts, however runs overlap and whatever fails.
THEOREM RequestsEnd == Spec => [][RequestsRunOut]_vars
<1>1. ASSUME IInv, IInv', Next
      PROVE  RequestsRunOut
  <2>0. \A r \in Requests : /\ ToGo(r) \in 0..(MaxAttempts + 11)
                            /\ ToGoFrom(pc'[r], state'[r]) \in 0..(MaxAttempts + 11)
                            /\ ToGo(r)' = ToGoFrom(pc'[r], state'[r])
    <3>1. /\ pc \in [Requests -> Places] /\ pc' \in [Requests -> Places]
          /\ state \in [Requests -> GraphStates] /\ state' \in [Requests -> GraphStates]
      BY <1>1 DEF IInv, RunsOK, ControlOK
    <3>2. \A r \in Requests : ToGo(r)' = ToGoFrom(pc'[r], state'[r])
      BY DEF ToGo, ToGoFrom, NodesLeft
    <3> QED BY <3>1, <3>2, ToGoOK DEF ToGo
  <2>1. ASSUME NEW r \in Requests, Lessens(r)
        PROVE  \A q \in Requests : ToGo(q)' <= ToGo(q)
    BY <2>0, <2>1, ConstantsOK DEF Lessens
  <2>2. ASSUME NEW r \in Requests, Progress(r)
        PROVE  ToGo(r)' < ToGo(r)
    BY <1>1, <2>0, <2>2, ProgressLessens DEF Lessens
  <2>3. \A q \in Requests : ToGo(q)' <= ToGo(q)
    <3>1. ASSUME NEW t \in Turns, Begin(t) \/ LookupFails(t)
          PROVE  \A q \in Requests : ToGo(q)' <= ToGo(q)
      <4>1. /\ t \in Requests /\ pc[t] = "idle" /\ (Go(t, "loaded") \/ Go(t, "failed"))
            /\ \A q \in Requests \ {t} : state'[q] = state[q]
        BY <1>1, <3>1, Kinds DEF Begin, LookupFails, MaySend, IInv, RunsOK
      <4> QED BY <1>1, <2>1, <4>1, GoLessens DEF Lessens
    <3>2. ASSUME NEW t \in Turns, RouteFails(t) \/ DecideFails(t)
          PROVE  \A q \in Requests : ToGo(q)' <= ToGo(q)
      <4>1. t \in Requests /\ pc[t] = "routing" /\ End(t, "failed")
        BY <3>2, Kinds DEF RouteFails, DecideFails
      <4> QED BY <1>1, <2>1, <4>1, EndLessens
    <3>3. CASE \E t \in Turns : ResearchEnds(t)
      <4>1. \A q \in Requests : ToGo(q)' = ToGo(q)
        BY <2>0, <3>3 DEF ResearchEnds, ToGo
      <4> QED BY <2>0, <4>1, ConstantsOK
    <3>4. ASSUME NEW c \in Continues, NEW t \in Turns, Continue(c, t)
          PROVE  \A q \in Requests : ToGo(q)' <= ToGo(q)
      <4>1. c \in Requests /\ pc[c] = "idle" /\ Go(c, "accepted") /\ state' = state
        BY <3>4, Kinds DEF Continue
      <4> QED BY <1>1, <2>1, <4>1, GoLessens DEF Lessens
    <3>5. ASSUME NEW c \in Continues, UpdateFails(c)
          PROVE  \A q \in Requests : ToGo(q)' <= ToGo(q)
      BY <1>1, <2>1, <3>5, EndLessens, Kinds DEF UpdateFails
    <3>6. ASSUME NEW r \in Requests, Progress(r)
          PROVE  \A q \in Requests : ToGo(q)' <= ToGo(q)
      BY <1>1, <2>1, <3>6, ProgressLessens
    <3>7. ASSUME NEW r \in Requests, Raises(r) \/ Cancelled(r)
          PROVE  \A q \in Requests : ToGo(q)' <= ToGo(q)
      BY <1>1, <2>1, <3>7, EndLessens DEF Raises, Cancelled
    <3>8. CASE Dies
      <4>1. \A q \in Requests : pc'[q] \in {"idle"} \cup Over /\ (pc'[q] = "idle" => pc[q] = "idle")
        BY <3>8 DEF Dies
      <4>2. \A q \in Requests : pc'[q] \in Over => ToGo(q)' = 0
        BY <2>0 DEF ToGoFrom
      <4>3. \A q \in Requests : pc'[q] = "idle" => ToGo(q)' = ToGo(q)
        BY <2>0, <4>1 DEF ToGo, ToGoFrom
      <4> QED BY <2>0, <4>1, <4>2, <4>3, ConstantsOK
    <3> QED BY <1>1, <3>1, <3>2, <3>3, <3>4, <3>5, <3>6, <3>7, <3>8
           DEF Next, NodeFails, Disconnect, SaveTears, Restart
  <2> QED BY <2>0, <2>2, <2>3 DEF RequestsRunOut
<1>2. IInv /\ IInv' /\ [Next]_vars => [RequestsRunOut]_vars
  BY <1>1
<1> QED BY <1>2, Inductive, PTL DEF Spec
=============================================================================
