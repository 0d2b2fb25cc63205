----------------------------- MODULE ChatThread -----------------------------
(***************************************************************************)
(* The conversation of one manuscript: the message and continue endpoints,  *)
(* ChatService (app/services/chat_service.py), ChatGraphRunner and the      *)
(* conversation graph (app/graph/), over the one LangGraph thread that      *)
(* every request of the manuscript shares.                                  *)
(*                                                                         *)
(* A graph run loads the newest checkpoint of the thread once, works on its *)
(* own copy and stores the copy after every node, so the last run to store  *)
(* decides what the next one loads.  A request suspends between graph nodes *)
(* and between a response and its stream; what lies between is one action.  *)
(***************************************************************************)
EXTENDS Naturals, Sequences, FiniteSets

CONSTANTS
  Turns,        \* POST /message calls; a turn is also its user message
  Continues,    \* POST /continue calls
  Earlier,      \* turns that were over before the model starts
  None,
  WebConcept,   \* whether the manuscript's concept allows web research
  MaxAttempts,  \* MAX_DOCUMENT_GENERATION_ATTEMPTS
  Client,       \* what clients may do, see ClientKinds
  Faults        \* the faults that may happen, see FaultKinds

ClientKinds ==
  {"parallel",    \* start a request while another one streams (two tabs)
   "background",  \* send a message while a document is being generated
   "late"}        \* send a message, or continue, while research is unanswered
FaultKinds ==
  {"node",        \* a node of the graph raises
   "retrieval",   \* looking evidence up raises
   "disconnect",  \* the client goes away and its stream is cancelled
   "restart"}     \* the process dies

Requests == Turns \cup Continues
DocumentActions == {"outline", "generate_document"}
Actions  == DocumentActions \cup {"opening", "say", "feedback", "refuse"}
NodeOf   == [opening |-> "opening", say |-> "converse", feedback |-> "feedback",
             outline |-> "outline", generate_document |-> "generate",
             refuse |-> "reject_documentation"]
Nodes    == {"router", "opening", "converse", "feedback", "outline", "generate",
             "reject_documentation", "chinese_prevent", "save_new_paper",
             "evaluate_document", "end"}
Papers   == {"none", "outline", "document", "short"}  \* short: under 800 bytes

ASSUME ConstantsOK ==
  /\ Turns \cap Continues = {}
  /\ IsFiniteSet(Turns)
  /\ Earlier \subseteq Turns
  /\ None \notin Requests /\ None \notin Actions
  /\ WebConcept \in BOOLEAN
  /\ MaxAttempts \in Nat \ {0}
  /\ Client \subseteq ClientKinds /\ Faults \subseteq FaultKinds

VARIABLES
  thread,   \* the newest checkpoint
  state,    \* each run's copy of it
  pc,       \* where each request is
  action,   \* what the router decided for each turn
  target,   \* the turn each continue belongs to
  job,      \* the turn's research: none, open, ready or over
  reply,    \* what each run has streamed so far
  log,      \* chat_messages, in sequence order
  versions  \* manuscript_versions

vars == <<thread, state, pc, action, target, job, reply, log, versions>>

\* GraphState, with the messages as the set of human ones and of answered ones.
\* evidence names the turn whose claim the evidence text was retrieved for.
GraphStates ==
  [next : Nodes, message : Turns \cup {None}, action : Actions \cup {None},
   evidence : Turns \cup {None}, paper : Papers, attempts : 0..MaxAttempts,
   version : Nat, humans : SUBSET Turns, answered : SUBSET Turns]

Over   == {"done", "failed"}
Places == {"idle", "loaded", "routing", "routed", "scheduled", "accepted",
           "updated", "running"} \cup Over

Replies == [message : Turns, evidence : Turns \cup {None}]
Entries == [role : {"user", "ack", "assistant"}, by : Requests,
            message : Turns, evidence : Turns \cup {None}]
\* torn is history: the run broke off behind this row's commit.
Versions == [message : Turns, action : Actions, paper : Papers,
             attempts : 0..MaxAttempts, evaluated : BOOLEAN, torn : BOOLEAN]

TypeOK ==
  /\ thread \in GraphStates
  /\ state \in [Requests -> GraphStates]
  /\ pc \in [Requests -> Places]
  /\ action \in [Turns -> Actions \cup {None}]
  /\ target \in [Continues -> Turns \cup {None}]
  /\ job \in [Turns -> {"none", "open", "ready", "over"}]
  /\ reply \in [Requests -> Replies \cup {None}]
  /\ log \in Seq(Entries)
  /\ versions \in Seq(Versions)

NewThread == [next |-> "end", message |-> None, action |-> None, evidence |-> None,
              paper |-> "none", attempts |-> 0, version |-> 0,
              humans |-> Earlier, answered |-> Earlier]

Init ==
  /\ thread = NewThread
  /\ state = [r \in Requests |-> NewThread]
  /\ pc = [r \in Requests |-> IF r \in Earlier THEN "done" ELSE "idle"]
  /\ action = [t \in Turns |-> None]
  /\ target = [c \in Continues |-> None]
  /\ job = [t \in Turns |-> "none"]
  /\ reply = [r \in Requests |-> None]
  /\ log = <<>>
  /\ versions = <<>>
-----------------------------------------------------------------------------
InBackground(r) == r \in Turns /\ action[r] \in DocumentActions /\ pc[r] \in {"scheduled", "running"}
Busy(r)         == pc[r] \notin {"idle"} \cup Over /\ ~InBackground(r)
Unanswered(t)   == \/ job[t] = "open"
                   \/ job[t] = "ready" /\ \A c \in Continues : target[c] # t

\* The template disables its form while a response streams and while research is
\* unanswered, and enables it as soon as a document is acknowledged.
MayRequest ==
  /\ "parallel" \in Client \/ \A r \in Requests : ~Busy(r)
  /\ "background" \in Client \/ \A r \in Requests : ~InBackground(r)

Write(role, r, m, e) ==
  log' = Append(log, [role |-> role, by |-> r, message |-> m, evidence |-> e])

Go(r, where) == pc' = [pc EXCEPT ![r] = where]

\* The request is over, done or failed, and its locals are gone.
End(r, how) ==
  /\ Go(r, how)
  /\ state' = [state EXCEPT ![r] = NewThread]
  /\ reply' = [reply EXCEPT ![r] = None]
-----------------------------------------------------------------------------
(***************************************************************************)
(* The turn up to the router                                                *)
(***************************************************************************)
\* Mutations: the paper, or the attempts, of an earlier turn are kept.
TurnStateKeepsPaper(s, t, e) ==
  [s EXCEPT !.next = "router", !.message = t, !.action = None, !.evidence = e,
            !.attempts = 0, !.humans = @ \cup {t}]
TurnStateKeepsAttempts(s, t, e) ==
  [s EXCEPT !.next = "router", !.message = t, !.action = None, !.evidence = e,
            !.paper = "none", !.version = 0, !.humans = @ \cup {t}]
\* Mutation: the evidence text of an earlier turn is kept when there is none.
TurnStateKeepsEvidence(s, t, e) ==
  [s EXCEPT !.next = "router", !.message = t, !.action = None,
            !.evidence = IF e = None THEN @ ELSE e, !.paper = "none", !.version = 0, !.attempts = 0, !.humans = @ \cup {t}]
\* Mutation: the messages channel is replaced instead of appended to.
TurnStateReplaces(s, t, e) ==
  [s EXCEPT !.next = "router", !.message = t, !.action = None, !.evidence = e,
            !.paper = "none", !.version = 0, !.attempts = 0, !.humans = {t}]

\* Mutation: the new message does not become the last one.
TurnStateKeepsMessage(s, t, e) ==
  [s EXCEPT !.next = "router", !.message = IF @ = None THEN t ELSE @,
            !.action = None, !.evidence = e,
            !.paper = "none", !.version = 0, !.attempts = 0, !.humans = @ \cup {t}]

\* _initial_turn_state merged into the checkpoint: what was pending is dropped.
TurnState(s, t, e) ==
  [s EXCEPT !.next = "router", !.message = t, !.action = None, !.evidence = e,
            !.paper = "none", !.version = 0, !.attempts = 0, !.humans = @ \cup {t}]

MaySend(t) ==
  /\ pc[t] = "idle"
  /\ MayRequest
  /\ "late" \in Client \/ \A u \in Turns : ~Unanswered(u)

\* begin_turn: the user message is committed, evidence is looked up, and the
\* run loads the thread.
Begin(t) ==
  /\ MaySend(t)
  /\ Write("user", t, t, None)
  /\ \E e \in (IF WebConcept THEN {t, None} ELSE {None}) :
        state' = [state EXCEPT ![t] = TurnState(thread, t, e)]
  /\ Go(t, "loaded")
  /\ UNCHANGED <<thread, action, target, job, reply, versions>>

\* The lookup raises: the request fails with its message already committed.
LookupFails(t) ==
  /\ "retrieval" \in Faults /\ WebConcept
  /\ MaySend(t)
  /\ Write("user", t, t, None)
  /\ Go(t, "failed")
  /\ UNCHANGED <<thread, state, action, target, job, reply, versions>>

\* The input is stored as the newest checkpoint, before the router runs.
StoreInput(t) ==
  /\ pc[t] = "loaded"
  /\ thread' = state[t]
  /\ Go(t, "routing")
  /\ UNCHANGED <<state, action, target, job, reply, log, versions>>

IsOpening(s) == Cardinality(s.humans) = 1 /\ s.answered = {}

\* Mutation: the router never checks for the opening turn.
DecisionsAlwaysOpening(s) == {"opening", "say", "feedback", "refuse"} \cup DocumentActions

\* is_conversation_sufficient refuses without two messages; beyond that the
\* language model judges, which may go either way.
MaySuffice(s) == Cardinality(s.humans) >= 2

\* router_node: the classifier's answer is free.
Decisions(s) ==
  IF IsOpening(s) THEN {"opening"}
  ELSE {"say", "feedback", "refuse"} \cup
       (IF MaySuffice(s) THEN DocumentActions ELSE {})

Routed(s, a) == [s EXCEPT !.action = a, !.next = NodeOf[a]]

\* Only what the user claims in an ordinary turn is worth research.
Researched(a) == WebConcept /\ a = "say"

\* The run stops after the router; the rest of begin_turn acknowledges a
\* document request or decides whether the claim is to be researched.
Route(t) ==
  /\ pc[t] = "routing"
  /\ \E a \in Decisions(state[t]) :
       /\ state' = [state EXCEPT ![t] = Routed(@, a)]
       /\ thread' = Routed(state[t], a)
       /\ action' = [action EXCEPT ![t] = a]
       /\ IF a \in DocumentActions THEN Write("ack", t, t, None) ELSE UNCHANGED log
       /\ \/ UNCHANGED job
          \/ Researched(a) /\ job' = [job EXCEPT ![t] = "open"]
  /\ Go(t, "routed")
  /\ UNCHANGED <<target, reply, versions>>

\* The classifier raises: the request fails, message and input checkpoint stay.
RouteFails(t) ==
  /\ "node" \in Faults
  /\ pc[t] = "routing"
  /\ End(t, "failed")
  /\ UNCHANGED <<thread, action, target, job, log, versions>>

\* The router is through, but looking up whether research is needed raises.
DecideFails(t) ==
  /\ "retrieval" \in Faults
  /\ pc[t] = "routing"
  /\ \E a \in Decisions(state[t]) :
       /\ Researched(a)
       /\ thread' = Routed(state[t], a)
       /\ action' = [action EXCEPT ![t] = a]
  /\ End(t, "failed")
  /\ UNCHANGED <<target, job, log, versions>>

\* stream_response: documents go to the background, researched claims wait.
StartStream(t) ==
  /\ pc[t] = "routed"
  /\ \/ action[t] \in DocumentActions /\ Go(t, "scheduled") /\ UNCHANGED <<state, reply>>
     \/ job[t] # "none" /\ End(t, "done")
     \/ /\ action[t] \notin DocumentActions /\ job[t] = "none"
        /\ state' = [state EXCEPT ![t] = thread]
        /\ Go(t, "running")
        /\ UNCHANGED reply
  /\ UNCHANGED <<thread, action, target, job, log, versions>>
-----------------------------------------------------------------------------
(***************************************************************************)
(* Research and the continued reply                                         *)
(***************************************************************************)
\* The research of the turn ends, with or without evidence to answer from.
ResearchEnds(t) ==
  /\ job[t] = "open"
  /\ \E s \in {"ready", "over"} : job' = [job EXCEPT ![t] = s]
  /\ UNCHANGED <<thread, state, pc, action, target, reply, log, versions>>

\* POST /continue for a job whose evidence is ready.
Continue(c, t) ==
  /\ pc[c] = "idle"
  /\ job[t] = "ready"
  /\ MayRequest
  /\ "late" \in Client \/ Unanswered(t)
  /\ target' = [target EXCEPT ![c] = t]
  /\ Go(c, "accepted")
  /\ UNCHANGED <<thread, state, action, job, reply, log, versions>>

\* Mutation: the thread is set back to just after its router.
UpdateEvidenceAsRouter(c) ==
  /\ pc[c] = "accepted"
  /\ thread' = [thread EXCEPT !.evidence = target[c],
                              !.next = IF thread.action = None THEN @
                                       ELSE NodeOf[thread.action]]
  /\ Go(c, "updated")
  /\ UNCHANGED <<state, action, target, job, reply, log, versions>>

\* load_evidence_text_for_turn and update_evidence_text: a new checkpoint that
\* differs from the newest one in the evidence.
UpdateEvidence(c) ==
  /\ pc[c] = "accepted"
  /\ \E e \in {target[c], None} : thread' = [thread EXCEPT !.evidence = e]
  /\ Go(c, "updated")
  /\ UNCHANGED <<state, action, target, job, reply, log, versions>>

\* The lookup raises: the stream reports an error, the thread is as it was.
UpdateFails(c) ==
  /\ "retrieval" \in Faults
  /\ pc[c] = "accepted"
  /\ End(c, "failed")
  /\ UNCHANGED <<thread, action, target, job, log, versions>>
-----------------------------------------------------------------------------
(***************************************************************************)
(* Graph runs                                                               *)
(***************************************************************************)
\* stream_reply_tokens and run_document_generation resume the newest checkpoint.
Resume(r) ==
  /\ pc[r] \in {"scheduled", "updated"}
  /\ state' = [state EXCEPT ![r] = thread]
  /\ Go(r, "running")
  /\ UNCHANGED <<thread, action, target, job, reply, log, versions>>

At(r, node) == pc[r] = "running" /\ state[r].next = node

\* The run's copy becomes s and is stored as the newest checkpoint.
Store(r, s) ==
  /\ state' = [state EXCEPT ![r] = s]
  /\ thread' = s
  /\ UNCHANGED <<pc, action, target, job, log>>

\* A run that resumed an input checkpoint runs the router of that turn.
RunRouter(r) ==
  /\ At(r, "router")
  /\ \E a \in Decisions(state[r]) : Store(r, Routed(state[r], a))
  /\ UNCHANGED <<reply, versions>>

Speaking == {"opening", "converse", "feedback", "reject_documentation"}

\* opening, converse, feedback and reject_documentation answer the last human
\* message; their tokens are streamed unless nobody listens to the run.
RunReply(r) ==
  LET s == state[r] IN
  /\ pc[r] = "running" /\ s.next \in Speaking
  /\ Store(r, [s EXCEPT !.answered = @ \cup {s.message},
                        !.next = IF s.next = "reject_documentation" THEN "end"
                                 ELSE "chinese_prevent"])
  /\ reply' = IF InBackground(r) THEN reply
              ELSE [reply EXCEPT ![r] =
                      [message |-> s.message,
                       evidence |-> IF s.next \in {"converse", "feedback"}
                                    THEN s.evidence ELSE None]]
  /\ UNCHANGED versions

RunOutline(r) ==
  /\ At(r, "outline")
  /\ Store(r, [state[r] EXCEPT !.paper = "outline", !.next = "chinese_prevent"])
  /\ UNCHANGED <<reply, versions>>

\* route_after_generate_document_from_conversation
TryAgain(paper, n) == paper = "short" /\ n < MaxAttempts

RunGenerate(r) ==
  LET n == state[r].attempts + 1 IN
  /\ At(r, "generate")
  /\ \E p \in {"document", "short"} :
       Store(r, [state[r] EXCEPT !.paper = p, !.attempts = n,
                                 !.next = IF TryAgain(p, n) THEN "generate"
                                          ELSE "chinese_prevent"])
  /\ UNCHANGED <<reply, versions>>

\* Mutation: a document that stayed short is dropped.
RunChinesePreventDropsShort(r) ==
  /\ At(r, "chinese_prevent")
  /\ Store(r, [state[r] EXCEPT !.next = IF state[r].paper \in {"none", "short"} THEN "end"
                                        ELSE "save_new_paper"])
  /\ UNCHANGED <<reply, versions>>

\* chinese_prevent and route_after_chinese_prevent
RunChinesePrevent(r) ==
  /\ At(r, "chinese_prevent")
  /\ Store(r, [state[r] EXCEPT !.next = IF state[r].paper = "none" THEN "end"
                                        ELSE "save_new_paper"])
  /\ UNCHANGED <<reply, versions>>

\* save_new_paper: the file is written and the row committed.
CommitVersion(s, torn) ==
  versions' = Append(versions, [message |-> s.message, action |-> s.action,
                                paper |-> s.paper, attempts |-> s.attempts,
                                evaluated |-> FALSE, torn |-> torn])

\* The node comes through and the thread is told.
RunSave(r) ==
  LET s == state[r] IN
  /\ At(r, "save_new_paper")
  /\ CommitVersion(s, FALSE)
  /\ Store(r, [s EXCEPT !.version = Len(versions) + 1, !.next = "evaluate_document",
                        !.answered = @ \cup {s.message}])
  /\ UNCHANGED reply

\* evaluate_document: only documents, and a failure is only logged.
RunEvaluate(r) ==
  LET s == state[r] IN
  /\ At(r, "evaluate_document")
  /\ Store(r, [s EXCEPT !.next = "end"])
  /\ \/ s.paper # "outline" /\ versions' = [versions EXCEPT ![s.version].evaluated = TRUE]
     \/ UNCHANGED versions
  /\ UNCHANGED reply

\* The run is over: _stream_assistant_reply writes what was streamed, if anything.
Finish(r) ==
  /\ At(r, "end")
  /\ IF reply[r] = None THEN UNCHANGED log
     ELSE Write("assistant", r, reply[r].message, reply[r].evidence)
  /\ End(r, "done")
  /\ UNCHANGED <<thread, action, target, job, versions>>

\* A node raises: the stream reports an error, or the registry logs it, and the
\* checkpoint before that node stays the newest.
Raises(r) ==
  /\ "node" \in Faults
  /\ pc[r] = "running"
  /\ state[r].next \notin {"end", "chinese_prevent", "evaluate_document"}
  /\ End(r, "failed")
  /\ UNCHANGED <<thread, action, target, job, log>>
NodeFails(r) == Raises(r) /\ UNCHANGED versions

\* The stream of a request is cancelled, before or while it runs the graph.
Cancelled(r) ==
  /\ "disconnect" \in Faults
  /\ pc[r] \in {"routed", "accepted", "updated", "running"}
  /\ ~InBackground(r)
  /\ End(r, "failed")
  /\ UNCHANGED <<thread, action, target, job, log>>
Disconnect(r) == Cancelled(r) /\ UNCHANGED versions

\* The process dies; rows and checkpoints stay.  No evidence will come of research
\* that was under way, although its row still says so.
Dies ==
  /\ "restart" \in Faults
  /\ \E r \in Requests : pc[r] \notin {"idle"} \cup Over
  /\ pc' = [r \in Requests |-> IF pc[r] \in {"idle"} \cup Over THEN pc[r] ELSE "failed"]
  /\ state' = [r \in Requests |-> NewThread]
  /\ reply' = [r \in Requests |-> None]
  /\ job' = [t \in Turns |-> IF job[t] = "open" THEN "over" ELSE job[t]]
  /\ UNCHANGED <<thread, action, target, log>>
Restart == Dies /\ UNCHANGED versions

\* The row is committed, but the node does not come through: it reads the row anew and
\* that raises, its checkpoint cannot be stored, its stream is cancelled (the node's
\* thread still commits) or the process dies.  The thread runs the node again.
SaveTears(r) ==
  /\ At(r, "save_new_paper")
  /\ CommitVersion(state[r], TRUE)
  /\ Raises(r) \/ Cancelled(r) \/ Dies

RunNode(r) ==
  \/ RunRouter(r)
  \/ RunReply(r)
  \/ RunOutline(r)
  \/ RunGenerate(r)
  \/ RunChinesePrevent(r)
  \/ RunSave(r)
  \/ RunEvaluate(r)

Progress(r) ==
  \/ r \in Turns /\ (StoreInput(r) \/ Route(r) \/ StartStream(r))
  \/ r \in Continues /\ UpdateEvidence(r)
  \/ Resume(r)
  \/ RunNode(r)
  \/ Finish(r)

Next ==
  \/ \E t \in Turns : \/ Begin(t) \/ LookupFails(t) \/ RouteFails(t)
                      \/ DecideFails(t) \/ ResearchEnds(t)
  \/ \E c \in Continues, t \in Turns : Continue(c, t)
  \/ \E c \in Continues : UpdateFails(c)
  \/ \E r \in Requests : Progress(r) \/ NodeFails(r) \/ Disconnect(r) \/ SaveTears(r)
  \/ Restart

Spec == Init /\ [][Next]_vars

\* Language-model calls end, with an answer or an error, and the event loop runs
\* every task that can run.
FairSpec == Spec /\ \A r \in Requests : WF_vars(Progress(r))
-----------------------------------------------------------------------------
(***************************************************************************)
(* Properties                                                               *)
(***************************************************************************)
Said == {i \in DOMAIN log : log[i].role = "assistant"}
Ack(t) == \E i \in DOMAIN log : log[i].role = "ack" /\ log[i].message = t
SavedFor(t) == \E i \in DOMAIN versions : versions[i].message = t

\* Whatever runs overlap on the thread, a version is only ever saved for a turn
\* the router made a document request of, and of the kind that was requested: a
\* paper left in the thread by an earlier turn is never saved again.
PaperWasRequested ==
  \A i \in DOMAIN versions :
    /\ versions[i].action \in DocumentActions
    /\ versions[i].paper = "outline" <=> versions[i].action = "outline"

\* Whatever runs overlap, a document that is too short is saved only after this
\* turn used up its own attempts, not those of another turn.
ShortOnlyAfterAllAttempts ==
  \A i \in DOMAIN versions :
    versions[i].paper = "short" => versions[i].attempts = MaxAttempts

\* Whatever runs overlap, a reply leans on evidence that was retrieved for the
\* message it answers or by a continue call, never on that of an earlier turn.
EvidenceHasOwner ==
  \A i \in Said :
    log[i].evidence \in {None, log[i].message} \cup {target[c] : c \in Continues}

\* README.md:98 "각 노드의 결과는 LangGraph SQLite Checkpointer에 대화 상태로
\* 누적됩니다": the thread never forgets a message or an answer.
HistoryAccumulates ==
  [][/\ thread.humans \subseteq thread'.humans
     /\ thread.answered \subseteq thread'.answered]_vars

\* No message is answered twice, nor both acknowledged as a document request and
\* answered, however often and late continue is called, also when streams are
\* cancelled, nodes raise or the process restarts in between.
OneReplyPerMessage ==
  /\ \A i, j \in Said : log[i].message = log[j].message => i = j
  /\ \A i \in Said : ~Ack(log[i].message)

\* A document request produces another version only if the run that saved the one
\* before broke off between the commit of its row and the node's checkpoint: not
\* because of where the thread is resumed, nor of what failed at other points.
OneVersionPerMessage ==
  \A i, j \in DOMAIN versions :
    i < j /\ versions[i].message = versions[j].message => versions[i].torn

\* A manuscript is opened once, and by its first message.
OpeningOnce ==
  \A t \in Turns : action[t] = "opening" =>
    /\ \A u \in Turns : action[u] = "opening" => u = t
    /\ \A u \in Turns : action[u] # None /\ u # t => \E i, j \in DOMAIN log :
         i < j /\ log[i].message = t /\ log[j].message = u

\* The client that waits for every answer gets the answer to the message it
\* sent, built on the evidence for that message.
RepliesToOwnTurn ==
  \A i \in Said :
    /\ log[i].message = IF log[i].by \in Turns THEN log[i].by ELSE target[log[i].by]
    /\ log[i].evidence \in {None, log[i].message}

\* While the process lives and evidence can be looked up, every committed user
\* message is in the thread as soon as its request is past loading it, whether or
\* not the turn then fails.
MessagesReachThread ==
  \A i \in DOMAIN log :
    log[i].role = "user" => pc[log[i].by] = "loaded" \/ log[i].message \in thread.humans

\* chat_service.py:23 "문서 작성을 시작했습니다. 완료되면 오른쪽 문서 목록에
\* 표시됩니다": an acknowledged document is saved, unless a node raises or the client
\* goes away before its stream starts the generation.
AckedDocumentIsSaved == \A t \in Turns : Ack(t) ~> SavedFor(t) \/ pc[t] = "failed"

\* chat_service.py:210 "같은 사용자 메시지에 근거를 반영한 답변을 이어": a continue
\* call answers the message its research belongs to.
ContinueAnswersItsMessage ==
  \A i \in Said : log[i].by \in Continues => log[i].message = target[log[i].by]
=============================================================================
