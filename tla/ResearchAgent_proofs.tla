------------------------- MODULE ResearchAgent_proofs -------------------------
(***************************************************************************)
(* Proofs about ResearchAgent for every budget, number of answers and       *)
(* number of parallel calls.                                                *)
(***************************************************************************)
EXTENDS ResearchAgent, WebClient_proofs, FiniteSetTheorems

Searching == {c \in Slots : call[c] = "searching"}

\* The counters are what the web has seen.
Counted == requests.search = searches /\ requests.fetch = fetches

\* Between answers, and after a run that returned, no call is under way.
Quiet == run \notin {"tools", "raised"} => \A c \in Slots : call[c] = "done"

\* A search is charged or still in flight, until something raises.
Charged == run # "raised" => charged + Cardinality(Searching) = searches

\* A fetch that is over has left a page or an error, until something raises.
Explained ==
  (/\ run \in {"model", "tools"} /\ indexed = 0 /\ lastError = "none"
   /\ \A c \in Slots : call[c] \notin {"fetching", "indexing"}) => fetches = 0

IInv == TypeOK /\ Counted /\ Quiet /\ Charged /\ Explained /\ NoFailureIsLost

LEMMA ResultOK == ASSUME TypeOK PROVE Result \in Over \ {"raised"}
BY DEF TypeOK, Result, Over, Failed, Errors

\* How a call's move changes the number of searches in flight.
LEMMA CountOK ==
  ASSUME TypeOK, NEW c \in Slots, NEW w \in Calls, Go(c, w)
  PROVE  /\ Cardinality(Searching) \in Nat /\ Cardinality(Searching') \in Nat
         /\ call[c] # "searching" /\ w = "searching" =>
              Cardinality(Searching') = Cardinality(Searching) + 1
         /\ call[c] = "searching" /\ w # "searching" =>
              Cardinality(Searching) = Cardinality(Searching') + 1
         /\ call[c] # "searching" /\ w # "searching" =>
              Cardinality(Searching') = Cardinality(Searching)
<1>1. IsFiniteSet(Searching) /\ IsFiniteSet(Searching')
  <2>1. Searching \subseteq Slots /\ Searching' \subseteq Slots
    BY DEF Searching
  <2> QED BY <2>1, ConstantsOK, FS_Subset
<1>2. Cardinality(Searching) \in Nat /\ Cardinality(Searching') \in Nat
  BY <1>1, FS_CardinalityType
<1>3. call' = [call EXCEPT ![c] = w] /\ call \in [Slots -> Calls]
  BY DEF TypeOK, Go
<1>4. ASSUME call[c] # "searching", w = "searching"
      PROVE  Cardinality(Searching') = Cardinality(Searching) + 1
  <2>1. Searching' = Searching \cup {c} /\ c \notin Searching
    BY <1>3, <1>4 DEF Searching
  <2> QED BY <1>1, <2>1, FS_AddElement
<1>5. ASSUME call[c] = "searching", w # "searching"
      PROVE  Cardinality(Searching) = Cardinality(Searching') + 1
  <2>1. Searching = Searching' \cup {c} /\ c \notin Searching'
    BY <1>3, <1>5 DEF Searching
  <2> QED BY <1>1, <2>1, FS_AddElement
<1>6. ASSUME call[c] # "searching", w # "searching"
      PROVE  Searching' = Searching
  BY <1>3, <1>6 DEF Searching
<1> QED BY <1>2, <1>4, <1>5, <1>6

LEMMA InitOK == Init => IInv
<1> SUFFICES ASSUME Init PROVE IInv
  OBVIOUS
<1>1. TypeOK /\ Counted /\ Quiet /\ Explained /\ NoFailureIsLost
  BY ConstantsOK DEF Init, TypeOK, Calls, Counted, Quiet, Explained, NoFailureIsLost
<1>2. Searching = {}
  BY DEF Init, Searching
<1>3. Charged
  BY <1>2, FS_EmptySet DEF Init, Charged
<1> QED BY <1>1, <1>3 DEF IInv

LEMMA LoopStep == ASSUME IInv, Loop PROVE IInv'
<1> USE DEF IInv
<1>1. CASE AskModel
  <2>1. Searching = {} /\ Searching' = {}
    BY <1>1 DEF AskModel, Quiet, Searching, Asked
  <2>2. TypeOK'
    BY <1>1, ConstantsOK DEF AskModel, MayAsk, TypeOK, budget, Calls
  <2>3. Counted' /\ Quiet' /\ NoFailureIsLost'
    BY <1>1 DEF AskModel, budget, Counted, Quiet, NoFailureIsLost
  <2>4. Charged'
    BY <1>1, <2>1 DEF AskModel, budget, Charged
  <2>5. Explained'
    BY <1>1 DEF AskModel, budget, Explained, Quiet
  <2> QED BY <2>2, <2>3, <2>4, <2>5
<1>2. CASE AgentEnds
  <2>1. run' \in Over \ {"raised"} /\ run' = Result
    BY <1>2, ResultOK DEF AgentEnds
  <2>2. TypeOK'
    BY <1>2, <2>1 DEF AgentEnds, TypeOK, budget
  <2>3. Counted' /\ Quiet'
    BY <1>2, <2>1 DEF AgentEnds, Counted, Quiet, budget
  <2>4. Charged'
    BY <1>2, <2>1 DEF AgentEnds, Charged, Searching, budget
  <2>5. Explained'
    BY <1>2, <2>1 DEF AgentEnds, Over, Failed, Errors, Explained
  <2>6. NoFailureIsLost'
    <3>1. fetches = 0 \/ indexed # 0 \/ lastError # "none"
      BY <1>2 DEF AgentEnds, Explained, Quiet
    <3>2. /\ requests \in [search : Nat, fetch : Nat]
          /\ searches \in Nat /\ indexed \in Nat /\ lastError \in Errors \cup {"none"}
      BY ConstantsOK DEF TypeOK
    <3>3. run' = "agent_no_search" => searches = 0 /\ fetches = 0
      BY <2>1, <3>1, <3>2 DEF Result, Errors
    <3>4. run' = "fetch_all_failed" => searches > 0 /\ fetches = 0
      BY <2>1, <3>1, <3>2 DEF Result, Errors
    <3> QED BY <1>2, <3>2, <3>3, <3>4 DEF AgentEnds, NoFailureIsLost, Counted
  <2> QED BY <2>2, <2>3, <2>4, <2>5, <2>6
<1>3. CASE AgentRaises
  BY <1>3 DEF AgentRaises, TypeOK, Over, Counted, Quiet, Charged, Explained,
              NoFailureIsLost, budget
<1>4. CASE ToolsReturn
  BY <1>4 DEF ToolsReturn, TypeOK, Counted, Quiet, Charged, Searching, Explained,
              NoFailureIsLost, budget
<1> QED BY <1>1, <1>2, <1>3, <1>4 DEF Loop

\* A refused call is over and leaves an error.
LEMMA RefuseOK ==
  ASSUME IInv, NEW c \in Slots, NEW e \in Errors, Refuse(c, e),
         call[c] \notin {"searching", "done"}
  PROVE  IInv'
<1> USE DEF IInv
<1>1. Go(c, "done") /\ "done" \in Calls
  BY DEF Refuse, Calls
<1>2. TypeOK'
  BY <1>1 DEF Refuse, Go, TypeOK
<1>3. Counted' /\ Quiet' /\ Explained' /\ NoFailureIsLost'
  BY DEF Refuse, Go, TypeOK, Counted, Quiet, Explained, NoFailureIsLost, Errors
<1>4. Charged'
  BY <1>1, CountOK DEF Refuse, Charged
<1> QED BY <1>2, <1>3, <1>4

LEMMA ToolStep == ASSUME IInv, NEW c \in Slots, Tool(c) PROVE IInv'
<1> USE DEF IInv
<1>0. /\ run \in {"tools", "raised"}
      /\ "done" \in Calls /\ "searching" \in Calls /\ "fetching" \in Calls
      /\ "indexing" \in Calls
  BY DEF Tool, Quiet, BeginBlankSearch, BeginSearch, SearchReturns, BeginForeignFetch,
         BeginFetch, FetchFails, FetchReturns, IndexReturns, CallRaises,
         FinishResearch, OnTheWeb, Calls, Await
<1>1. CASE BeginBlankSearch(c)
  BY <1>1, RefuseOK DEF BeginBlankSearch, Errors
<1>2. CASE BeginSearch(c)
  <2>1. CASE Refuse(c, "search_budget_exceeded")
    BY <1>2, <2>1, RefuseOK DEF BeginSearch, Errors
  <2>2. CASE /\ searches < MaxSearches
             /\ searches' = searches + 1
             /\ requests' = [requests EXCEPT !.search = @ + 1]
             /\ Go(c, "searching")
             /\ UNCHANGED <<run, steps, fetches, indexed, lastError, charged>>
    <3>1. TypeOK'
      BY <1>0, <2>2, ConstantsOK DEF TypeOK, Go
    <3>2. Counted' /\ Quiet' /\ NoFailureIsLost'
      BY <1>0, <2>2, ConstantsOK DEF TypeOK, Counted, Quiet, NoFailureIsLost
    <3>3. Charged'
      <4>1. Cardinality(Searching') = Cardinality(Searching) + 1
            /\ Cardinality(Searching) \in Nat
        BY <1>0, <1>2, <2>2, CountOK DEF BeginSearch
      <4> QED BY <2>2, <4>1 DEF Charged, TypeOK
    <3>4. Explained'
      BY <1>2, <2>2 DEF BeginSearch, TypeOK, Go, Explained
    <3> QED BY <3>1, <3>2, <3>3, <3>4
  <2> QED BY <1>2, <2>1, <2>2 DEF BeginSearch
<1>3. ASSUME NEW ok \in BOOLEAN, SearchReturns(c, ok) PROVE IInv'
  <2>1. TypeOK'
    BY <1>0, <1>3 DEF SearchReturns, TypeOK, Go, Errors
  <2>2. Counted' /\ Quiet' /\ NoFailureIsLost'
    BY <1>0, <1>3 DEF SearchReturns, Counted, Quiet, NoFailureIsLost
  <2>3. Charged'
    <3>1. Cardinality(Searching) = Cardinality(Searching') + 1
          /\ Cardinality(Searching') \in Nat
      BY <1>0, <1>3, CountOK DEF SearchReturns
    <3> QED BY <1>3, <3>1 DEF SearchReturns, Charged, TypeOK
  <2>4. Explained'
    BY <1>3 DEF SearchReturns, TypeOK, Go, Explained
  <2> QED BY <2>1, <2>2, <2>3, <2>4
<1>4. CASE BeginForeignFetch(c)
  BY <1>4, RefuseOK DEF BeginForeignFetch, Errors
<1>5. CASE BeginFetch(c)
  <2>1. CASE Refuse(c, "fetch_budget_exceeded")
    BY <1>5, <2>1, RefuseOK DEF BeginFetch, Errors
  <2>2. CASE /\ fetches < MaxFetches
             /\ fetches' = fetches + 1
             /\ requests' = [requests EXCEPT !.fetch = @ + 1]
             /\ Go(c, "fetching")
             /\ UNCHANGED <<run, steps, searches, indexed, lastError, charged>>
    <3>1. TypeOK'
      BY <1>0, <2>2, ConstantsOK DEF TypeOK, Go
    <3>2. Counted' /\ Quiet' /\ NoFailureIsLost'
      BY <1>0, <2>2, ConstantsOK DEF TypeOK, Counted, Quiet, NoFailureIsLost, Over
    <3>3. Charged'
      BY <1>0, <1>5, <2>2, CountOK DEF BeginFetch, Charged
    <3>4. Explained'
      BY <2>2 DEF TypeOK, Go, Explained
    <3> QED BY <3>1, <3>2, <3>3, <3>4
  <2> QED BY <1>5, <2>1, <2>2 DEF BeginFetch
<1>6. CASE FetchFails(c)
  BY <1>6, RefuseOK DEF FetchFails, Errors
<1>7. CASE FetchReturns(c)
  <2>1. TypeOK' /\ Counted' /\ Quiet' /\ NoFailureIsLost' /\ Explained'
    BY <1>0, <1>7 DEF FetchReturns, TypeOK, Go, Counted, Quiet, NoFailureIsLost,
                      Explained, budget
  <2>2. Charged'
    BY <1>0, <1>7, CountOK DEF FetchReturns, Charged, budget
  <2> QED BY <2>1, <2>2
<1>8. CASE IndexReturns(c)
  <2>1. TypeOK' /\ Counted' /\ Quiet' /\ NoFailureIsLost' /\ Explained'
    BY <1>0, <1>8 DEF IndexReturns, TypeOK, Go, Counted, Quiet, NoFailureIsLost, Explained
  <2>2. Charged'
    BY <1>0, <1>8, CountOK DEF IndexReturns, Charged
  <2> QED BY <2>1, <2>2
<1>9. CASE CallRaises(c)
  <2>1. run' = "raised"
    BY <1>0, <1>9 DEF CallRaises, Raise
  <2>2. TypeOK'
    BY <1>0, <1>9, <2>1 DEF CallRaises, Raise, Go, TypeOK, Over, budget
  <2>3. Counted' /\ Quiet' /\ Charged' /\ NoFailureIsLost' /\ Explained'
    BY <1>9, <2>1 DEF CallRaises, Counted, Quiet, Charged, NoFailureIsLost, Explained, budget
  <2> QED BY <2>2, <2>3
<1>10. CASE FinishResearch(c)
  <2>1. TypeOK' /\ Counted' /\ Quiet' /\ NoFailureIsLost' /\ Explained'
    BY <1>0, <1>10 DEF FinishResearch, TypeOK, Go, Counted, Quiet, NoFailureIsLost,
                       Explained, budget
  <2>2. Charged'
    BY <1>0, <1>10, CountOK DEF FinishResearch, Charged, budget
  <2> QED BY <2>1, <2>2
<1>11. CASE OnTheWeb(c)
  BY <1>11 DEF OnTheWeb, TypeOK, Counted, Quiet, Charged, Searching, Explained,
               NoFailureIsLost, budget
<1> QED BY <1>1, <1>2, <1>3, <1>4, <1>5, <1>6, <1>7, <1>8, <1>9, <1>10, <1>11 DEF Tool

LEMMA Inductive == Spec => []IInv
<1>1. IInv /\ UNCHANGED vars => IInv'
  BY DEF IInv, vars, TypeOK, Counted, Quiet, Charged, Searching, Explained, NoFailureIsLost
<1>2. IInv /\ [Next]_vars => IInv'
  BY <1>1, LoopStep, ToolStep DEF Next
<1> QED BY InitOK, <1>2, PTL DEF Spec
-----------------------------------------------------------------------------
\* The counters keep their limits and the loop its number of answers
\* (run_research_agent).
THEOREM TypeCorrect == Spec => []TypeOK
<1>1. IInv => TypeOK
  BY DEF IInv
<1> QED BY <1>1, Inductive, PTL

\* No number of parallel calls, raising or outliving the run, sends the web more
\* requests than the budget (_search, _fetch).
THEOREM BudgetKept == Spec => []BudgetHolds
<1>1. IInv => BudgetHolds
  BY ConstantsOK DEF IInv, TypeOK, Counted, BudgetHolds
<1> QED BY <1>1, Inductive, PTL

\* A run that returned left no call behind and charged every search it sent.
THEOREM ReturnsClean == Spec => []ReturnsSettled
<1>1. ASSUME IInv, run \in Over \ {"raised"}
      PROVE  (\A c \in Slots : call[c] = "done") /\ charged = requests.search
  <2>1. \A c \in Slots : call[c] = "done"
    BY <1>1 DEF IInv, Quiet, Over, Failed, Errors
  <2>2. Cardinality(Searching) = 0
    BY <2>1, FS_EmptySet DEF Searching
  <2>3. charged + Cardinality(Searching) = searches /\ charged \in Nat
    BY <1>1 DEF IInv, Charged, TypeOK
  <2> QED BY <1>1, <2>1, <2>2, <2>3 DEF IInv, Counted
<1>2. IInv => ReturnsSettled
  BY <1>1 DEF ReturnsSettled
<1> QED BY <1>2, Inductive, PTL

\* The unspecific error codes hide no failed search or fetch.
THEOREM ErrorsHonest == Spec => []NoFailureIsLost
<1>1. IInv => NoFailureIsLost
  BY DEF IInv
<1> QED BY <1>1, Inductive, PTL

\* Whatever the agent does, its calls are calls of WebClient.
LEMMA AgentStepIsWebStep == ASSUME Next PROVE [WebNext]_web
<1>1. CASE Loop
  BY <1>1 DEF Loop, AskModel, AgentEnds, AgentRaises, ToolsReturn
<1>2. ASSUME NEW c \in Slots, Tool(c) PROVE [WebNext]_web
  <2>1. \/ StartSearch(c) \/ StartFetch(c) \/ WebStep(c) \/ Forget(c)
        \/ UNCHANGED web
    BY <1>2 DEF Tool, BeginBlankSearch, BeginSearch, SearchReturns, BeginForeignFetch,
                BeginFetch, FetchFails, FetchReturns, IndexReturns, CallRaises,
                FinishResearch, OnTheWeb
  <2> QED BY <2>1 DEF WebNext
<1> QED BY <1>1, <1>2 DEF Next

\* The agent implements WebClient: it uses the web only through search_web and
\* fetch_page, starting and abandoning calls as that module allows.
THEOREM AgentUsesWebClient == Spec => WebSpec
<1>1. Init => WebInit
  BY DEF Init
<1>2. [Next]_vars => [WebNext]_web
  BY AgentStepIsWebStep DEF vars
<1> QED BY <1>1, <1>2, PTL DEF Spec, WebSpec

\* So no server makes a call of the agent exceed its requests or its sleep.
THEOREM CallsBounded == Spec => []CallIsBounded
BY AgentUsesWebClient, WebCallIsBounded, PTL

\* And no call of the agent contacts a host that was not checked first.
THEOREM ContactsChecked == Spec => []CheckedBeforeContact
BY AgentUsesWebClient, WebChecksFirst, PTL
-----------------------------------------------------------------------------
(***************************************************************************)
(* A run ends by itself                                                     *)
(***************************************************************************)
\* How many steps a tool call may still take, until the run's next answer.
CallLimit == MostSteps + 2

Left(c) ==
  CASE call[c] = "done" -> 0
    [] call[c] = "indexing" -> 1
    [] call[c] \in {"searching", "fetching"} -> 1 + StepsLeft(web[c])
    [] OTHER -> CallLimit

\* A call is in search_web or fetch_page just while its tool waits for them.
OnlyWhileAwaited ==
  \A c \in Slots : IF call[c] \in {"searching", "fetching"} THEN web[c].at # "idle"
                                                            ELSE web[c] = NoCall

Sound == IInv /\ WebTypeOK /\ OnlyWhileAwaited

LEMMA LeftOK == ASSUME TypeOK, WebTypeOK, NEW c \in Slots PROVE Left(c) \in 0..CallLimit
<1>1. web[c] \in WebCalls
  BY DEF WebTypeOK
<1>2. StepsLeft(web[c]) \in 1..MostSteps /\ MostSteps \in Nat
  BY <1>1, StepsLeftOK
<1> QED BY <1>2 DEF Left, CallLimit, TypeOK, Calls

\* What a tool does to its call and to its request.
LEMMA ToolMoves ==
  ASSUME Sound, NEW c \in Slots, Tool(c)
  PROVE  /\ \A d \in Slots \ {c} : call'[d] = call[d] /\ web'[d] = web[d]
         /\ \/ /\ call[c] \notin {"done", "indexing", "searching", "fetching"}
               /\ \/ call'[c] = "done" /\ web'[c] = NoCall
                  \/ call'[c] \in {"searching", "fetching"} /\ web'[c].at # "idle"
            \/ /\ call[c] \in {"searching", "fetching"} /\ web'[c] = NoCall
               /\ call'[c] \in {"done", "indexing"}
            \/ call[c] = "indexing" /\ call'[c] = "done" /\ web'[c] = NoCall
            \/ /\ call[c] \in {"searching", "fetching"} /\ call'[c] = call[c]
               /\ WebStep(c) /\ web'[c].at # "idle"
<1>1. /\ call \in [Slots -> Calls] /\ web \in [Slots -> WebCalls]
      /\ web[c] \in WebCalls
      /\ IF call[c] \in {"searching", "fetching"} THEN web[c].at # "idle" ELSE web[c] = NoCall
  BY DEF Sound, IInv, TypeOK, WebTypeOK, OnlyWhileAwaited
<1>2. ASSUME NEW w \in Calls, Go(c, w)
      PROVE  call'[c] = w /\ \A d \in Slots \ {c} : call'[d] = call[d]
  BY <1>1, <1>2 DEF Go
<1>3. ASSUME Forget(c)
      PROVE  web'[c] = NoCall /\ \A d \in Slots \ {c} : web'[d] = web[d]
  BY <1>1, <1>3 DEF Forget
<1>4. ASSUME StartSearch(c) \/ StartFetch(c)
      PROVE  web'[c].at # "idle" /\ \A d \in Slots \ {c} : web'[d] = web[d]
  <2>1. ASSUME NEW to \in {"search", "error", "resolve"}, Send(c, to, {}) \/ Move(c, to)
        PROVE  web'[c].at # "idle" /\ \A d \in Slots \ {c} : web'[d] = web[d]
    BY <1>1, <2>1 DEF Send, Move, WebCalls
  <2> QED BY <1>4, <2>1 DEF StartSearch, StartFetch
<1>5. {"done", "searching", "fetching", "indexing"} \subseteq Calls
  BY DEF Calls, Await
<1>6. CASE BeginBlankSearch(c) \/ BeginForeignFetch(c) \/ FinishResearch(c)
  <2>1. Go(c, "done") /\ web' = web /\ call[c] \in {"blank", "foreign", "finish"}
    BY <1>6 DEF BeginBlankSearch, BeginForeignFetch, FinishResearch, Refuse
  <2> QED BY <1>1, <1>2, <1>5, <2>1
<1>7. CASE BeginSearch(c) \/ BeginFetch(c)
  <2>1. /\ call[c] \in {"search", "fetch"}
        /\ \/ Go(c, "done") /\ web' = web
           \/ /\ Go(c, "searching") \/ Go(c, "fetching")
              /\ StartSearch(c) \/ StartFetch(c)
    BY <1>7 DEF BeginSearch, BeginFetch, Refuse
  <2> QED BY <1>1, <1>2, <1>4, <1>5, <2>1
<1>8. CASE \E ok \in BOOLEAN : SearchReturns(c, ok)
  BY <1>2, <1>3, <1>5, <1>8 DEF SearchReturns
<1>9. CASE FetchFails(c) \/ FetchReturns(c) \/ CallRaises(c)
  <2>1. /\ Forget(c) /\ (Go(c, "done") \/ Go(c, "indexing"))
        /\ \/ call[c] \in {"searching", "fetching"}
           \/ call[c] = "indexing" /\ Go(c, "done")
    BY <1>9 DEF FetchFails, FetchReturns, CallRaises, Refuse, Raise
  <2> QED BY <1>2, <1>3, <1>5, <2>1
<1>10. CASE IndexReturns(c)
  BY <1>1, <1>2, <1>5, <1>10 DEF IndexReturns
<1>11. CASE OnTheWeb(c)
  <2>1. /\ call[c] \in {"searching", "fetching"} /\ call' = call /\ WebStep(c)
    BY <1>11 DEF OnTheWeb
  <2>2. web'[c].at # "idle" /\ \A d \in Slots \ {c} : web'[d] = web[d]
    BY <1>1, <2>1 DEF WebStep, AddressIsPublic, Retry, RobotsAllow, Redirect, PageRead, Finds,
                      Fails, Send, Move, Requesting, WebCalls
  <2> QED BY <2>1, <2>2
<1> QED BY <1>6, <1>7, <1>8, <1>9, <1>10, <1>11 DEF Tool

LEMMA SoundStep ==
  ASSUME Sound, IInv', WebTypeOK', [Next]_vars
  PROVE  Sound'
<1>1. CASE AskModel
  <2>1. \A c \in Slots : web'[c] = NoCall /\ call'[c] \in Asked \cup {"done"}
    BY <1>1 DEF Sound, IInv, Quiet, OnlyWhileAwaited, AskModel
  <2>2. OnlyWhileAwaited'
    BY <2>1 DEF OnlyWhileAwaited, Asked
  <2> QED BY <2>2 DEF Sound
<1>2. CASE AgentEnds \/ AgentRaises \/ ToolsReturn \/ UNCHANGED vars
  BY <1>2 DEF Sound, OnlyWhileAwaited, AgentEnds, AgentRaises, ToolsReturn, vars
<1>3. ASSUME NEW c \in Slots, Tool(c)
      PROVE  Sound'
  <2>1. OnlyWhileAwaited'
    <3> SUFFICES ASSUME NEW d \in Slots
                 PROVE  IF call'[d] \in {"searching", "fetching"} THEN web'[d].at # "idle"
                                                                 ELSE web'[d] = NoCall
      BY DEF OnlyWhileAwaited
    <3>1. CASE d # c
      BY <1>3, <3>1, ToolMoves DEF Sound, OnlyWhileAwaited
    <3>2. CASE d = c
      BY <1>3, <3>2, ToolMoves
    <3> QED BY <3>1, <3>2
  <2> QED BY <2>1 DEF Sound
<1> QED BY <1>1, <1>2, <1>3 DEF Next, Loop

\* Every step of a tool call leaves it fewer to take, and only an answer of the
\* model, of which there are at most MaxSteps, gives a call new ones.
ToolsRunOut ==
  /\ \A c \in Slots : Left(c) \in 0..CallLimit
  /\ \A c \in Slots : Tool(c) => Left(c)' < Left(c)
  /\ \A c \in Slots : Left(c)' > Left(c) => steps' = steps + 1

LEMMA ToolLessens ==
  ASSUME Sound, Sound', NEW c \in Slots, Tool(c)
  PROVE  /\ Left(c)' \in Nat /\ Left(c)' < Left(c)
         /\ \A d \in Slots \ {c} : Left(d)' = Left(d)
<1> DEFINE n == web'[c]
<1>1. /\ StepsLeft(web[c]) \in 1..MostSteps /\ StepsLeft(n) \in 1..MostSteps
      /\ MostSteps \in Nat
  BY StepsLeftOK DEF Sound, WebTypeOK
<1>2. /\ Left(c)' = CASE call'[c] = "done" -> 0
                      [] call'[c] = "indexing" -> 1
                      [] call'[c] \in {"searching", "fetching"} -> 1 + StepsLeft(n)
                      [] OTHER -> CallLimit
  BY DEF Left, StepsLeft, Here, Tries
<1>3. ASSUME call[c] \notin {"done", "indexing", "searching", "fetching"},
             call'[c] \in {"done", "searching", "fetching"}
      PROVE  Left(c)' < Left(c)
  BY <1>1, <1>2, <1>3 DEF Left, CallLimit
<1>4. ASSUME call[c] \in {"searching", "fetching"}, call'[c] \in {"done", "indexing"}
      PROVE  Left(c)' < Left(c)
  BY <1>1, <1>2, <1>4 DEF Left
<1>5. ASSUME call[c] = "indexing", call'[c] = "done"
      PROVE  Left(c)' < Left(c)
  BY <1>2, <1>5 DEF Left
<1>6. ASSUME call[c] \in {"searching", "fetching"}, call'[c] = call[c], WebStep(c)
      PROVE  Left(c)' < Left(c)
  <2>1. StepsLeft(web[c])' < StepsLeft(web[c])
    BY <1>6, WebStepLessens DEF Sound
  <2>2. StepsLeft(web[c])' = StepsLeft(n)
    BY DEF StepsLeft, Here, Tries
  <2>3. Left(c) = 1 + StepsLeft(web[c]) /\ Left(c)' = 1 + StepsLeft(n)
    BY <1>2, <1>6 DEF Left
  <2> QED BY <1>1, <2>1, <2>2, <2>3
<1>7. Left(c)' < Left(c)
  BY <1>3, <1>4, <1>5, <1>6, ToolMoves
<1>8. ASSUME NEW d \in Slots \ {c} PROVE Left(d)' = Left(d)
  <2>1. call'[d] = call[d] /\ web'[d] = web[d]
    BY <1>8, ToolMoves
  <2> QED BY <2>1 DEF Left, StepsLeft, Here, Tries
<1>9. Left(c)' \in Nat
  BY <1>1, <1>2 DEF CallLimit
<1> QED BY <1>7, <1>8, <1>9

\* What RunEnds rests on: parallel calls and what a raised run left behind come to an
\* end, for any budget, whatever the web answers.
THEOREM ToolCallsEnd == Spec => [][ToolsRunOut]_vars
<1>1. Init => OnlyWhileAwaited
  BY DEF Init, WebInit, OnlyWhileAwaited
<1>2. IInv /\ WebTypeOK /\ OnlyWhileAwaited => Sound
  BY DEF Sound
<1>3. Sound /\ IInv' /\ WebTypeOK' /\ [Next]_vars => Sound'
  BY SoundStep
<1>4. Sound /\ Sound' /\ [Next]_vars => [ToolsRunOut]_vars
  <2> SUFFICES ASSUME Sound, Sound', Next PROVE ToolsRunOut
    OBVIOUS
  <2>1. \A c \in Slots : Left(c) \in 0..CallLimit
    BY LeftOK DEF Sound, IInv
  <2>2. CASE AskModel
    BY <2>1, <2>2, ToolLessens DEF AskModel, ToolsRunOut
  <2>3. CASE AgentEnds \/ AgentRaises \/ ToolsReturn
    <3>1. call' = call /\ web' = web
      BY <2>3 DEF AgentEnds, AgentRaises, ToolsReturn
    <3>2. \A c \in Slots : Left(c)' = Left(c)
      BY <3>1 DEF Left, StepsLeft, Here, Tries
    <3> QED BY <2>1, <3>1, <3>2, ToolLessens DEF ToolsRunOut
  <2>4. ASSUME NEW c \in Slots, Tool(c)
        PROVE  ToolsRunOut
    <3>1. \A d \in Slots : ~ Left(d)' > Left(d)
      BY <2>1, <2>4, ToolLessens
    <3> QED BY <2>1, <3>1, ToolLessens DEF ToolsRunOut
  <2> QED BY <2>2, <2>3, <2>4 DEF Next, Loop
<1>5. Spec => []WebTypeOK
  BY AgentUsesWebClient, WebCallEnds, PTL
<1> QED BY <1>1, <1>2, <1>3, <1>4, <1>5, Inductive, PTL DEF Spec
=============================================================================
