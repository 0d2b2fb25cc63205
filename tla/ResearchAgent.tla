---------------------------- MODULE ResearchAgent ----------------------------
(***************************************************************************)
(* One run of the research agent (app/research/research_agent.py): a        *)
(* language model and its tools take turns.  The tool calls of one answer    *)
(* run in parallel (ToolNode gathers them) and share the run's budget; each  *)
(* is cut where it awaits the index, and inside the calls of search_web and  *)
(* fetch_page (WebClient) it awaits.  When one raises, the run ends and      *)
(* nobody cancels the others.                                               *)
(***************************************************************************)
EXTENDS WebClient, FiniteSets

CONSTANTS     \* Slots: the tool calls one answer of the model may hold
  MaxSearches,  \* MAX_SEARCHES
  MaxFetches,   \* fetch_limit, at most MAX_FETCHES
  MaxSteps      \* MAX_AGENT_STEPS: the recursion limit allows as many answers

ASSUME ConstantsOK ==
  /\ IsFiniteSet(Slots)
  /\ MaxSearches \in Nat /\ MaxFetches \in Nat
  /\ MaxSteps \in Nat \ {0}

Asked  == {"search", "blank", "fetch", "foreign", "finish"}  \* not begun yet
Await  == {"searching", "fetching", "indexing"}
Calls  == Asked \cup Await \cup {"done"}
Errors == {"search_budget_exceeded", "search_empty_query", "search_error",
           "fetch_budget_exceeded", "domain_not_allowed", "fetch_error"}
Failed == Errors \cup {"agent_no_search", "fetch_all_failed"}
Over   == {"ok", "raised"} \cup Failed

VARIABLES
  run,                           \* whose turn it is, or how the run ended
  steps,                         \* answers the model has given
  call,                          \* the tool calls of the last answer
  searches, fetches, indexed, lastError,  \* _ResearchBudget
  charged,                       \* searches added to research_usage.search_count
  requests                       \* calls of search_web and of fetch_page

budget == <<searches, fetches, indexed, lastError>>
vars   == <<run, steps, call, searches, fetches, indexed, lastError, charged, requests,
            web>>

TypeOK ==
  /\ run \in {"model", "tools"} \cup Over
  /\ steps \in 0..MaxSteps
  /\ call \in [Slots -> Calls]
  /\ searches \in 0..MaxSearches
  /\ fetches \in 0..MaxFetches
  /\ indexed \in Nat
  /\ lastError \in Errors \cup {"none"}
  /\ charged \in Nat
  /\ requests \in [search : Nat, fetch : Nat]

Init ==
  /\ run = "model" /\ steps = 0
  /\ call = [c \in Slots |-> "done"]
  /\ searches = 0 /\ fetches = 0 /\ indexed = 0 /\ lastError = "none"
  /\ charged = 0
  /\ requests = [search |-> 0, fetch |-> 0]
  /\ WebInit
-----------------------------------------------------------------------------
(***************************************************************************)
(* The loop                                                                 *)
(***************************************************************************)
Result == IF indexed > 0 THEN "ok"
          ELSE IF lastError # "none" THEN lastError
          ELSE IF searches = 0 THEN "agent_no_search" ELSE "fetch_all_failed"

MayAsk == steps < MaxSteps

\* Mutation: answers are not counted.
AskModelUncounted ==
  /\ run = "model" /\ MayAsk
  /\ call' \in [Slots -> Asked \cup {"done"}]
  /\ \E c \in Slots : call'[c] # "done"
  /\ run' = "tools"
  /\ UNCHANGED <<steps, budget, charged, requests, web>>

\* The model answers with tool calls, whatever it called before: finish_research
\* does not end the loop either.
AskModel ==
  /\ run = "model" /\ MayAsk
  /\ steps' = steps + 1
  /\ call' \in [Slots -> Asked \cup {"done"}]
  /\ \E c \in Slots : call'[c] # "done"
  /\ run' = "tools"
  /\ UNCHANGED <<budget, charged, requests, web>>

\* It answers without one, which ends the run.
AgentEnds ==
  /\ run = "model" /\ MayAsk
  /\ run' = Result
  /\ UNCHANGED <<steps, call, budget, charged, requests, web>>

\* The recursion limit or the model's own failure.
AgentRaises ==
  /\ run = "model"
  /\ run' = "raised"
  /\ UNCHANGED <<steps, call, budget, charged, requests, web>>

ToolsReturn ==
  /\ run = "tools"
  /\ \A c \in Slots : call[c] = "done"
  /\ run' = "model"
  /\ UNCHANGED <<steps, call, budget, charged, requests, web>>
-----------------------------------------------------------------------------
(***************************************************************************)
(* search_web                                                               *)
(***************************************************************************)
Go(c, where) == call' = [call EXCEPT ![c] = where]

\* A call that raises ends the run, unless the run is over already.
Raise(c) == Go(c, "done") /\ run' = IF run = "tools" THEN "raised" ELSE run

Refuse(c, e) ==
  /\ Go(c, "done")
  /\ lastError' = e
  /\ UNCHANGED <<run, steps, searches, fetches, indexed, charged, requests>>

BeginBlankSearch(c) ==
  /\ call[c] = "blank"
  /\ Refuse(c, IF searches < MaxSearches THEN "search_empty_query"
                                         ELSE "search_budget_exceeded")
  /\ UNCHANGED web

\* Mutation: the counter is raised when the answer is there.
BeginSearchUncounted(c) ==
  /\ call[c] = "search"
  /\ \/ searches >= MaxSearches /\ Refuse(c, "search_budget_exceeded") /\ UNCHANGED web
     \/ /\ searches < MaxSearches
        /\ requests' = [requests EXCEPT !.search = @ + 1]
        /\ Go(c, "searching") /\ StartSearch(c)
        /\ UNCHANGED <<run, steps, budget, charged>>

\* The budget is checked and counted under its lock, before the request is sent.
BeginSearch(c) ==
  /\ call[c] = "search"
  /\ \/ searches >= MaxSearches /\ Refuse(c, "search_budget_exceeded") /\ UNCHANGED web
     \/ /\ searches < MaxSearches
        /\ searches' = searches + 1
        /\ requests' = [requests EXCEPT !.search = @ + 1]
        /\ Go(c, "searching") /\ StartSearch(c)
        /\ UNCHANGED <<run, steps, fetches, indexed, lastError, charged>>

\* Mutation: only a search with results is charged to the manuscript.
SearchReturnsFree(c, ok) ==
  /\ call[c] = "searching"
  /\ web[c].at = "found" \/ (~ok /\ web[c].at = "error")
  /\ charged' = IF ok THEN charged + 1 ELSE charged
  /\ lastError' = IF ok THEN lastError ELSE "search_error"
  /\ Go(c, "done") /\ Forget(c)
  /\ UNCHANGED <<run, steps, searches, fetches, indexed, requests>>

\* search_web answered: with results, with an error code, or with no allowed hit.
SearchReturns(c, ok) ==
  /\ call[c] = "searching"
  /\ web[c].at = "found" \/ (~ok /\ web[c].at = "error")
  /\ charged' = charged + 1
  /\ lastError' = IF ok THEN lastError ELSE "search_error"
  /\ Go(c, "done") /\ Forget(c)
  /\ UNCHANGED <<run, steps, searches, fetches, indexed, requests>>
-----------------------------------------------------------------------------
(***************************************************************************)
(* fetch_page, finish_research                                              *)
(***************************************************************************)
BeginForeignFetch(c) ==
  /\ call[c] = "foreign"
  /\ Refuse(c, IF fetches < MaxFetches THEN "domain_not_allowed"
                                       ELSE "fetch_budget_exceeded")
  /\ UNCHANGED web

BeginFetch(c) ==
  /\ call[c] = "fetch"
  /\ \/ fetches >= MaxFetches /\ Refuse(c, "fetch_budget_exceeded") /\ UNCHANGED web
     \/ /\ fetches < MaxFetches
        /\ fetches' = fetches + 1
        /\ requests' = [requests EXCEPT !.fetch = @ + 1]
        /\ Go(c, "fetching") /\ StartFetch(c)
        /\ UNCHANGED <<run, steps, searches, indexed, lastError, charged>>

\* Mutation: a page that could not be fetched is only skipped.
FetchFailsSilently(c) ==
  /\ call[c] = "fetching" /\ web[c].at \in Answered
  /\ Go(c, "done") /\ Forget(c)
  /\ UNCHANGED <<run, steps, budget, charged, requests>>

\* fetch_page raised or found no source, or its canonical URL is of a foreign domain.
FetchFails(c) ==
  /\ call[c] = "fetching"
  /\ \/ web[c].at = "error" /\ Refuse(c, "fetch_error")
     \/ web[c].at = "found" /\ Refuse(c, "domain_not_allowed")
  /\ Forget(c)

FetchReturns(c) ==
  /\ call[c] = "fetching" /\ web[c].at = "found"
  /\ Go(c, "indexing") /\ Forget(c)
  /\ UNCHANGED <<run, steps, budget, charged, requests>>

\* index_research_sources returned; what it made of the page is not looked at.
IndexReturns(c) ==
  /\ call[c] = "indexing"
  /\ indexed' = indexed + 1
  /\ Go(c, "done")
  /\ UNCHANGED <<run, steps, searches, fetches, lastError, charged, requests, web>>

\* search_web or a commit raises, in a search or while a page is indexed.
CallRaises(c) ==
  /\ call[c] \in {"searching", "indexing"}
  /\ Raise(c) /\ Forget(c)
  /\ UNCHANGED <<steps, budget, charged, requests>>

\* It leaves a flag nobody reads; a call ToolNode refuses for its arguments is the same.
FinishResearch(c) ==
  /\ call[c] = "finish"
  /\ Go(c, "done")
  /\ UNCHANGED <<run, steps, budget, charged, requests, web>>

\* The call moves on inside search_web or fetch_page.
OnTheWeb(c) ==
  /\ call[c] \in {"searching", "fetching"}
  /\ WebStep(c)
  /\ UNCHANGED <<run, steps, call, budget, charged, requests>>

Tool(c) ==
  \/ BeginBlankSearch(c) \/ BeginSearch(c)
  \/ \E ok \in BOOLEAN : SearchReturns(c, ok)
  \/ BeginForeignFetch(c) \/ BeginFetch(c)
  \/ FetchFails(c) \/ FetchReturns(c)
  \/ IndexReturns(c) \/ CallRaises(c)
  \/ FinishResearch(c) \/ OnTheWeb(c)

Loop == AskModel \/ AgentEnds \/ AgentRaises \/ ToolsReturn

Next == Loop \/ \E c \in Slots : Tool(c)

Spec == Init /\ [][Next]_vars

\* Model calls, requests and commits end, with a result or an exception.
FairSpec == Spec /\ WF_vars(Loop) /\ \A c \in Slots : WF_vars(Tool(c))
-----------------------------------------------------------------------------
(***************************************************************************)
(* Properties                                                               *)
(***************************************************************************)
\* However many calls run in parallel, and also those that outlive a run that
\* raised: the web never sees more requests than the budget allows.
BudgetHolds == requests.search <= MaxSearches /\ requests.fetch <= MaxFetches

\* A run that returned has no call left that could still write, and every search
\* it sent is charged to the manuscript, whatever the answer was.
ReturnsSettled ==
  run \in Over \ {"raised"} =>
    /\ \A c \in Slots : call[c] = "done"
    /\ charged = requests.search

\* The unspecific error codes are honest: no failure of a search or a fetch is
\* lost behind "nothing was tried" or "nothing went wrong that we know of".
NoFailureIsLost ==
  /\ run = "agent_no_search" => requests = [search |-> 0, fetch |-> 0]
  /\ run = "fetch_all_failed" => requests.search > 0 /\ requests.fetch = 0

\* Every run ends, also for a model that never stops calling tools.
RunEnds == <>(run \in Over)
=============================================================================
