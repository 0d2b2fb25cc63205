# A formal model of Think Chair

Think Chair helps its users think a text through in a conversation and writes the text with them. It is one FastAPI
process with one asyncio event loop, an SQLite database, a LangGraph conversation graph whose state lives in SQLite
checkpoints, a Chroma index of web pages and a directory of files. This directory holds TLA+ modules translated from
that code, TLC configurations that check them on small instances, and TLAPS proofs of the results that matter most.

## The system

| Component | State it keeps | Operations | Talks to |
|---|---|---|---|
| Research job service (`services/research_job_service.py`, `api/endpoints/research.py`) | rows of `research_jobs`, `research_usage` | create or return a job, poll, cancel, continue | starts the worker; its rows are the worker's too |
| Job worker (`research/research_job_{runner,context,stages}.py`) | one asyncio task per job: round, last retrieval | begin, search the index, up to three web rounds, decide, finish, fail | web research, the index, the job rows |
| Research agent (`research/research_agent.py`) | search and fetch budgets of one run | tool calls of a language model, several at once | search, fetcher, indexing |
| Search and fetcher (`research/web_search.py`, `page_fetcher.py`, `network_safety.py`, `retry.py`) | locals of a call: attempt, redirect count | requests with retries and waits, redirects, address and robots.txt checks | the web, for the agent |
| Source indexing (`research/indexing.py`, `source_exclusion.py`, `evidence_index.py`) | source rows, URL aliases, job links, raw files, Chroma chunks | index a page, reuse a source, clean up, exclude | shared by all jobs |
| Evidence retrieval (`research/retrieval.py`) | none | rank chunks, judge sufficiency | index |
| Chat turns (`services/chat_service.py`, `api/endpoints/chat.py`) | `chat_messages` | take a message, acknowledge or stream an answer, ask for research, continue after it | graph, research, browser |
| Conversation graph (`graph/`) | the thread: messages, evidence text, paper, attempts, pending node | router, replies, outline, document, filter, save, evaluate | checkpointer, storage, `manuscript_versions` |
| Manuscripts and versions (`services/manuscript_service.py`, `graph/nodes/save_new_paper.py`) | manuscripts, `manuscript_versions`, files | create, list, hide, poll, download, save a version | the graph writes versions, the page polls them |
| Browser page (`templates/workspace/_chat_center.html`) | form lock, version list and its poll timer, job poll | send, poll versions, poll a job, continue | endpoints |
| LLM settings (`llm/manuscript_settings.py`, `registry.py`) | one row per manuscript | PUT, look up before every call of a model | settings dialog, chat turns, page views |
| Authentication, prompts and parsers, page rendering, offline evaluation, logging and tracing | rows or nothing | single-row or text operations | - |

What is hard. Code between two `await`s is atomic, but a worker, an indexing attempt and a graph run each suspend for
seconds to minutes in the middle of their work and go on with what they read before. Cancelling, hiding, excluding,
a second tab and a page reload all fall into those gaps. Four stores (SQL, alias rows, files, Chroma) and the
checkpoints have no common transaction. Background work is an asyncio task nobody persists: the container is restarted
(`restart: unless-stopped`), the tasks are not. All requests of a manuscript share one graph thread and every run
writes back its own copy.

What makes each part correct: a job is unique per message, counted, limited, eventually settled and then final; the
corpus keeps row, chunks, raw file and aliases in agreement whoever fails; a message is answered once, from its own
evidence, in a thread that forgets nothing; a document is saved once, of the requested kind, after it was promised, and
appears on the page that asked for it; an agent keeps to its budgets, ends, and does not hide what failed; a call of
the web is bounded whatever servers answer and contacts only hosts it checked; a chosen model is used as it was saved,
and with an effort its provider accepts.

## Modules

`JobLifecycle` is the abstract specification of a job: queued, running, settled, final. `ResearchJobs` is the detailed
one; it implements `JobLifecycle` with `Jobs <- JobIds` and the same `status`. `WebClient` is what one tool call may do
on the web; `ResearchAgent` extends it and drives its calls, and implements it. `ManuscriptVersions` is the server's
side of saving a version; `WorkspacePage` extends it with the page that polls it, and implements it. `SourceIndexing`,
`ChatThread` and `LlmSettings` stand beside them: the job worker sees a run of the agent as one await after which the
retrieval may have changed, the agent sees indexing as an await that ends or raises, the chat and the page see a job
only as open, ready or over. The `MC` modules hold symmetry sets and function-valued constants; the `_proofs` modules
hold the theorems. Every module writes each mutation (a variant of an operator with a plausible bug, marked `Mutation`)
beside the operator it mutates; no behaviour uses it.

Where a property holds under some circumstances only, a variable (`faults` of `ResearchJobs`; `env` of `SourceIndexing`,
`WorkspacePage` and `LlmSettings`) holds the faults or circumstances of a behaviour. It is chosen in `Init` from the
constant `Environments`, never changes, guards the actions that depend on it, and is a hypothesis of the properties that
need calm. One run then examines several environments, and a theorem states each property for all of them. `ChatThread`
takes its clients and faults as constants, one set per run.

### ResearchJobs

State: the columns of the rows (`status`, `manuscript`, `message`, `error`), the usage counter, the deletion flag and,
per job, the task (`worker`, `round`, `evidence`). A worker awaits only in `web_research`, so `Begin` is everything
from its start to the first such await or its end, `WebReturns` and `WebRaises` everything from one await on, including
the commits and the tail `cancelled, decide_job_outcome, reload_if_active, finish`. `RunnerRaises` is the handler of
last resort (reached by a raising query embedding or commit), `SetupRaises` an exception before the runner exists.
Calls that change nothing (a repeated POST, a cancel of a settled job, a refused request) are no steps. `Init` allows
rows of an earlier version of the program: `create_all` adds the usage table without filling it. The sources, scores
and texts of a retrieval are reduced to what the stages read: the number of distinct relevant URLs and whether any
relevant chunk was found. The daily document counter and the search counter are left out, as no limit reads them.
`terminal_error` keeps its values; the message of a job is never null for rows the API creates.

### ResearchAgent

State: whose turn it is (`run`: the model, the tools, or how the run ended), the answers given, the tool calls of the
last answer by the await they are in, the fields of `_ResearchBudget`, and what the outside has seen (`requests`,
`charged`). `AskModel` lets a model ask for any mix of calls: searches with and without words, pages inside and outside
the allowed domains, `finish_research`. Each call is cut at its awaits: check and count of the budget under the lock
with the sending of the request (`BeginSearch`, `BeginFetch`), the slice after the answer (`SearchReturns`,
`FetchFails`, `FetchReturns`), the slice after indexing (`IndexReturns`). In between `OnTheWeb` takes the steps of
`WebClient`, and the call returns as that module's call did. `ToolNode` gathers the calls of an answer, so
`ToolsReturn` waits for all; an exception (`CallRaises`) ends the run and the other calls go on. Error codes of search
and fetch that the caller treats alike are one code each. `finished` and `finish_reason` are never read and left out.
The recursion limit of twice the steps is as many answers, as every answer but the last is followed by the tools.

### WebClient

State: for each call where it is (`search`; or `resolve`, `robots`, `page`, `canonical` of the present hop), its hop and
its attempt, and as history the requests it sent, the time it slept in quarters of a second and which checks and
requests it made at which hop. `StartSearch` and `StartFetch` send the first request or return at once (no key, no
usable URL). `Retry` is the timeout, 429 or 5xx of an attempt that is not the last, with the sleep of
`retry_wait_seconds`; `AddressIsPublic`, `RobotsAllow`, `Redirect`, `PageRead` and `Finds` are the ways on, `Fails`
every early return and exception. Texts, sizes and status codes that are treated alike are one outcome. A connection
that delivers slowly forever is bounded by the client's timeout per read only; the model takes a request to end.

### SourceIndexing

An attempt is one call of `index_research_sources` for one page (the agent passes one page per call). `SkipExcluded`,
`Reuse`, `Start` and `SplitRaises` are the ways its first slice ends; the last one is outside of the code's `try`, so
the row stays pending and nothing is cleaned up. `Succeed` and `Fail` are the slice after the embedding await; saving
the raw file is inside the `try`, and if it raises, `Start` and `Fail` in a row leave what it leaves, with nothing in
between. Deleting chunks or the raw file may raise in the clean-up too (`"cleanup"`). Under `"torn"` a slice breaks off
at any point behind its first write to another store, by its own commit or by the death of the process (`BreaksOff`),
and so does an exclusion behind its deletion of the chunks (`ExcludeBreaksOff`, also when deleting the raw file raises).
Two history variables name what such breaks left: `leftover`, chunks nobody took away, and `gutted`, sources that lost
theirs while the row kept its status. A source is named by its canonical URL, which is how its row id is derived. Two
versions of a page are taken to differ in every chunk: chunk ids hash the text, so a shared paragraph would belong to
both versions, and deleting one version's chunks would take it from the other. Exclusion is an operation of the module
`source_exclusion.py` that only tests and operators call so far, hence the circumstance `"exclude"`; `"overlap"` lets
attempts of several jobs await their embeddings at once.

### ChatThread

The thread is the newest checkpoint. LangGraph and its SQLite saver are external and modelled from their use here:
loading takes the newest checkpoint; new input drops what was pending, is merged and stored, then runs the router;
resuming without input runs the pending node; `aupdate_state` stores a changed copy and keeps the pending node; each
node's result is stored before the next runs, and the last to store is the newest. Node and store are one action for
the nodes that write nothing but the thread; the save node commits its row first, and whatever keeps its checkpoint from
being stored then (a raising read of the row, a raising store, a cancelled stream, the death of the process) is
`SaveTears`, after which the thread has the node still pending. `torn` marks the rows of such runs. Loading and storing
the input are two actions. A thread keeps messages as the sets of user messages and answered ones, the
turn whose message is the last human one, the turn its evidence was retrieved for, the class of the paper (none,
outline, document, short) and the attempts. Nodes: `RunRouter`, `RunReply` (opening, converse, feedback and rejection),
`RunOutline`, `RunGenerate`, `RunChinesePrevent`, `RunSave`, `RunEvaluate`. The mark of an evaluation is set together
with its checkpoint; no property reads it. What language models decide (action,
sufficiency, need for research, length of a document) is free within what the code checks around them. A message and a
claim are never blank: the form and the request schema refuse both. Rows of `routing_decisions` are a log and left out.

`Client` says how the clients behave. `{}` is a user who waits: the page's form is locked while an answer streams and
while research is unanswered, and the model also keeps it locked while a document is generated, which the page does
not; `"late"` adds reloads that unlock a form over unanswered research, `"background"` messages during a generation
(which the page allows), `"parallel"` a second tab. The positive properties say which of them they survive.

### ManuscriptVersions and WorkspacePage

A generation saves in an executor thread, in the order of the code: `WriteFile` (`created_at` is read, the file
written), `ReadRevision`, `Commit`, `StoreCheckpoint`; another generation may do anything in between, and the process
may die. `GenerationFails` is an exception or a death before any of these, also after the commit, where the node reads
the row anew and its checkpoint is stored. `RunAgain` is a continue call that resumes the thread at the save node;
`torn` counts the runs that broke off between commit and checkpoint. Storage key, row id and `created_at` are one
number, made anew by each run of the node; the clock is taken to be fine enough to tell two runs apart.

`WorkspacePage` translates the script of the page. A message is submitted only while the form is free; its stream ends
with an answer or an error (`AnswerEnds`), a document's acknowledgement (the server starts the generation in
`StartsGeneration`, the page reads the end of the stream in `Acknowledged`), or an announcement of research
(`Announced`, then `Awaits`). A stream may break off in between (`"cut"`): then the page neither polls nor waits.
`Announced` starts `startResearchJob`, which nobody awaits: its POST, its interval and the continue call take their own
steps. `VersionTick`, `PollVersions` and `PollApplied` are the version poll, cut at its request and its answer: the
server's part is `list_manuscript_versions_after`, the page's part appends, counts and maybe stops. `Reload` starts the
script anew with the whole list. `env` says whether answers may overlap the interval, documents be asked for before the
last one appeared, a generation be resumed, the page be reloaded, streams break off, or jobs never end because a
restart, a failed set-up or a failed commit lost them (`JobLost`). The server answers a message as it likes; which
answers it gives is the matter of `ChatThread`.

### LlmSettings

PUTs run in threads, lookups on the event loop, each in its own session: `ReadRow`, `InsertDefault`, `Save` and `Answer`
are separate statements of them. `Save` is the UPDATE SQLAlchemy issues: it names only the columns that differ from
what the session read. `"parallel"` lets PUTs of two tabs overlap; the dialog of one page disables its button until
the answer. `Init` allows a missing row (manuscripts older than the table) and rows with the effort `max` of OpenAI,
which later code refuses. Models and efforts the code treats alike are one value. The registry adds nothing to the
choice but a client object per combination, so `Call` stands for it.

## Runs

| Run | Instance | Question | Answer |
|---|---|---|---|
| `jobs` | 3 jobs of a manuscript, 3 messages, limit 2, 2 rounds, 3 URLs, legacy rows, fair; restarts, or failing set-ups and commits | rows, counter, limit, evidence, rounds, finality, life cycle, every job settles | hold |
| `restart` | 1 job | documented handling of restarts | violated |
| `agent` | 2 parallel calls, 2 searches, 2 fetches, 2 answers, 2 attempts, 1 redirect, fair | budgets, settled returns, honest errors, bounded and checked calls, end of every run | hold |
| `corpus` | 3 attempts, 2 jobs, 2 URLs, 3 pages, crashes, failing deletions and broken-off slices; all in flight at once with exclusion, one at a time with exclusion, or one at a time without | corpus under any interleaving; agreement of raw file, chunks and row but for what such breaks left | hold |
| `raw` | the same, overlapping, no faults | documented raw file of every indexed source | violated |
| `any` | 2 turns after an earlier one, 1 continue, every client, raising nodes and lookups, cancelled streams | what overlapping runs cannot break | holds |
| `late` | 3 turns after an earlier one, 2 continues, late clients, all faults | one answer, one version but for broken-off saves, full history | hold |
| `waits` | 3 turns from an empty manuscript, 2 continues, clients that wait, fair, raising nodes and cancelled streams | opening, own answers, complete thread, acknowledged documents saved | hold |
| `continue`, `background` | late, or background, clients without faults | documented continuation and history | violated |
| `page` | 2 messages, 2 polls, 3 runs of the save nodes, fair; lost jobs, these and broken streams, reloads, overlapping polls and hasty requests, or resumed generations | whole versions, copies, order and completeness of the list, lock of the form | hold |
| `settings` | 2 PUTs of any payload, 2 lookups, one PUT at a time or two | accepted calls, saved choices | hold |

Properties:

- `ResearchJobs`: `OneJobPerMessage`, `UsageCountsJobs`, `QuotaHolds`, `SettledIsFinal`, `LifecycleSpec`,
  `WorkerMatchesRow`, `EachRoundEarned`, `ReadyJobHasEvidence`, `FinishedTaskSettledJob`, `JobsSettle`.
- `ResearchAgent`: `BudgetHolds`, `ReturnsSettled`, `NoFailureIsLost`, `RunEnds`, and of `WebClient` `CallIsBounded`
  (requests and sleep of a call, whatever servers answer) and `CheckedBeforeContact` (behind redirects too).
- `SourceIndexing`: `IndexedIsSearchable` (but for sources whose chunks a deletion took that then broke off),
  `CanonicalResolvesToItself`, `AliasesStay`, `OnlyInFlightRestores`; one attempt at a time: `OnlyIndexedIsSearchable`
  and, without exclusion, `IndexedHasItsRaw` (both but for chunks left by an attempt that broke off or could not clean
  up). `LinkedWasIndexed` is proved and in no run.
- `ChatThread`: `PaperWasRequested`, `ShortOnlyAfterAllAttempts`, `EvidenceHasOwner` whatever overlaps;
  `OneReplyPerMessage`, `OneVersionPerMessage` (a second version only if the run that saved the one before broke off
  behind its commit), `HistoryAccumulates` without overlaps; `OpeningOnce`,
  `RepliesToOwnTurn`, `MessagesReachThread`, `AckedDocumentIsSaved` for clients that wait.
- `ManuscriptVersions` and `WorkspacePage`: `VersionsAreWhole` and `CopiesOnlyAfterTear` whatever overlaps, raises and
  dies; `ListIsInOrder` and `SavedIsShown` without overlapping polls or generations, the latter but for a stream that
  broke off between the start of the generation and its end; `LockedWhileResearching` unless streams break off,
  `LockEnds` but for a lost POST or a lost job.
- `LlmSettings`: `CallIsAccepted` (the effort always, the model unless PUTs overlap), `SavedChoiceStays` (unless PUTs
  overlap).

The violated runs are disagreements between the repository's documents and its code: start-up does not close jobs a
restart interrupted; the cleanup of one attempt deletes another's raw file; a late continue answers a later message; a
generation in the background overwrites the turns taken meanwhile. More are visible in the modules without a run of
their own: a cancelled job goes on with its web rounds, although `00-preimplementation-decisions.md` lets a cancellation
stop it (`WebReturns` and `Expand` do not ask for the status); an agent whose pages could all not be indexed reports
success (`IndexReturns`); an attempt in flight registers an excluded source again (`OnlyInFlightRestores` says that
nothing else does), and a URL that is an alias of a failed source but now leads to another page has that page stored
under the old source (`Start` with `found # PageUrl[p]`). Two generations at once may save the same revision number
(`ReadRevision`, `Commit`; nothing makes it unique), and one whose row is committed late with the earlier time is
skipped by the poll. A second document asked for before the first one appeared stops the polling when the first appears
(`PollApplied` with the `before` of the second), although the acknowledgement (`app/services/chat_service.py:23`) tells
the user to look at the list. An exclusion that breaks off behind its deletion of the chunks leaves a source that is
indexed, reused by every job and found by none (`ExcludeBreaksOff`, then `Reuse`). A document whose save node broke off
behind the commit is saved again by the next continue (`SaveTears`, `RunAgain`). A stream that breaks off before the
page has read its end leaves a document the page shows only when it is reloaded (`AnswerEnds` while `"generating"`), and
a lost job keeps the page polling and the form locked until then (`JobLost`). Two overlapping PUTs may leave a row
neither of them sent, with a model the provider does not have (`Updated`), which the next call is made with.

### Bounds

The real limits are 5 jobs per manuscript, 3 web rounds, 3 URLs, 3 attempts at a document, 3 searches, 3 fetches and 8
answers of the agent, 3 attempts at a request, 3 redirects and a sleep of 2 seconds. `restart` uses the real rounds and
URLs. `jobs` takes 2 rounds for 3 URLs: a first round may add one URL, the second be earned by it and add another, and a
third then be refused by the limit alone, with a result that is short by one URL (`EachRoundEarned` bounds the rounds; a
limit that is off by one violates it in this run). Limit 2 with 3 jobs, of which legacy rows may take some, reaches,
exceeds by request and refuses the limit. One manuscript fills it; that jobs of another one are not counted is in the
theorems `UsageExact` and `Quota`, which hold for any number. For the corpus, 3 attempts suffice for one to fail, one to
succeed and one to overlap both, or one after the other to break off, retry with another page and reuse; `a1`, `a2` are
two versions of one URL, `b1` another page. For the chat, an earlier turn makes documents possible at once; overlap
needs two runs, a stale copy a third; 2 attempts give a retry and an exhaustion. For the agent, two calls compete for
the last request of a budget and two answers let a later call meet a used-up budget and an old error; 2 attempts and 1
redirect let a request be retried, a retry be refused, and a second redirect be refused; the one `Retry-After` of
`RetryAfter` is longer than the limit of a sleep, and no header is the other case. Three calls and longer answers are
covered by the theorems. For the page, two documents tell the version a message waits for from another one; two polls
may overlap; three runs of the save nodes are a run of each, and one repetition. For the settings, two PUTs may overlap
or follow each other, two lookups race for the insert. The sets `Attempts`, `Turns`, `Continues`, `Slots`, `Polls`,
`Puts` and `Lookups` and `MaxRuns` bound the environment, `MaxUrls` a retrieval. Deadlock is not checked: bounded
requests are used up. Symmetry is used in safety runs only, over sets no definition tells apart.

### Fairness

`FairSpec` of `ResearchJobs` is weak fairness of each task: the event loop runs whatever is ready, and `web_research`
ends since the agent's recursion limit (`RunEnds`) and `CallIsBounded` bound it; cancellation
and deletion are not fair. `FairSpec` of `ResearchAgent` is weak fairness of the loop and of each tool call, with the
same justification for their awaits. `FairSpec` of `ChatThread` is weak fairness of each request's next step: clients
read their streams (a client that leaves is the fault `"disconnect"`) and language model calls end. What defeats a
promise by what the code does is in the property, not left out of the run: a restart loses jobs (`JobsSettle` allows
`"lost"`), a raising node or a client that leaves before its stream starts loses a document (`AckedDocumentIsSaved`
allows a failed request). A failing commit and a failing set-up of a job, which leave its row open for good, are
excluded by the hypothesis of `JobsSettle` and `FinishedTaskSettledJob`; the other properties of `jobs` include them.

`FairSpec` of `WorkspacePage`: streams, POSTs, continued answers, the jobs that are not lost and the statements of a
save node end, as above (`JobsSettle` allows no other open job; `JobLost` may happen to any of them and is not fair);
timers fire, as browsers keep them for a page that is open; and a request that is polled again and again is answered in
the end (strong fairness of `PollVersions` and of seeing a job's end, as any single poll may fail). Nobody has to submit
a message, resume a generation or reload.

## Proofs

TLAPS proves, for every value of the constants that satisfies the named assumption `ConstantsOK` of the module:

- `ResearchJobs_proofs`: `TypeCorrect`, `JobPerMessage`, `UsageExact`, `WorkerOwnsOpenRow`, `Quota`, `SettledStays`,
  `RoundsEarned`, `ReadyHasEvidence`, `FinishedSettled`, `ImplementsLifecycle`. The counter is exact only together with
  the types and with each row's manuscript being set when the row is (otherwise a new row could count for a manuscript
  already); finality needs `WorkerMatchesRow`, since what `Finish` may overwrite depends on whose row a worker holds.
  The inductive invariant is their conjunction. Only a creating POST, a cancel and a worker's step write a row
  (`RowWriters`): finality and the refinement, which maps each of them to a step of `JobLifecycle`, need no other case.
- `ResearchAgent_proofs`: `TypeCorrect`, `BudgetKept`, `ReturnsClean`, `ErrorsHonest`. The budgets hold since requests
  and counters never differ (`Counted`). That a returned run is settled needs that calls are only in flight while the
  tools have their turn or after an exception (`Quiet`), and that a search is charged or still in flight unless the run
  raised (`Charged`); that errors are honest needs that a fetch is in flight, indexed or explained (`Explained`).
- `WebClient_proofs`: `WebCallIsBounded`, `WebChecksFirst`. What a call has sent is bounded by the hops it has left
  behind, the kind of request it is at and its attempt; what it slept by what it sent. `AgentUsesWebClient` shows that
  the agent implements `WebClient`, and carries both over to it (`CallsBounded`, `ContactsChecked`).
- `SourceIndexing_proofs`: `TypeCorrect`, `IndexedSearchable`, `CanonicalIdentity`, `AliasesPermanent`, `LinksIndexed`,
  `ExcludedStays`. The invariant adds to the properties that an attempt in flight has a stored source and a page
  (`Working`): `Succeed` marks indexed only what it just upserted, and a `Fail` that removes chunks also takes the mark
  from their source; a deletion that breaks off before doing so makes its source `gutted`. For one attempt at a time,
  `SearchableIsIndexed` adds that at most one is in flight, at a source that is pending or was excluded meanwhile, and
  whoever takes the mark from a source also takes its chunks or leaves them behind (`Alone`); `RawMatchesChunks` adds
  that the source of the attempt in flight has the raw file of its page (`OwnRaw`).
- `ManuscriptVersions_proofs`: `VersionsWhole`, `CopiesExplained`. The numbers of a kind are 1 to some n, and a
  generation that read a number read one whose predecessor is there for good, however late it commits (`Follows`); a row
  more than runs that broke off between commit and checkpoint is there only while its generation is past its commit
  (`Counted`).
- `WorkspacePage_proofs`: `PageUsesVersions` (the page implements `ManuscriptVersions`), `ListedAreWhole`,
  `FormStaysLocked`, `PageTypeCorrect`, `ListInOrder`. The invariant of the form is that at most one message is busy,
  that it is submitting while its stream lasts and locked while its research is unanswered; so an unlocking step is
  always that of the busy message. The order of the list rests on one stream and one generation being under way at a
  time (`StreamInv`, `WriterInv`): a row's time is then later than all that are listed, so a commit appends to what the
  server lists (`OrderedGrows`), and what the page shows and what a poll brings are adjoining parts of that list, the
  second beginning at the count the page had (`ListInv`, `PartsJoin`). The list sorts by rank (`Ordered`: the i-th
  element is the one with i - 1 below it), since no prover here can expand the library's sorting operator.
- `LlmSettings_proofs`: `CallsAccepted`, `SavedStays`. A row that was found once is never gone (`Known`), so whatever
  `RequestEffort` reads is a row; with one PUT at a time nothing changes the row under a PUT that loaded it, since
  lookups only insert where there is none (`Serial`), and what it saves is its whole choice.
- `ChatThread_proofs`, whatever the clients do: `TypeCorrect`, `PaperRequested`, `AttemptsAreOwn`, `EvidenceOwned`. The
  properties speak of saved versions and messages; the invariant carries them back to every state a run can load, the
  thread and all copies alike: a paper in a state belongs to the action in it (`RunsOK`), evidence belongs to its turn
  or to a continue, a pending save has a paper that is due, an input checkpoint has no action yet (`RouterPending`), and
  control locations fit what is streamed (`ControlOK`). It holds of copies and thread separately, which is why
  overlapping cannot break it.
- `ChatThread_proofs`, for clients with one request in progress at a time (`OneRequest`: neither `"parallel"` nor
  `"background"`): `HistoryKept`, `RepliedOnce`, `SavedOnce`, `OpenedOnce`, `MessagesReached` (`NoneLost` besides: no
  failing lookup and no restart, either of which leaves a committed message outside the thread) and, for clients that
  also wait for research (`Client = {}`), `RepliedToOwnTurn`. The hypotheses are needed: the runs `background` and
  `continue` show the history and the addressee lost without them. The one copy that is worked on and the newest
  checkpoint agree (`Sequential`, `InStep`), so a step is that of the one request or one that leaves the thread alone
  (`Quiet`, `Loud`). Then where the thread stands tells what was written for the message it
  stands at: an answer only at the end, an acknowledgement only behind the router and off the replying nodes, a version
  that is not torn only behind the save node (`Through`); a torn one is all that is added while the thread stands still
  (`Torn`); and for a message that is still to be stored nothing was written (`Settled`, `Fresh`).
  `OpenedInv` orders the messages by when they were committed: one that is still to be routed is later than the opening
  one. `ReachInv` follows a message from its row into the checkpoint, `OwnInv` keeps unanswered research and every
  request in progress at the thread's own turn.

The circumstances are no bound of the theorems: they hold for every set of `Environments`, and those of `ChatThread` for
every `Faults` and, where no hypothesis is named, every `Client`.

Of liveness the part that needs no fairness is proved: every step of a component's own work leaves it fewer to take.
`WebCallEnds` counts the steps of a web call (redirects left, the kind of request, attempts left); `ToolCallsEnd`
carries that through `AgentUsesWebClient` to the tool calls of an agent, which only an answer of the model makes longer,
and of those there are at most `MaxSteps` (`TypeCorrect`); `JobsEnd` counts the slices of a job's task by its rounds,
and nothing else in the service ever adds one; `RequestsEnd` counts what is left of a chat request, by the edges of the
graph and the attempts at a document, however other runs store checkpoints in between. What the fairness of the runs
adds is that these steps are taken.

Only model-checked: the liveness properties themselves (`JobsSettle`, `RunEnds`, `AckedDocumentIsSaved`, `SavedIsShown`,
`LockEnds`), which are out of the prover's reach. The last two have no such count, as a poll may be repeated for ever.
Every invariant and action property of the passing runs is stated by a theorem.

## Not modelled, and the plan

Left out for good: prompts, parsers and wording, page rendering, HTML parsing and the resolver itself, offline
evaluation, logging and tracing, configuration and storage drivers (I/O or text without shared state); authentication
(one row and one statement each, with a unique column); client objects of the model registry and its start-up probe.
Not modelled yet: scores and ranking of retrieved evidence; creating and downloading a manuscript, each of them one
transaction or one read.

Order of the work, most important behaviour first:

1. `JobLifecycle`, `ResearchJobs` and proofs: jobs and workers (done).
2. `ChatThread` and proofs: turns, runs and the thread (done).
3. `SourceIndexing` and proofs: the shared corpus (done).
4. `ResearchAgent` and proofs: budgets under parallel tool calls, errors, end of a run (done).
5. `WebClient`, and `ResearchAgent` over it, and proofs: requests of a tool call (done).
6. `ManuscriptVersions`, `WorkspacePage` and proofs: saving, polling, the form (done).
7. `LlmSettings` and proofs: the chosen model (done).
8. `EvidenceRetrieval`: ranking, threshold 0.45, three distinct URLs, limit five, against a reference definition.
9. Composition: `WorkspacePage` with `ResearchJobs` and `ChatThread`, replacing `Client`; `ResearchAgent` as the
   environment of `SourceIndexing`, so that a run's commits meet indexing.
10. More proofs: the same counts for the save node and the page's messages; lemmas of `EvidenceRetrieval`.
