---------------------------- MODULE WorkspacePage ----------------------------
(***************************************************************************)
(* The script of the workspace page (app/templates/workspace/               *)
(* _chat_center.html) over the server's versions (ManuscriptVersions): its   *)
(* form, the polling of the version list after a document was acknowledged,  *)
(* and the polling of a research job.  Every fetch is a request and, later,  *)
(* the rest of the function that awaits it.                                 *)
(***************************************************************************)
EXTENDS ManuscriptVersions, SequencesExt

CONSTANTS
  Polls,         \* bound: version polls that may be in flight
  None,
  Environments   \* the sets of Circumstances behaviours are examined under

Circumstances ==
  {"overlap",  \* an answer takes longer than the 1.5 seconds to the next poll
   "rush",     \* a document is requested before the last one has appeared
   "resume",   \* a continue call resumes a generation that failed
   "reload",   \* the page is loaded anew
   "cut",      \* the stream breaks off (the network, or an error on the server) once
               \* it announced research or the server started a document's generation,
               \* or the POST that starts the research is lost
   "lost"}     \* a job is never settled: a restart took its task, or its set-up or a
               \* commit failed

ASSUME PageConstantsOK ==
  /\ None \notin Turns \cup Nat
  /\ Environments \subseteq SUBSET Circumstances

VARIABLES
  env,       \* the circumstances of this behaviour; never changes
  list,      \* the version list: what is shown, its count, its poll timer
  polls,     \* its fetches
  turn,      \* each submitted message, up to the end of its stream; "broken" is over,
             \* with a generation under way of which the page did not hear
  before,    \* versionCountBefore of its submit handler
  form,      \* isSubmitting, and whether the form is disabled
  asked,     \* startResearchJob and the interval it sets up, of each message
  research,  \* activeResearchJobId with its timer, and researchPollInFlight
  job        \* the research job on the server

pageVars == <<env, list, polls, turn, before, form, asked, research, job>>
vars     == <<pageVars, versionVars>>

TypeOK ==
  /\ VersionTypeOK
  /\ env \in Environments
  /\ list \in [shown : Seq(Nat), count : Nat, timer : BOOLEAN, stopAfter : Nat \cup {None}]
  /\ polls \in [Polls -> [at : {"free", "sent", "answered"}, after : Nat, got : Seq(Nat)]]
  /\ turn \in [Turns -> {"unsent", "streaming", "generating", "announced", "waiting",
                         "over", "broken"}]
  /\ before \in [Turns -> Nat]
  /\ form \in [submitting : BOOLEAN, locked : BOOLEAN]
  /\ asked \in [Turns -> {"no", "posting", "lost", "polling", "polled", "continuing", "over"}]
  /\ research \in [active : Turns \cup {None}, inFlight : BOOLEAN]
  /\ job \in [Turns -> {"none", "open", "ready", "over", "stuck"}]

NoPoll == [at |-> "free", after |-> 0, got |-> <<>>]
Free   == [submitting |-> FALSE, locked |-> FALSE]
NoResearch == [active |-> None, inFlight |-> FALSE]

Init ==
  /\ VersionInit
  /\ env \in Environments
  /\ list = [shown |-> <<>>, count |-> 0, timer |-> FALSE, stopAfter |-> None]
  /\ polls = [p \in Polls |-> NoPoll]
  /\ turn = [t \in Turns |-> "unsent"]
  /\ before = [t \in Turns |-> 0]
  /\ form = Free
  /\ asked = [t \in Turns |-> "no"]
  /\ research = NoResearch
  /\ job = [t \in Turns |-> "none"]
-----------------------------------------------------------------------------
(***************************************************************************)
(* The form and the stream of a message                                     *)
(***************************************************************************)
IsShown(t) == \E r \in Copies(t), i \in DOMAIN list.shown : list.shown[i] = r.stamp
Pending(t) == (save[t].at \notin {"none", "failed"} \/ Copies(t) # {}) /\ ~IsShown(t)

Submit(t) ==
  /\ turn[t] = "unsent" /\ form = Free
  /\ "rush" \in env \/ \A u \in Turns : ~Pending(u)
  /\ turn' = [turn EXCEPT ![t] = "streaming"]
  /\ before' = [before EXCEPT ![t] = list.count]
  /\ form' = [submitting |-> TRUE, locked |-> TRUE]
  /\ UNCHANGED <<env, list, polls, asked, research, job, versionVars>>

\* The stream ends with an answer or an error, or it breaks off, and the form is
\* enabled.
AnswerEnds(t) ==
  /\ turn[t] = "streaming" \/ ("cut" \in env /\ turn[t] \in {"generating", "announced"})
  /\ turn' = [turn EXCEPT ![t] = IF turn[t] = "generating" THEN "broken" ELSE "over"]
  /\ form' = Free
  /\ UNCHANGED <<env, list, polls, before, asked, research, job, versionVars>>

\* The server starts the generation and sends the acknowledgement.
StartsGeneration(t) ==
  /\ turn[t] = "streaming"
  /\ Generate(t)
  /\ turn' = [turn EXCEPT ![t] = "generating"]
  /\ UNCHANGED <<env, list, polls, before, form, asked, research, job>>

\* Mutation: polling stops with the first version ever shown.
AcknowledgedWithCount(t) ==
  /\ turn[t] = "generating"
  /\ turn' = [turn EXCEPT ![t] = "over"]
  /\ form' = Free
  /\ list' = [list EXCEPT !.timer = TRUE, !.stopAfter = 0]
  /\ UNCHANGED <<env, polls, before, asked, research, job, versionVars>>

\* The page reads it: startVersionPolling, unless the timer runs, and
\* stopVersionPollingAfterNewVersion, in any case.
Acknowledged(t) ==
  /\ turn[t] = "generating"
  /\ turn' = [turn EXCEPT ![t] = "over"]
  /\ form' = Free
  /\ list' = [list EXCEPT !.timer = TRUE, !.stopAfter = before[t]]
  /\ UNCHANGED <<env, polls, before, asked, research, job, versionVars>>

\* research_required: startResearchJob is called and not awaited.
Announced(t) ==
  /\ turn[t] = "streaming"
  /\ turn' = [turn EXCEPT ![t] = "announced"]
  /\ asked' = [asked EXCEPT ![t] = "posting"]
  /\ UNCHANGED <<env, list, polls, before, form, research, job, versionVars>>

\* Mutation: the submit handler enables the form whatever the stream said.
AwaitsUnlocked(t) ==
  /\ turn[t] = "announced"
  /\ turn' = [turn EXCEPT ![t] = "waiting"]
  /\ form' = Free
  /\ UNCHANGED <<env, list, polls, before, asked, research, job, versionVars>>

\* The stream ends with awaiting_research: the form stays as it is.
Awaits(t) ==
  /\ turn[t] = "announced"
  /\ turn' = [turn EXCEPT ![t] = "waiting"]
  /\ form' = [form EXCEPT !.submitting = FALSE]
  /\ UNCHANGED <<env, list, polls, before, asked, research, job, versionVars>>
-----------------------------------------------------------------------------
(***************************************************************************)
(* The version list                                                         *)
(***************************************************************************)
\* A finite set of numbers as a list, the least one first.
Ordered(S) ==
  [i \in 1..Cardinality(S) |-> CHOOSE n \in S : Cardinality({m \in S : m <= n}) = i]

\* list_versions_by_manuscript: by created_at, no two of which are equal.
Stamps  == {r.stamp : r \in rows}
Listing == Ordered(Stamps)

\* The timer polls whether or not the last poll was answered.
VersionTick(p) ==
  /\ list.timer
  /\ polls[p].at = "free"
  /\ "overlap" \in env \/ \A q \in Polls : polls[q].at = "free"
  /\ polls' = [polls EXCEPT ![p] = [NoPoll EXCEPT !.at = "sent", !.after = list.count]]
  /\ UNCHANGED <<env, list, turn, before, form, asked, research, job, versionVars>>

\* poll_versions skips the first `after` versions of the list.
PollVersions(p) ==
  /\ polls[p].at = "sent"
  /\ polls' = [polls EXCEPT ![p].at = "answered",
                            ![p].got = SubSeq(Listing, polls[p].after + 1, Len(Listing))]
  /\ UNCHANGED <<env, list, turn, before, form, asked, research, job, versionVars>>

PollFails(p) ==
  /\ polls[p].at = "sent"
  /\ polls' = [polls EXCEPT ![p] = NoPoll]
  /\ UNCHANGED <<env, list, turn, before, form, asked, research, job, versionVars>>

\* Mutation: the count is not advanced past what was shown.
PollAppliedUncounted(p) ==
  /\ polls[p].at = "answered"
  /\ polls' = [polls EXCEPT ![p] = NoPoll]
  /\ list' = [list EXCEPT !.shown = @ \o polls[p].got]
  /\ UNCHANGED <<env, turn, before, form, asked, research, job, versionVars>>

\* The answer is appended, X-Version-Count becomes the count, and the polling
\* stops once the count has passed what it was when the document was requested.
PollApplied(p) ==
  LET count == polls[p].after + Len(polls[p].got)
      stop  == list.stopAfter # None /\ count > list.stopAfter
  IN
  /\ polls[p].at = "answered"
  /\ polls' = [polls EXCEPT ![p] = NoPoll]
  /\ list' = [shown     |-> list.shown \o polls[p].got,
              count     |-> count,
              timer     |-> list.timer /\ ~stop,
              stopAfter |-> IF stop /\ list.timer THEN None ELSE list.stopAfter]
  /\ UNCHANGED <<env, turn, before, form, asked, research, job, versionVars>>
-----------------------------------------------------------------------------
(***************************************************************************)
(* Research                                                                 *)
(***************************************************************************)
Ask(t, to) == asked' = [asked EXCEPT ![t] = to]

PostRefused(t) ==
  /\ asked[t] = "posting"
  /\ Ask(t, "over")
  /\ form' = [form EXCEPT !.locked = FALSE]
  /\ UNCHANGED <<env, list, polls, turn, before, research, job, versionVars>>

\* The fetch rejects; nobody awaits it.
PostLost(t) ==
  /\ "cut" \in env
  /\ asked[t] = "posting"
  /\ Ask(t, "lost")
  /\ UNCHANGED <<env, list, polls, turn, before, form, research, job, versionVars>>

\* The job is created; its polling replaces that of any other job.
PostCreated(t) ==
  /\ asked[t] = "posting"
  /\ Ask(t, "polling")
  /\ job' = [job EXCEPT ![t] = "open"]
  /\ research' = [active |-> t, inFlight |-> FALSE]
  /\ UNCHANGED <<env, list, polls, turn, before, form, versionVars>>

ResearchTick(t) ==
  /\ research = [active |-> t, inFlight |-> FALSE]
  /\ asked[t] = "polling"
  /\ Ask(t, "polled")
  /\ research' = [research EXCEPT !.inFlight = TRUE]
  /\ UNCHANGED <<env, list, polls, turn, before, form, job, versionVars>>

JobEnds(t) ==
  /\ job[t] = "open"
  /\ \E s \in {"ready", "over"} : job' = [job EXCEPT ![t] = s]
  /\ UNCHANGED <<env, list, polls, turn, before, form, asked, research, versionVars>>

\* Its task is gone and leaves the row open, for good.
JobLost(t) ==
  /\ "lost" \in env
  /\ job[t] = "open"
  /\ job' = [job EXCEPT ![t] = "stuck"]
  /\ UNCHANGED <<env, list, polls, turn, before, form, asked, research, versionVars>>

\* The job is still open, or the poll failed.
KeepPolling(t) ==
  /\ asked[t] = "polled"
  /\ Ask(t, "polling")
  /\ research' = [research EXCEPT !.inFlight = FALSE]
  /\ UNCHANGED <<env, list, polls, turn, before, form, job, versionVars>>

\* stopResearchPolling, whichever job is polled by now, and continueAfterResearch.
EvidenceReady(t) ==
  /\ asked[t] = "polled" /\ job[t] = "ready"
  /\ Ask(t, "continuing")
  /\ research' = NoResearch
  /\ UNCHANGED <<env, list, polls, turn, before, form, job, versionVars>>

\* Mutation: a failed job leaves the form as it is.
ResearchFailedLocked(t) ==
  /\ asked[t] = "polled" /\ job[t] = "over"
  /\ Ask(t, "over")
  /\ research' = NoResearch
  /\ UNCHANGED <<env, list, polls, turn, before, form, job, versionVars>>

ResearchFailed(t) ==
  /\ asked[t] = "polled" /\ job[t] = "over"
  /\ Ask(t, "over")
  /\ research' = NoResearch
  /\ form' = [form EXCEPT !.locked = FALSE]
  /\ UNCHANGED <<env, list, polls, turn, before, job, versionVars>>

\* The continued answer is shown, or its error.
ContinueEnds(t) ==
  /\ asked[t] = "continuing"
  /\ Ask(t, "over")
  /\ form' = [form EXCEPT !.locked = FALSE]
  /\ research' = [research EXCEPT !.inFlight = FALSE]
  /\ UNCHANGED <<env, list, polls, turn, before, job, versionVars>>
-----------------------------------------------------------------------------
\* The page starts over with the whole list; nothing of its script is left.
Reload ==
  /\ "reload" \in env
  /\ \E t \in Turns : turn[t] # "unsent"
  /\ list' = [shown |-> Listing, count |-> Len(Listing), timer |-> FALSE, stopAfter |-> None]
  /\ polls' = [p \in Polls |-> NoPoll]
  /\ turn' = [t \in Turns |-> IF turn[t] = "unsent" THEN "unsent" ELSE "over"]
  /\ form' = Free
  /\ asked' = [t \in Turns |-> IF asked[t] = "no" THEN "no" ELSE "over"]
  /\ research' = NoResearch
  /\ UNCHANGED <<env, before, job, versionVars>>

Server(t) ==
  /\ \/ Saving(t) \/ GenerationFails(t)
     \/ "resume" \in env /\ RunAgain(t)
  /\ UNCHANGED pageVars

StreamEnds(t) ==
  AnswerEnds(t) \/ StartsGeneration(t) \/ Acknowledged(t) \/ Announced(t) \/ Awaits(t)
PostEnds(t)   == PostRefused(t) \/ PostLost(t) \/ PostCreated(t)
JobSettles(t) == EvidenceReady(t) \/ ResearchFailed(t)

Next ==
  \/ \E t \in Turns : \/ Submit(t) \/ StreamEnds(t) \/ PostEnds(t) \/ ResearchTick(t)
                      \/ JobEnds(t) \/ JobLost(t) \/ KeepPolling(t) \/ JobSettles(t)
                      \/ ContinueEnds(t) \/ Server(t)
  \/ \E p \in Polls : VersionTick(p) \/ PollVersions(p) \/ PollFails(p) \/ PollApplied(p)
  \/ Reload

Spec == Init /\ [][Next]_vars

\* What happens only so often to a message comes to its end.
Progress(t) ==
  \/ StreamEnds(t) \/ PostEnds(t) \/ ContinueEnds(t) \/ JobEnds(t)
  \/ Saving(t) /\ UNCHANGED pageVars

\* Streams, requests, generations and the jobs that are not lost end, timers fire, and
\* a poll that is repeated forever is answered in the end.  Nobody has to submit
\* anything.
FairSpec ==
  /\ Spec
  /\ WF_vars(\E t \in Turns : Progress(t))
  /\ \A t \in Turns : WF_vars(ResearchTick(t) \/ KeepPolling(t)) /\ SF_vars(JobSettles(t))
  /\ WF_vars(\E p \in Polls : VersionTick(p) \/ PollApplied(p))
  /\ SF_vars(\E p \in Polls : PollVersions(p))
-----------------------------------------------------------------------------
(***************************************************************************)
(* Properties                                                               *)
(***************************************************************************)
\* The list shows every version once and in order, as far as it got, unless polls
\* overlap or generations do.
ListIsInOrder ==
  env \cap {"overlap", "rush", "resume"} = {} =>
    list.count = Len(list.shown) /\ IsPrefix(list.shown, Listing)

\* With polls and generations that do not overlap, and a page that stays open, a saved
\* version appears: the polling is not stopped by an earlier version, nor before this
\* one is listed.  Unless the stream broke off between the start of the generation and
\* the page's reading of its acknowledgement: then nobody polls.
SavedIsShown ==
  \A t \in Turns :
    (env \subseteq {"cut", "lost"} /\ Copies(t) # {}) ~> (IsShown(t) \/ turn[t] = "broken")

\* _chat_center.html:494 "조사·근거 반영이 끝날 때까지 startResearchJob이 폼을 잠근 채로
\* 둔다": the form is disabled until the announced research is answered, unless the
\* stream that announced it broke off.
LockedWhileResearching ==
  "cut" \notin env =>
    \A t \in Turns : turn[t] = "waiting" /\ asked[t] # "over" => form.locked

\* The form is always enabled again, unless a POST that starts research is lost on the
\* way or the page polls a job that was lost: then it stays locked until a reload.
Abandoned(t) == asked[t] = "lost" \/ (asked[t] \in {"polling", "polled"} /\ job[t] = "stuck")

LockEnds == form.locked ~> (~form.locked \/ \E t \in Turns : Abandoned(t))
=============================================================================
