----------------------------- MODULE LlmSettings -----------------------------
(***************************************************************************)
(* The language model chosen for one manuscript: its settings row, the PUT  *)
(* that saves a choice (app/llm/manuscript_settings.py) and the lookups     *)
(* that read it, or insert the default, before every call of a model        *)
(* (chat_model_key_for_manuscript).  PUTs run in threads and lookups on the *)
(* event loop, each in a session of its own, so between two statements of   *)
(* one request anything may happen to the row.                              *)
(***************************************************************************)
EXTENDS Naturals

CONSTANTS
  Puts,         \* PUT /llm-settings requests
  Lookups,      \* lookups by chat turns and page views
  None,
  Environments  \* the sets of Circumstances behaviours are examined under

Circumstances == {"parallel"}  \* PUTs overlap (two tabs); one tab sends one at a time

\* sol stands for terra as well, and low for none and medium.
Providers == {"deepseek", "openai"}
Models    == [deepseek |-> {"flash", "pro"}, openai |-> {"sol", "luna"}]
Efforts   == [deepseek |-> {"low", "high", "xhigh", "max"},
              openai   |-> {"low", "high", "xhigh"}]
DefaultModel == [deepseek |-> "flash", openai |-> "luna"]

AllModels  == Models.deepseek \cup Models.openai
AllEfforts == Efforts.deepseek
Rows    == [provider : Providers, model : AllModels, effort : AllEfforts]
Default == [provider |-> "deepseek", model |-> "flash", effort |-> "high"]

\* What a client may send: "other" is a word the tables do not have.
Payloads == [provider : Providers \cup {"other"}, model : AllModels \cup {"other"},
             effort : AllEfforts \cup {"other"}]

\* Rows saved before OpenAI's efforts were limited.
Legacy == [provider : {"openai"}, model : Models.openai, effort : {"max"}]

Requests == Puts \cup Lookups

ASSUME SettingsConstantsOK ==
  /\ Puts \cap Lookups = {}
  /\ None \notin Rows
  /\ Environments \subseteq SUBSET Circumstances

VARIABLES
  env,     \* the circumstances of this behaviour; never changes
  row,     \* manuscript_llm_settings of the manuscript; None for an old one
  at,      \* where each request is
  loaded,  \* the row as its session knows it
  choice,  \* the normalised choice of each PUT
  shown,   \* what the page was last told is saved
  call     \* the model each lookup was answered with

vars == <<env, row, at, loaded, choice, shown, call>>

Ends == {"done", "refused", "failed"}

TypeOK ==
  /\ env \in Environments
  /\ row \in Rows \cup {None}
  /\ at \in [Requests -> {"idle", "reading", "missing", "loaded", "saved"} \cup Ends]
  /\ loaded \in [Requests -> Rows \cup {None}]
  /\ choice \in [Puts -> Rows \cup {None}]
  /\ shown \in Rows \cup {None}
  /\ call \in [Lookups -> Rows \cup {None}]

Init ==
  /\ env \in Environments
  /\ row \in {None, Default} \cup Legacy
  /\ at = [r \in Requests |-> "idle"]
  /\ loaded = [r \in Requests |-> None]
  /\ choice = [p \in Puts |-> None]
  /\ shown = None
  /\ call = [u \in Lookups |-> None]
-----------------------------------------------------------------------------
Go(r, where) == at' = [at EXCEPT ![r] = where]

\* normalize_llm_choice: an unknown provider or effort is refused, a model the
\* provider does not have is replaced by the provider's default.
Refused(c) == c.provider = "other" \/ c.effort \notin Efforts[c.provider]
Normalized(c) ==
  [c EXCEPT !.model = IF @ \in Models[c.provider] THEN @ ELSE DefaultModel[c.provider]]

InProgress(p) == at[p] \notin {"idle"} \cup Ends

Put(p, c) ==
  /\ at[p] = "idle"
  /\ "parallel" \in env \/ \A q \in Puts : ~InProgress(q)
  /\ IF Refused(c)
     THEN Go(p, "refused") /\ UNCHANGED choice
     ELSE Go(p, "reading") /\ choice' = [choice EXCEPT ![p] = Normalized(c)]
  /\ UNCHANGED <<env, row, loaded, shown, call>>

Lookup(u) ==
  /\ at[u] = "idle"
  /\ Go(u, "reading")
  /\ UNCHANGED <<env, row, loaded, choice, shown, call>>

\* db.get, and the db.refresh after an insert
ReadRow(r) ==
  /\ at[r] = "reading"
  /\ loaded' = [loaded EXCEPT ![r] = row]
  /\ Go(r, IF row = None THEN "missing" ELSE "loaded")
  /\ UNCHANGED <<env, row, choice, shown, call>>

\* Mutation: the default is written over a row that is there by now.
InsertDefaultOver(r) ==
  /\ at[r] = "missing"
  /\ row' = Default
  /\ Go(r, "reading")
  /\ UNCHANGED <<env, loaded, choice, shown, call>>

\* The default is inserted; a row that is there by now fails the request.
InsertDefault(r) ==
  /\ at[r] = "missing"
  /\ IF row = None
     THEN row' = Default /\ Go(r, "reading")
     ELSE Go(r, "failed") /\ UNCHANGED row
  /\ UNCHANGED <<env, loaded, choice, shown, call>>

\* The UPDATE names the columns that differ from what was loaded; the others stay
\* as they are by now.
Column(new, old, now) == IF new # old THEN new ELSE now
Updated(new, old, now) ==
  [provider |-> Column(new.provider, old.provider, now.provider),
   model    |-> Column(new.model, old.model, now.model),
   effort   |-> Column(new.effort, old.effort, now.effort)]

Save(p) ==
  /\ at[p] = "loaded"
  /\ row' = Updated(choice[p], loaded[p], row)
  /\ Go(p, "saved")
  /\ UNCHANGED <<env, loaded, choice, shown, call>>

\* The saved row is read back and answered, and the page keeps it.
Answer(p) ==
  /\ at[p] = "saved"
  /\ shown' = row
  /\ Go(p, "done")
  /\ UNCHANGED <<env, row, loaded, choice, call>>

\* Mutation: the saved effort is used as it is.
RequestEffortAsSaved(s) == s.effort

\* resolve_request_effort, of OpenAI's "max"
RequestEffort(s) == IF s.effort \in Efforts[s.provider] THEN s.effort ELSE "xhigh"

\* chat_model_key_for_manuscript returns; model and provider are used as saved.
Call(u) ==
  /\ at[u] = "loaded"
  /\ call' = [call EXCEPT ![u] = [loaded[u] EXCEPT !.effort = RequestEffort(loaded[u])]]
  /\ Go(u, "done")
  /\ UNCHANGED <<env, row, loaded, choice, shown>>

Next ==
  \/ \E p \in Puts : (\E c \in Payloads : Put(p, c)) \/ Save(p) \/ Answer(p)
  \/ \E u \in Lookups : Lookup(u) \/ Call(u)
  \/ \E r \in Requests : ReadRow(r) \/ InsertDefault(r)

Spec == Init /\ [][Next]_vars
-----------------------------------------------------------------------------
(***************************************************************************)
(* Properties                                                               *)
(***************************************************************************)
\* No call is made with an effort its provider refuses, also of rows older than the
\* rule and of rows that two PUTs wrote together; nor, unless PUTs overlap, with a
\* model its provider does not have.
CallIsAccepted ==
  \A u \in Lookups : call[u] # None =>
    /\ call[u].effort \in Efforts[call[u].provider]
    /\ "parallel" \notin env => call[u].model \in Models[call[u].provider]

\* What the page was told is saved stays saved until the next PUT: no turn and no
\* page view that found the row missing puts the default over it later.
SavedChoiceStays ==
  "parallel" \notin env /\ shown # None /\ (\A p \in Puts : ~InProgress(p)) => row = shown
=============================================================================
