------------------------- MODULE LlmSettings_proofs -------------------------
(***************************************************************************)
(* Theorems about LlmSettings, for any number of PUTs and lookups.          *)
(***************************************************************************)
EXTENDS LlmSettings, TLAPS

Choices == {c \in Rows : c.model \in Models[c.provider]}

\* What a request knows while it is on its way.  A row that was found once is
\* never gone.
Known ==
  /\ \A r \in Requests : at[r] = "loaded" => loaded[r] \in Rows /\ row \in Rows
  /\ \A p \in Puts : at[p] = "saved" => row \in Rows
  /\ \A p \in Puts : InProgress(p) => choice[p] \in Choices

\* One PUT after the other: nothing changes the row under a PUT that loaded it, so
\* what it saves is its whole choice.
Serial ==
  "parallel" \notin env =>
    /\ row \in Choices \cup {None}
    /\ \A r \in Requests : loaded[r] \in Choices \cup {None}
    /\ \A p, q \in Puts : InProgress(p) /\ InProgress(q) => p = q
    /\ \A p \in Puts : at[p] = "loaded" => loaded[p] = row
    /\ shown # None /\ (\A p \in Puts : at[p] # "saved") => row = shown

IInv == TypeOK /\ Known /\ Serial /\ CallIsAccepted
-----------------------------------------------------------------------------
LEMMA NormalizedIsChoice ==
  ASSUME NEW c \in Payloads, ~Refused(c)
  PROVE  Normalized(c) \in Choices
<1>1. c.provider \in Providers /\ c.effort \in AllEfforts
  BY DEF Payloads, Refused, Efforts, Providers, AllEfforts
<1>2. DefaultModel[c.provider] \in Models[c.provider] /\ Models[c.provider] \subseteq AllModels
  BY <1>1 DEF DefaultModel, Models, Providers, AllModels
<1> DEFINE m == IF c.model \in Models[c.provider] THEN c.model ELSE DefaultModel[c.provider]
<1>3. m \in Models[c.provider]
  BY <1>2
<1> HIDE DEF m
<1>4. [c EXCEPT !.model = m] \in Choices
  BY <1>1, <1>2, <1>3 DEF Choices, Rows, Payloads
<1> QED BY <1>4 DEF m, Normalized

LEMMA DefaultIsChoice == Default \in Choices /\ Default \in Rows
BY DEF Choices, Rows, Default, Models, Efforts, Providers, AllModels, AllEfforts

LEMMA UpdatedIsRow ==
  ASSUME NEW new \in Rows, NEW old \in Rows, NEW now \in Rows
  PROVE  Updated(new, old, now) \in Rows
BY DEF Updated, Column, Rows

LEMMA UpdatedFromNow ==
  ASSUME NEW new \in Rows, NEW now \in Rows
  PROVE  Updated(new, now, now) = new
BY DEF Updated, Column, Rows

LEMMA EffortIsAccepted ==
  ASSUME NEW s \in Rows
  PROVE  /\ RequestEffort(s) \in Efforts[s.provider]
         /\ RequestEffort(s) \in AllEfforts
BY DEF RequestEffort, Rows, Efforts, Providers, AllEfforts

LEMMA Distinct == None \notin Rows /\ Puts \cap Lookups = {}
BY SettingsConstantsOK

LEMMA InitOK == Init => IInv
<1> SUFFICES ASSUME Init PROVE IInv
  OBVIOUS
<1>1. Legacy \subseteq Choices /\ Choices \subseteq Rows
  BY DEF Legacy, Choices, Rows, Models, Efforts, Providers, AllModels, AllEfforts
<1>2. row \in Choices \cup {None}
  BY <1>1, DefaultIsChoice DEF Init
<1>3. TypeOK
  BY <1>1, <1>2 DEF Init, TypeOK, Requests
<1>4. Known /\ Serial /\ CallIsAccepted
  BY <1>2 DEF Init, Known, Serial, CallIsAccepted, InProgress, Requests
<1> QED BY <1>3, <1>4 DEF IInv

LEMMA StepOK == IInv /\ [Next]_vars => IInv'
<1> SUFFICES ASSUME IInv, [Next]_vars PROVE IInv'
  OBVIOUS
<1> USE Distinct DEF Requests, Ends, InProgress
<1>0. TypeOK /\ Known /\ Serial /\ CallIsAccepted
  BY DEF IInv
<1>1. ASSUME NEW p \in Puts, NEW c \in Payloads, Put(p, c)
      PROVE  IInv'
  <2>1. CASE Refused(c)
    BY <1>0, <1>1, <2>1 DEF Put, Go, IInv, TypeOK, Known, Serial, CallIsAccepted
  <2>2. CASE ~Refused(c)
    <3>1. Normalized(c) \in Choices /\ Normalized(c) \in Rows
      BY <2>2, NormalizedIsChoice DEF Choices
    <3>2. /\ at[p] = "idle" /\ at' = [at EXCEPT ![p] = "reading"]
          /\ choice' = [choice EXCEPT ![p] = Normalized(c)]
          /\ "parallel" \in env \/ \A q \in Puts : ~InProgress(q)
          /\ UNCHANGED <<env, row, loaded, shown, call>>
      BY <1>1, <2>2 DEF Put, Go
    <3>3. TypeOK'
      BY <1>0, <3>1, <3>2 DEF TypeOK
    <3>4. Known'
      BY <1>0, <3>1, <3>2 DEF TypeOK, Known
    <3>5. Serial' /\ CallIsAccepted'
      BY <1>0, <3>2 DEF TypeOK, Serial, CallIsAccepted
    <3> QED BY <3>3, <3>4, <3>5 DEF IInv
  <2> QED BY <2>1, <2>2
<1>2. ASSUME NEW u \in Lookups, Lookup(u)
      PROVE  IInv'
  BY <1>0, <1>2 DEF Lookup, Go, IInv, TypeOK, Known, Serial, CallIsAccepted
<1>3. ASSUME NEW r \in Requests, ReadRow(r)
      PROVE  IInv'
  <2>1. /\ at[r] = "reading" /\ loaded' = [loaded EXCEPT ![r] = row]
        /\ at' = [at EXCEPT ![r] = IF row = None THEN "missing" ELSE "loaded"]
        /\ UNCHANGED <<env, row, choice, shown, call>>
    BY <1>3 DEF ReadRow, Go
  <2>2. TypeOK' /\ Known'
    BY <1>0, <2>1 DEF TypeOK, Known
  <2>3. Serial' /\ CallIsAccepted'
    BY <1>0, <2>1 DEF TypeOK, Serial, CallIsAccepted
  <2> QED BY <2>2, <2>3 DEF IInv
<1>4. ASSUME NEW r \in Requests, InsertDefault(r)
      PROVE  IInv'
  <2>1. CASE row = None
    <3>1. /\ at[r] = "missing" /\ row' = Default /\ at' = [at EXCEPT ![r] = "reading"]
          /\ UNCHANGED <<env, loaded, choice, shown, call>>
      BY <1>4, <2>1 DEF InsertDefault, Go
    <3>2. TypeOK' /\ Known'
      BY <1>0, <2>1, <3>1, DefaultIsChoice DEF TypeOK, Known
    <3>3. "parallel" \notin env => shown = None
      BY <1>0, <2>1 DEF Serial, Known, TypeOK
    <3>4. Serial' /\ CallIsAccepted'
      BY <1>0, <2>1, <3>1, <3>3, DefaultIsChoice DEF TypeOK, Known, Serial, CallIsAccepted
    <3> QED BY <3>2, <3>4 DEF IInv
  <2>2. CASE row # None
    BY <1>0, <1>4, <2>2 DEF InsertDefault, Go, IInv, TypeOK, Known, Serial, CallIsAccepted
  <2> QED BY <2>1, <2>2
<1>5. ASSUME NEW p \in Puts, Save(p)
      PROVE  IInv'
  <2>1. /\ at[p] = "loaded" /\ at' = [at EXCEPT ![p] = "saved"]
        /\ row' = Updated(choice[p], loaded[p], row)
        /\ UNCHANGED <<env, loaded, choice, shown, call>>
    BY <1>5 DEF Save, Go
  <2>2. choice[p] \in Choices /\ choice[p] \in Rows /\ loaded[p] \in Rows /\ row \in Rows
    BY <1>0, <2>1 DEF Known, Choices
  <2>3. row' \in Rows
    BY <2>1, <2>2, UpdatedIsRow
  <2>4. "parallel" \notin env => row' = choice[p]
    BY <1>0, <2>1, <2>2, UpdatedFromNow DEF Serial
  <2>5. TypeOK' /\ Known'
    BY <1>0, <2>1, <2>3 DEF TypeOK, Known
  <2>6. Serial' /\ CallIsAccepted'
    BY <1>0, <2>1, <2>2, <2>4 DEF TypeOK, Serial, CallIsAccepted
  <2> QED BY <2>5, <2>6 DEF IInv
<1>6. ASSUME NEW p \in Puts, Answer(p)
      PROVE  IInv'
  BY <1>0, <1>6 DEF Answer, Go, IInv, TypeOK, Known, Serial, CallIsAccepted
<1>7. ASSUME NEW u \in Lookups, Call(u)
      PROVE  IInv'
  <2> DEFINE s == loaded[u]
             e == RequestEffort(s)
  <2>1. /\ at[u] = "loaded" /\ at' = [at EXCEPT ![u] = "done"]
        /\ call' = [call EXCEPT ![u] = [s EXCEPT !.effort = e]]
        /\ UNCHANGED <<env, row, loaded, choice, shown>>
    BY <1>7 DEF Call, Go
  <2>2. s \in Rows /\ ("parallel" \notin env => s \in Choices)
    BY <1>0, <2>1 DEF Known, Serial
  <2>3. e \in Efforts[s.provider] /\ e \in AllEfforts
    BY <2>2, EffortIsAccepted
  <2> HIDE DEF s, e
  <2>4. /\ [s EXCEPT !.effort = e] \in Rows
        /\ [s EXCEPT !.effort = e].effort = e
        /\ [s EXCEPT !.effort = e].provider = s.provider
        /\ [s EXCEPT !.effort = e].model = s.model
    BY <2>2, <2>3 DEF Rows
  <2>5. TypeOK' /\ Known' /\ Serial'
    BY <1>0, <2>1, <2>4 DEF TypeOK, Known, Serial
  <2>6. CallIsAccepted'
    BY <1>0, <2>1, <2>2, <2>3, <2>4 DEF TypeOK, CallIsAccepted, Choices
  <2> QED BY <2>5, <2>6 DEF IInv
<1>8. CASE UNCHANGED vars
  BY <1>0, <1>8 DEF vars, IInv, TypeOK, Known, Serial, CallIsAccepted
<1> QED BY <1>1, <1>2, <1>3, <1>4, <1>5, <1>6, <1>7, <1>8 DEF Next

LEMMA Invariance == Spec => []IInv
BY InitOK, StepOK, PTL DEF Spec
-----------------------------------------------------------------------------
\* Every model is called with settings its provider accepts (resolve_request_effort,
\* normalize_llm_choice).
THEOREM CallsAccepted == Spec => []CallIsAccepted
<1>1. IInv => CallIsAccepted
  BY DEF IInv
<1> QED BY <1>1, Invariance, PTL

\* A confirmed choice is not undone by a late default (llm_settings_for_manuscript).
THEOREM SavedStays == Spec => []SavedChoiceStays
<1>1. IInv => SavedChoiceStays
  BY DEF IInv, Serial, SavedChoiceStays, InProgress, Ends
<1> QED BY <1>1, Invariance, PTL
=============================================================================
