---------------------------- MODULE WebClient_proofs ----------------------------
(***************************************************************************)
(* Proofs about WebClient for every number of attempts and redirects, every *)
(* limit of the backoff and whatever waits the servers ask for.             *)
(***************************************************************************)
EXTENDS WebClient, TLAPS

\* How many requests a call has sent at most, by where it is: the hops before
\* this one sent PerHop each.
Budgeted(w) ==
  /\ w.at = "idle"    => w.sent = 0 /\ w.hop = 0 /\ w.attempt = 0
  /\ w.at = "search"  => w.sent = w.attempt + 1
  /\ w.at = "resolve" => w.sent <= w.hop * PerHop
  /\ w.at = "robots"  => w.sent <= w.hop * PerHop + w.attempt + 1
  /\ w.at = "page"    => w.sent <= w.hop * PerHop + MaxAttempts + w.attempt + 1
  /\ w.sent <= (MaxRedirects + 1) * PerHop
  /\ w.waited <= w.sent * MaxBackoff

\* What is checked before which contact, and that the host at hand is checked.
Checked(w) ==
  /\ w.at \in {"robots", "page"} => <<"public", w.hop>> \in w.trail
  /\ \A h \in 0..MaxRedirects :
       /\ <<"robots", h>> \in w.trail => <<"public", h>> \in w.trail
       /\ <<"page", h>> \in w.trail =>
            <<"public", h>> \in w.trail /\ <<"allowed", h>> \in w.trail

WebInv == WebTypeOK /\ \A c \in Slots : Budgeted(web[c]) /\ Checked(web[c])

\* The hops before a hop, and all hops: room for a further hop's requests.
LEMMA HopRoom ==
  ASSUME NEW h \in 0..MaxRedirects
  PROVE  /\ PerHop \in Nat /\ PerHop = 2 * MaxAttempts
         /\ h * PerHop \in Nat
         /\ (h + 1) * PerHop = h * PerHop + PerHop
         /\ h * PerHop + PerHop <= (MaxRedirects + 1) * PerHop
         /\ (MaxRedirects + 1) * PerHop \in Nat
<1>1. PerHop \in Nat /\ PerHop = 2 * MaxAttempts
  BY WebConstantsOK DEF PerHop
<1>2. /\ h \in Nat /\ MaxRedirects \in Nat /\ h <= MaxRedirects
  BY WebConstantsOK
<1>3. ASSUME NEW p \in Nat, NEW n \in Nat, NEW m \in Nat, n <= m
      PROVE  /\ n * p \in Nat /\ (n + 1) * p = n * p + p
             /\ n * p + p <= (m + 1) * p /\ (m + 1) * p \in Nat
  <2>1. PICK d \in Nat : m = n + d
    <3>1. m - n \in Nat /\ m = n + (m - n)
      BY <1>3
    <3> QED BY <3>1
  <2>2. (m + 1) * p = n * p + d * p + p /\ d * p \in Nat /\ n * p \in Nat
    BY <2>1
  <2> QED BY <2>2
<1> QED BY <1>1, <1>2, <1>3

\* A wait is never longer than the limit.
LEMMA WaitOK ==
  ASSUME NEW a \in 0..(MaxAttempts - 1), NEW server \in RetryAfter \cup {0}
  PROVE  RetryWait(a, server) \in Nat /\ RetryWait(a, server) <= MaxBackoff
<1>1. 2^a \in Nat /\ server \in Nat /\ MaxBackoff \in Nat
  BY WebConstantsOK
<1>2. ASSUME NEW x \in Nat
      PROVE  /\ Smaller(Larger(x, server), MaxBackoff) \in Nat
             /\ Smaller(Larger(x, server), MaxBackoff) <= MaxBackoff
  BY <1>1 DEF Smaller, Larger
<1> QED BY <1>1, <1>2 DEF RetryWait

LEMMA OneMoreWait ==
  ASSUME NEW n \in Nat, NEW t \in Nat, NEW w \in Nat, t <= n * MaxBackoff, w <= MaxBackoff
  PROVE  t + w <= (n + 1) * MaxBackoff
<1>1. MaxBackoff \in Nat
  BY WebConstantsOK
<1>2. (n + 1) * MaxBackoff = n * MaxBackoff + MaxBackoff /\ n * MaxBackoff \in Nat
  BY <1>1
<1> QED BY <1>1, <1>2

LEMMA NoCallOK == NoCall \in WebCalls /\ Budgeted(NoCall) /\ Checked(NoCall)
<1>1. 0 \in 0..MaxRedirects /\ 0 \in 0..(MaxAttempts - 1) /\ MaxBackoff \in Nat
  BY WebConstantsOK
<1>2. (MaxRedirects + 1) * PerHop \in Nat
  BY <1>1, HopRoom
<1>3. 0 <= (MaxRedirects + 1) * PerHop /\ 0 <= 0 * MaxBackoff
  BY <1>1, <1>2
<1>4. NoCall \in WebCalls /\ Checked(NoCall)
  BY <1>1 DEF NoCall, WebCalls, Checked
<1>5. Budgeted(NoCall)
  BY <1>3 DEF Budgeted, NoCall
<1> QED BY <1>4, <1>5

LEMMA WebInitOK == WebInit => WebInv
BY NoCallOK DEF WebInit, WebInv, WebTypeOK

\* The two kinds of change to a call's record leave a call's record.
LEMMA Moved ==
  ASSUME NEW o \in WebCalls, NEW n \in 0..(MaxAttempts - 1), NEW s \in Nat, NEW t \in Nat,
         NEW a \in {"idle", "search"} \cup Fetching \cup Answered,
         NEW e \in SUBSET (Events \X (0..MaxRedirects))
  PROVE  /\ [o EXCEPT !.at = a, !.attempt = n, !.sent = s, !.trail = e] \in WebCalls
         /\ [o EXCEPT !.attempt = n, !.sent = s, !.waited = t] \in WebCalls
BY DEF WebCalls

\* A step changes one call only; what is left is that call.
LEMMA OneCall ==
  ASSUME WebInv, NEW c \in Slots, NEW w \in WebCalls,
         web' = [web EXCEPT ![c] = w], Budgeted(w), Checked(w)
  PROVE  WebInv'
BY DEF WebInv, WebTypeOK

LEMMA SendOK ==
  ASSUME WebInv, NEW c \in Slots, NEW to \in Requesting, NEW events \in SUBSET Events,
         Send(c, to, events)
  PROVE  \E w \in WebCalls :
           /\ web' = [web EXCEPT ![c] = w]
           /\ w.at = to /\ w.hop = web[c].hop /\ w.attempt = 0
           /\ w.sent = web[c].sent + 1 /\ w.waited = web[c].waited
           /\ w.trail = web[c].trail \cup (events \X {web[c].hop})
<1> DEFINE w == [web[c] EXCEPT !.at = to, !.attempt = 0, !.sent = @ + 1,
                              !.trail = Now(c, events)]
<1>1. web[c] \in WebCalls
  BY DEF WebInv, WebTypeOK
<1>2. w \in WebCalls
  <2>1. Now(c, events) \in SUBSET (Events \X (0..MaxRedirects))
    BY <1>1 DEF Now, WebCalls
  <2>2. 0 \in 0..(MaxAttempts - 1)
    BY WebConstantsOK
  <2>3. to \in {"idle", "search"} \cup Fetching \cup Answered
    BY DEF Requesting, Fetching
  <2>4. web[c].sent + 1 \in Nat
    BY <1>1 DEF WebCalls
  <2> HIDE DEF Now
  <2>5. \A o \in WebCalls, k \in Nat :
          [o EXCEPT !.at = to, !.attempt = 0, !.sent = k, !.trail = Now(c, events)] \in WebCalls
    BY <2>1, <2>2, <2>3, Moved
  <2> QED BY <1>1, <2>4, <2>5
<1>3. web' = [web EXCEPT ![c] = w]
  BY DEF Send, WebInv, WebTypeOK
<1>4. /\ w.at = to /\ w.hop = web[c].hop /\ w.attempt = 0
      /\ w.sent = web[c].sent + 1 /\ w.waited = web[c].waited
      /\ w.trail = web[c].trail \cup (events \X {web[c].hop})
  BY <1>1 DEF Now, WebCalls
<1> HIDE DEF w
<1> QED BY <1>2, <1>3, <1>4

LEMMA WebStepOK ==
  ASSUME WebInv, NEW c \in Slots,
         StartSearch(c) \/ StartFetch(c) \/ WebStep(c) \/ Forget(c)
  PROVE  WebInv'
<1> DEFINE o == web[c]
<1>0. /\ o \in WebCalls /\ Budgeted(o) /\ Checked(o) /\ o.hop \in 0..MaxRedirects
      /\ o.hop \in Nat /\ o.sent \in Nat /\ o.waited \in Nat /\ o.attempt \in Nat
      /\ o.attempt <= MaxAttempts - 1 /\ o.trail \in SUBSET (Events \X (0..MaxRedirects))
      /\ MaxAttempts \in Nat /\ MaxAttempts > 0 /\ MaxRedirects \in Nat /\ MaxBackoff \in Nat
  BY WebConstantsOK DEF WebInv, WebTypeOK, WebCalls
<1>h. /\ PerHop \in Nat /\ PerHop = 2 * MaxAttempts /\ o.hop * PerHop \in Nat
      /\ (o.hop + 1) * PerHop = o.hop * PerHop + PerHop
      /\ o.hop * PerHop + PerHop <= (MaxRedirects + 1) * PerHop
  BY <1>0, HopRoom
<1>w. o.waited <= (o.sent + 1) * MaxBackoff
  <2>1. o.waited + 0 <= (o.sent + 1) * MaxBackoff
    BY <1>0, OneMoreWait DEF Budgeted
  <2> QED BY <1>0, <2>1
<1>1. ASSUME NEW to \in {"error", "resolve", "canonical", "found"}, Move(c, to),
             to = "resolve" => o.at = "idle"
      PROVE  WebInv'
  <2> DEFINE n == [o EXCEPT !.at = to]
  <2>1. n \in WebCalls
    BY <1>0 DEF WebCalls, Fetching, Answered
  <2>2. web' = [web EXCEPT ![c] = n]
    BY <1>1 DEF Move, WebInv, WebTypeOK
  <2>3. Budgeted(n)
    BY <1>0, <1>1, <1>h DEF Budgeted, WebCalls
  <2>4. Checked(n)
    BY <1>0, <1>1 DEF Checked, WebCalls
  <2> HIDE DEF n
  <2> QED BY <2>1, <2>2, <2>3, <2>4, OneCall
<1>2. CASE StartSearch(c)
  <2>1. CASE Send(c, "search", {})
    <3>1. PICK w \in WebCalls :
            /\ web' = [web EXCEPT ![c] = w]
            /\ w.at = "search" /\ w.hop = o.hop /\ w.attempt = 0
            /\ w.sent = o.sent + 1 /\ w.waited = o.waited
            /\ w.trail = o.trail \cup ({} \X {o.hop})
      <4>1. "search" \in Requesting /\ {} \in SUBSET Events
        BY DEF Requesting
      <4> QED BY <2>1, <4>1, SendOK
    <3>2. o.at = "idle" /\ o.sent = 0 /\ o.hop = 0
      BY <1>0, <1>2 DEF StartSearch, Budgeted
    <3>3. Budgeted(w)
      BY <1>0, <1>h, <1>w, <3>1, <3>2 DEF Budgeted
    <3>4. Checked(w)
      BY <1>0, <3>1 DEF Checked
    <3> QED BY <3>1, <3>3, <3>4, OneCall
  <2> QED BY <1>1, <1>2, <2>1 DEF StartSearch
<1>3. CASE StartFetch(c)
  BY <1>1, <1>3 DEF StartFetch
<1>4. CASE AddressIsPublic(c)
  <2>1. PICK w \in WebCalls :
          /\ web' = [web EXCEPT ![c] = w]
          /\ w.at = "robots" /\ w.hop = o.hop /\ w.attempt = 0
          /\ w.sent = o.sent + 1 /\ w.waited = o.waited
          /\ w.trail = o.trail \cup ({"public", "robots"} \X {o.hop})
    <3>1. "robots" \in Requesting /\ {"public", "robots"} \in SUBSET Events
      BY DEF Requesting, Events
    <3> QED BY <1>4, <3>1, SendOK DEF AddressIsPublic
  <2>2. Budgeted(w)
    BY <1>0, <1>4, <1>h, <1>w, <2>1 DEF AddressIsPublic, Budgeted
  <2>3. Checked(w)
    BY <1>0, <2>1 DEF Checked
  <2> QED BY <2>1, <2>2, <2>3, OneCall
<1>5. CASE Retry(c)
  <2>1. PICK server \in RetryAfter \cup {0} :
          web' = [web EXCEPT ![c].attempt = @ + 1, ![c].sent = @ + 1,
                             ![c].waited = @ + RetryWait(web[c].attempt, server)]
    BY <1>5 DEF Retry
  <2> DEFINE t == RetryWait(o.attempt, server)
             n == [o EXCEPT !.attempt = @ + 1, !.sent = @ + 1, !.waited = @ + t]
  <2>2. t \in Nat /\ t <= MaxBackoff
    BY <1>0, WaitOK DEF WebCalls
  <2> HIDE DEF t
  <2>3. o.attempt + 1 <= MaxAttempts - 1 /\ o.at \in Requesting
    BY <1>0, <1>5 DEF Retry, MayRetry
  <2>4. n \in WebCalls
    <3>1. /\ o.attempt + 1 \in 0..(MaxAttempts - 1) /\ o.sent + 1 \in Nat
          /\ o.waited + t \in Nat
      BY <1>0, <2>2, <2>3
    <3>2. \A x \in WebCalls, i \in 0..(MaxAttempts - 1), j \in Nat, k \in Nat :
            [x EXCEPT !.attempt = i, !.sent = j, !.waited = k] \in WebCalls
      <4>1. "idle" \in {"idle", "search"} \cup Fetching \cup Answered
            /\ {} \in SUBSET (Events \X (0..MaxRedirects))
        OBVIOUS
      <4> QED BY <4>1, Moved
    <3> QED BY <1>0, <3>1, <3>2
  <2>5. web' = [web EXCEPT ![c] = n]
    BY <2>1 DEF t, WebInv, WebTypeOK
  <2>6. o.waited + t <= (o.sent + 1) * MaxBackoff
    BY <1>0, <2>2, OneMoreWait DEF Budgeted
  <2>7. /\ n.at = o.at /\ n.hop = o.hop /\ n.attempt = o.attempt + 1
        /\ n.sent = o.sent + 1 /\ n.waited = o.waited + t /\ n.trail = o.trail
    BY <1>0 DEF WebCalls
  <2> HIDE DEF n
  <2>a. n.sent <= (MaxRedirects + 1) * PerHop
    <3>1. CASE o.at = "search"
      <4>1. n.sent <= MaxAttempts
        BY <1>0, <2>3, <2>7, <3>1 DEF Budgeted
      <4> QED BY <1>0, <1>h, <2>7, <4>1
    <3>2. CASE o.at \in {"robots", "page"}
      <4>2. o.sent <= o.hop * PerHop + MaxAttempts + o.attempt + 1
        BY <1>0, <1>h, <3>2 DEF Budgeted
      <4>1. n.sent <= o.hop * PerHop + MaxAttempts + MaxAttempts
        BY <1>0, <1>h, <2>3, <2>7, <4>2
      <4> QED BY <1>0, <1>h, <2>7, <4>1
    <3> QED BY <2>3, <3>1, <3>2 DEF Requesting
  <2>b. /\ o.at = "search" => n.sent = n.attempt + 1
        /\ o.at = "robots" => n.sent <= n.hop * PerHop + n.attempt + 1
        /\ o.at = "page"   => n.sent <= n.hop * PerHop + MaxAttempts + n.attempt + 1
    <3>1. /\ o.at = "search" => o.sent = o.attempt + 1
          /\ o.at = "robots" => o.sent <= o.hop * PerHop + o.attempt + 1
          /\ o.at = "page"   => o.sent <= o.hop * PerHop + MaxAttempts + o.attempt + 1
      BY <1>0 DEF Budgeted
    <3> QED BY <1>0, <1>h, <2>7, <3>1
  <2>8. Budgeted(n)
    <3>1. n.at \in Requesting /\ n.waited <= n.sent * MaxBackoff
      BY <2>3, <2>6, <2>7
    <3> QED BY <2>7, <2>a, <2>b, <3>1 DEF Budgeted, Requesting
  <2>9. Checked(n)
    BY <1>0, <2>7 DEF Checked
  <2> QED BY <2>4, <2>5, <2>8, <2>9, OneCall
<1>6. CASE RobotsAllow(c)
  <2>1. PICK w \in WebCalls :
          /\ web' = [web EXCEPT ![c] = w]
          /\ w.at = "page" /\ w.hop = o.hop /\ w.attempt = 0
          /\ w.sent = o.sent + 1 /\ w.waited = o.waited
          /\ w.trail = o.trail \cup ({"allowed", "page"} \X {o.hop})
    <3>1. "page" \in Requesting /\ {"allowed", "page"} \in SUBSET Events
      BY DEF Requesting, Events
    <3> QED BY <1>6, <3>1, SendOK DEF RobotsAllow
  <2>2. w.sent <= o.hop * PerHop + MaxAttempts + 1
    BY <1>0, <1>6, <1>h, <2>1 DEF RobotsAllow, Budgeted
  <2>3. Budgeted(w)
    BY <1>0, <1>h, <1>w, <2>1, <2>2 DEF Budgeted
  <2>4. <<"public", o.hop>> \in o.trail
    BY <1>0, <1>6 DEF RobotsAllow, Checked
  <2>5. Checked(w)
    BY <1>0, <2>1, <2>4 DEF Checked
  <2> QED BY <2>1, <2>3, <2>5, OneCall
<1>7. CASE Redirect(c)
  <2> DEFINE n == [o EXCEPT !.at = "resolve", !.hop = @ + 1]
  <2>1. o.hop + 1 \in 0..MaxRedirects /\ o.at = "page"
    BY <1>0, <1>7 DEF Redirect
  <2>2. n \in WebCalls
    BY <1>0, <2>1 DEF WebCalls, Fetching
  <2>3. web' = [web EXCEPT ![c] = n]
    BY <1>7 DEF Redirect, WebInv, WebTypeOK
  <2>4. /\ n.at = "resolve" /\ n.hop = o.hop + 1 /\ n.sent = o.sent
        /\ n.waited = o.waited /\ n.trail = o.trail
    BY <1>0 DEF WebCalls
  <2> HIDE DEF n
  <2>5. n.sent <= n.hop * PerHop
    BY <1>0, <1>h, <2>1, <2>4 DEF Budgeted
  <2>6. Budgeted(n)
    BY <1>0, <2>4, <2>5 DEF Budgeted
  <2>7. Checked(n)
    BY <1>0, <2>4 DEF Checked
  <2> QED BY <2>2, <2>3, <2>6, <2>7, OneCall
<1>8. CASE PageRead(c) \/ Finds(c) \/ Fails(c)
  BY <1>1, <1>8 DEF PageRead, Finds, Fails
<1>9. CASE Forget(c)
  <2>1. web' = [web EXCEPT ![c] = NoCall]
    BY <1>9 DEF Forget
  <2> QED BY <2>1, NoCallOK, OneCall
<1> QED BY <1>2, <1>3, <1>4, <1>5, <1>6, <1>7, <1>8, <1>9 DEF WebStep

LEMMA WebInductive == WebSpec => []WebInv
<1>1. WebInv /\ UNCHANGED web => WebInv'
  BY DEF WebInv, WebTypeOK
<1>2. WebInv /\ [WebNext]_web => WebInv'
  BY <1>1, WebStepOK DEF WebNext
<1> QED BY WebInitOK, <1>2, PTL DEF WebSpec
-----------------------------------------------------------------------------
\* One search or fetch sends a number of requests, and sleeps a time per request,
\* that no server can raise (_download, retry_wait_seconds, MAX_REDIRECTS).
THEOREM WebCallIsBounded == WebSpec => []CallIsBounded
<1>1. ASSUME WebInv, NEW c \in Slots
      PROVE  /\ web[c].at = "search" => web[c].sent <= MaxAttempts
             /\ web[c].sent <= (MaxRedirects + 1) * PerHop
             /\ web[c].waited <= web[c].sent * MaxBackoff
  <2>1. web[c].attempt \in 0..(MaxAttempts - 1) /\ Budgeted(web[c]) /\ MaxAttempts \in Nat
    BY <1>1, WebConstantsOK DEF WebInv, WebTypeOK, WebCalls
  <2> QED BY <2>1 DEF Budgeted
<1>2. WebInv => CallIsBounded
  BY <1>1 DEF CallIsBounded
<1> QED BY <1>2, WebInductive, PTL

\* No redirect leads past the address check or robots.txt (fetch_page).
THEOREM WebChecksFirst == WebSpec => []CheckedBeforeContact
<1>1. WebInv => CheckedBeforeContact
  BY DEF WebInv, Checked, CheckedBeforeContact
<1> QED BY <1>1, WebInductive, PTL
-----------------------------------------------------------------------------
(***************************************************************************)
(* A call ends by itself                                                    *)
(***************************************************************************)
\* How many steps a call may still take: at this hop, and at the ones after it.
Tries(w) == MaxAttempts - 1 - w.attempt

Here(w) ==
  CASE w.at = "resolve" -> 2 * MaxAttempts + 3
    [] w.at = "robots" -> MaxAttempts + 3 + Tries(w)
    [] w.at \in {"page", "search"} -> 3 + Tries(w)
    [] w.at = "canonical" -> 2
    [] OTHER -> 1

HopSteps     == 2 * MaxAttempts + 1
StepsLeft(w) == (MaxRedirects - w.hop) * HopSteps + Here(w)
MostSteps    == MaxRedirects * HopSteps + 2 * MaxAttempts + 3

LEMMA StepsLeftOK ==
  ASSUME NEW w \in WebCalls
  PROVE  /\ HopSteps \in Nat /\ MostSteps \in Nat
         /\ (MaxRedirects - w.hop) * HopSteps \in 0..(MaxRedirects * HopSteps)
         /\ Here(w) \in 1..(2 * MaxAttempts + 3)
         /\ StepsLeft(w) \in 1..MostSteps
<1>1. /\ MaxAttempts \in Nat /\ MaxAttempts > 0 /\ MaxRedirects \in Nat
      /\ w.hop \in 0..MaxRedirects /\ Tries(w) \in 0..(MaxAttempts - 1)
  BY WebConstantsOK DEF WebCalls, Tries
<1>2. HopSteps \in Nat
  BY <1>1 DEF HopSteps
<1>3. Here(w) \in 1..(2 * MaxAttempts + 3)
  BY <1>1 DEF Here
<1>4. ASSUME NEW p \in Nat, NEW m \in Nat, NEW h \in 0..m
      PROVE  (m - h) * p \in 0..(m * p) /\ m * p \in Nat
  <2>1. PICK d \in Nat : m = h + d
    <3>1. m - h \in Nat /\ m = h + (m - h)
      BY <1>4
    <3> QED BY <3>1
  <2>2. m * p = h * p + d * p /\ d * p \in Nat /\ h * p \in Nat /\ m - h = d
    BY <2>1
  <2> QED BY <2>2
<1>5. (MaxRedirects - w.hop) * HopSteps \in 0..(MaxRedirects * HopSteps)
      /\ MaxRedirects * HopSteps \in Nat
  BY <1>1, <1>2, <1>4
<1>6. \A x \in 0..(MaxRedirects * HopSteps), y \in 1..(2 * MaxAttempts + 3) :
        x + y \in 1..MostSteps /\ MostSteps \in Nat
  BY <1>1, <1>5 DEF MostSteps
<1>7. 1 \in 1..(2 * MaxAttempts + 3)
  BY <1>1
<1> QED BY <1>2, <1>3, <1>5, <1>6, <1>7 DEF StepsLeft

\* At the same hop, a later place or a further attempt; or a further hop.
LEMMA FewerSteps ==
  ASSUME NEW o \in WebCalls, NEW n \in WebCalls,
         \/ n.hop = o.hop /\ Here(n) < Here(o)
         \/ n.hop = o.hop + 1 /\ o.at = "page"
  PROVE  StepsLeft(n) < StepsLeft(o)
<1>0. /\ HopSteps \in Nat /\ Here(o) \in Nat /\ Here(n) \in Nat
      /\ (MaxRedirects - o.hop) * HopSteps \in Nat
      /\ (MaxRedirects - n.hop) * HopSteps \in Nat
  BY StepsLeftOK, WebConstantsOK
<1>1. CASE n.hop = o.hop /\ Here(n) < Here(o)
  BY <1>0, <1>1 DEF StepsLeft
<1>2. CASE n.hop = o.hop + 1 /\ o.at = "page"
  <2>1. (MaxRedirects - o.hop) * HopSteps = (MaxRedirects - n.hop) * HopSteps + HopSteps
    <3>1. \A d, p \in Nat : (d + 1) * p = d * p + p
      OBVIOUS
    <3>2. MaxRedirects - n.hop \in Nat /\ MaxRedirects - o.hop = (MaxRedirects - n.hop) + 1
      BY <1>2, WebConstantsOK DEF WebCalls
    <3> QED BY <1>0, <3>1, <3>2
  <2>2. Here(o) >= 3 /\ Here(n) <= HopSteps + 2
    <3>1. Here(o) = 3 + Tries(o) /\ Tries(o) \in Nat
      BY <1>2, WebConstantsOK DEF Here, Tries, WebCalls
    <3>2. Here(n) <= 2 * MaxAttempts + 3 /\ MaxAttempts \in Nat
      BY StepsLeftOK, WebConstantsOK
    <3> QED BY <1>0, <3>1, <3>2 DEF HopSteps
  <2> QED BY <1>0, <2>1, <2>2 DEF StepsLeft
<1> QED BY <1>1, <1>2

\* What a step does to the call's place.
LEMMA WebStepLessens ==
  ASSUME WebTypeOK, WebTypeOK', NEW c \in Slots, WebStep(c)
  PROVE  StepsLeft(web[c])' < StepsLeft(web[c]) /\ \A d \in Slots \ {c} : UNCHANGED web[d]
<1> DEFINE o == web[c]
           n == web'[c]
<1>0. /\ o \in WebCalls /\ n \in WebCalls /\ web \in [Slots -> WebCalls]
      /\ o.attempt \in 0..(MaxAttempts - 1) /\ MaxAttempts \in Nat /\ MaxAttempts > 0
  BY WebConstantsOK DEF WebTypeOK, WebCalls
<1>2. ASSUME AddressIsPublic(c)
      PROVE  StepsLeft(n) < StepsLeft(o)
  <2>1. o.at = "resolve" /\ n.at = "robots" /\ n.hop = o.hop /\ n.attempt = 0
    BY <1>0, <1>2 DEF AddressIsPublic, Send, WebCalls
  <2>2. Here(o) = 2 * MaxAttempts + 3 /\ Here(n) = 2 * MaxAttempts + 2
    BY <1>0, <2>1 DEF Here, Tries
  <2>3. Here(n) < Here(o)
    BY <1>0, <2>2
  <2> QED BY <1>0, <2>1, <2>3, FewerSteps
<1>3. ASSUME Retry(c)
      PROVE  StepsLeft(n) < StepsLeft(o)
  <2>1. o.at \in Requesting /\ n.at = o.at /\ n.hop = o.hop /\ n.attempt = o.attempt + 1
    BY <1>0, <1>3 DEF Retry, WebCalls
  <2>2. Here(n) = Here(o) - 1
    BY <1>0, <2>1 DEF Here, Tries, Requesting
  <2>3. Here(o) \in Nat
    BY <1>0, StepsLeftOK
  <2>4. Here(n) < Here(o)
    BY <2>2, <2>3
  <2> QED BY <1>0, <2>1, <2>4, FewerSteps
<1>4. ASSUME RobotsAllow(c)
      PROVE  StepsLeft(n) < StepsLeft(o)
  <2>1. o.at = "robots" /\ n.at = "page" /\ n.hop = o.hop /\ n.attempt = 0
    BY <1>0, <1>4 DEF RobotsAllow, Send, WebCalls
  <2>2. Here(o) = MaxAttempts + 3 + Tries(o) /\ Here(n) = MaxAttempts + 2 /\ Tries(o) \in Nat
    BY <1>0, <2>1 DEF Here, Tries
  <2>3. Here(n) < Here(o)
    BY <1>0, <2>2
  <2> QED BY <1>0, <2>1, <2>3, FewerSteps
<1>5. ASSUME Redirect(c)
      PROVE  StepsLeft(n) < StepsLeft(o)
  <2>1. o.at = "page" /\ n.hop = o.hop + 1
    BY <1>0, <1>5 DEF Redirect, WebCalls
  <2> QED BY <1>0, <2>1, FewerSteps
<1>6. ASSUME PageRead(c) \/ Finds(c) \/ Fails(c)
      PROVE  StepsLeft(n) < StepsLeft(o)
  <2>1. \/ o.at = "page" /\ n.at = "canonical"
        \/ /\ o.at \in {"resolve", "robots", "page", "search", "canonical"}
           /\ n.at \in {"found", "error"}
    BY <1>0, <1>6 DEF PageRead, Finds, Fails, Fetching, Move, WebCalls
  <2>2. n.hop = o.hop
    BY <1>0, <1>6 DEF PageRead, Finds, Fails, Move, WebCalls
  <2>3. Here(n) < Here(o)
    <3>1. CASE o.at = "page" /\ n.at = "canonical"
      <4>1. Here(n) = 2 /\ Here(o) = 3 + Tries(o) /\ Tries(o) \in Nat
        BY <1>0, <3>1 DEF Here, Tries
      <4> QED BY <4>1
    <3>2. CASE /\ o.at \in {"resolve", "robots", "page", "search", "canonical"}
               /\ n.at \in {"found", "error"}
      <4>1. Here(n) = 1
        BY <3>2 DEF Here
      <4>2. Tries(o) \in Nat
        BY <1>0 DEF Tries
      <4>3. Here(o) > 1
        BY <1>0, <3>2, <4>2 DEF Here
      <4> QED BY <4>1, <4>3
    <3> QED BY <2>1, <3>1, <3>2
  <2> QED BY <1>0, <2>2, <2>3, FewerSteps
<1>7. \A d \in Slots \ {c} : UNCHANGED web[d]
  BY <1>0 DEF WebStep, AddressIsPublic, Retry, RobotsAllow, Redirect, PageRead, Finds, Fails,
              Send, Move
<1>8. StepsLeft(n) < StepsLeft(o)
  BY <1>2, <1>3, <1>4, <1>5, <1>6 DEF WebStep
<1>9. StepsLeft(web[c])' = StepsLeft(n)
  BY DEF StepsLeft, Here, Tries
<1> QED BY <1>7, <1>8, <1>9

\* Whatever servers and resolvers answer, a call of search_web or fetch_page comes to
\* its end in a bounded number of steps: each of them leaves fewer to take.
CallsRunOut ==
  \A c \in Slots : /\ StepsLeft(web[c]) \in 1..MostSteps
                   /\ WebStep(c) => StepsLeft(web[c])' < StepsLeft(web[c])

\* The loops of _download and fetch_page end, for any number of attempts and redirects.
THEOREM WebCallEnds == WebSpec => []WebTypeOK /\ [][CallsRunOut]_web
<1>1. WebInv => WebTypeOK
  BY DEF WebInv
<1>2. WebInv /\ WebInv' /\ [WebNext]_web => [CallsRunOut]_web
  BY WebStepLessens, StepsLeftOK DEF WebInv, WebTypeOK, CallsRunOut
<1> QED BY <1>1, <1>2, WebInductive, PTL DEF WebSpec
=============================================================================
