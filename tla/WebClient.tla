------------------------------ MODULE WebClient ------------------------------
(***************************************************************************)
(* What one tool call of the research agent does on the web: search_web     *)
(* (app/research/web_search.py) and fetch_page (page_fetcher.py), with the   *)
(* address checks of network_safety.py and the waits of retry.py.  A call    *)
(* suspends at every request and at every lookup of an address.              *)
(***************************************************************************)
EXTENDS Naturals

CONSTANTS
  Slots,         \* bound: calls that may be under way
  MaxAttempts,   \* MAX_ATTEMPTS, of both files
  MaxRedirects,  \* MAX_REDIRECTS
  RetryAfter,    \* Retry-After headers servers send, in quarters of a second
  MaxBackoff     \* MAX_BACKOFF_SECONDS, in quarters of a second

ASSUME WebConstantsOK ==
  /\ MaxAttempts \in Nat \ {0}
  /\ MaxRedirects \in Nat
  /\ RetryAfter \subseteq Nat
  /\ MaxBackoff \in Nat
  /\ \A n \in 0..MaxAttempts : 2^n \in Nat  \* for the prover, which knows no powers

VARIABLE web  \* each call of search_web or fetch_page

Requesting == {"search", "robots", "page"}
Fetching   == {"resolve", "robots", "page", "canonical"}
Answered   == {"found", "error"}
Events     == {"public", "robots", "allowed", "page"}

\* at, hop (redirect_count) and attempt are the call's locals; sent, waited and
\* trail record what it did: requests, quarters of a second it slept, and which
\* checks and requests it made at which hop.
WebCalls ==
  [at : {"idle", "search"} \cup Fetching \cup Answered,
   hop : 0..MaxRedirects, attempt : 0..(MaxAttempts - 1),
   sent : Nat, waited : Nat, trail : SUBSET (Events \X (0..MaxRedirects))]

NoCall == [at |-> "idle", hop |-> 0, attempt |-> 0, sent |-> 0, waited |-> 0, trail |-> {}]

WebTypeOK == web \in [Slots -> WebCalls]

WebInit == web = [c \in Slots |-> NoCall]
-----------------------------------------------------------------------------
Move(c, to) == web' = [web EXCEPT ![c].at = to]

\* The events of this step, at the hop the call is at.
Now(c, events) == web[c].trail \cup (events \X {web[c].hop})

\* The first attempt of a request.
Send(c, to, events) ==
  web' = [web EXCEPT ![c].at = to, ![c].attempt = 0, ![c].sent = @ + 1,
                     ![c].trail = Now(c, events)]

Forget(c) == web' = [web EXCEPT ![c] = NoCall]

\* Without a key, or for a URL that does not normalise, nothing is requested.
StartSearch(c) == web[c].at = "idle" /\ (Send(c, "search", {}) \/ Move(c, "error"))
StartFetch(c)  == web[c].at = "idle" /\ (Move(c, "resolve") \/ Move(c, "error"))

\* public_url_error finds only public addresses, and robots.txt is requested.
AddressIsPublic(c) == web[c].at = "resolve" /\ Send(c, "robots", {"public", "robots"})

Smaller(x, y) == IF x < y THEN x ELSE y
Larger(x, y)  == IF x < y THEN y ELSE x

\* Mutation: what the server asks for is waited in full.
PatientWait(attempt, server) == Larger(2^attempt, server)

\* retry_wait_seconds: BASE_BACKOFF_SECONDS is one quarter; no header counts as 0.
RetryWait(attempt, server) == Smaller(Larger(2^attempt, server), MaxBackoff)

MayRetry(c) == web[c].attempt + 1 < MaxAttempts

\* A timeout, or status 429 or 5xx: the call sleeps and asks again.
Retry(c) ==
  /\ web[c].at \in Requesting /\ MayRetry(c)
  /\ \E server \in RetryAfter \cup {0} :
       web' = [web EXCEPT ![c].attempt = @ + 1, ![c].sent = @ + 1,
                          ![c].waited = @ + RetryWait(web[c].attempt, server)]

\* No robots.txt, or one that allows the page.
RobotsAllow(c) == web[c].at = "robots" /\ Send(c, "page", {"allowed", "page"})

\* Mutation: the target of a redirect is requested at once.
RedirectUnchecked(c) ==
  /\ web[c].at = "page" /\ web[c].hop < MaxRedirects
  /\ web' = [web EXCEPT ![c].hop = @ + 1, ![c].attempt = 0, ![c].sent = @ + 1,
                        ![c].trail = @ \cup {<<"page", web[c].hop + 1>>}]

Redirect(c) ==
  /\ web[c].at = "page" /\ web[c].hop < MaxRedirects
  /\ web' = [web EXCEPT ![c].at = "resolve", ![c].hop = @ + 1]

\* An HTML page was read and parsed; the address of its canonical URL is next.
PageRead(c) == web[c].at = "page" /\ Move(c, "canonical")

\* A result: hits of a search, or a source whose canonical URL is public.
Finds(c) == web[c].at \in {"search", "canonical"} /\ Move(c, "found")

\* Everything else ends the call at once: the last attempt's timeout or status,
\* any other status, a network error, an unsafe or unknown address, robots.txt, a
\* redirect too many or without a target, a body of the wrong size or kind, or an
\* exception (which the agent's tool catches).
Fails(c) == web[c].at \in {"search"} \cup Fetching /\ Move(c, "error")

WebStep(c) ==
  \/ AddressIsPublic(c) \/ Retry(c) \/ RobotsAllow(c) \/ Redirect(c)
  \/ PageRead(c) \/ Finds(c) \/ Fails(c)

WebNext == \E c \in Slots : StartSearch(c) \/ StartFetch(c) \/ WebStep(c) \/ Forget(c)

WebSpec == WebInit /\ [][WebNext]_web
-----------------------------------------------------------------------------
(***************************************************************************)
(* Properties                                                               *)
(***************************************************************************)
\* Requests a call may send at most: MaxAttempts for robots.txt and for the page
\* of every hop.
PerHop == 2 * MaxAttempts

\* Retries, redirects and the waits servers ask for multiply only up to a limit
\* no server can raise: the requests of one call, and its sleep per request.
CallIsBounded ==
  \A c \in Slots :
    /\ web[c].at = "search" => web[c].sent <= MaxAttempts
    /\ web[c].sent <= (MaxRedirects + 1) * PerHop
    /\ web[c].waited <= web[c].sent * MaxBackoff

\* Behind every redirect too, a host is contacted only once its address was found
\* public, and a page requested only once robots.txt of its host allowed it.
CheckedBeforeContact ==
  \A c \in Slots, h \in 0..MaxRedirects :
    LET did(event) == <<event, h>> \in web[c].trail IN
    (did("robots") \/ did("page") => did("public")) /\ (did("page") => did("allowed"))
=============================================================================
