----------------------------- MODULE ClientMetadata -----------------------------
(***************************************************************************)
(* Client ID metadata documents: ClientIdMetadataResolver of               *)
(* auth/clientIdMetadata.ts, as resolveClientRedirectUris of               *)
(* auth/OAuthProxy.ts uses it.  A client is the URL of a document that the *)
(* proxy fetches when the client turns up and may cache for as long as the *)
(* answer says.  The owner of the URL publishes new documents at will.     *)
(*                                                                         *)
(* Clients here are URLs that passed the checks before the fetch, which    *)
(* depend on the URL and the configuration alone.  Time is relative: what  *)
(* a cached document has left, how long a fetch has been running and how   *)
(* long ago a document was replaced are counted in ticks.                  *)
(***************************************************************************)
EXTENDS Naturals

CONSTANTS
    Client,      \* client_ids that are URLs of documents
    Slot,        \* calls of resolveClientRedirectUris in progress
    None,        \* absence of a value
    MaxVersion,  \* bound on the documents published for a client
    Lifetime,    \* max-age values the owner may answer with
    DefaultTtl,  \* defaultCacheTtlMs
    Timeout,     \* fetchTimeoutMs
    Horizon      \* the age at which a replaced document stops being counted

\* 0 is no-store and no-cache; None is an answer without cache headers.
Ttl == Lifetime \cup {0, None}

ASSUME ClientMetadataAssumption ==
    /\ MaxVersion \in Nat \ {0} /\ Lifetime \subseteq Nat
    /\ DefaultTtl \in Nat /\ Timeout \in Nat \ {0} /\ Horizon \in Nat
    /\ None \notin Nat
    /\ \A t \in Lifetime \cup {0, DefaultTtl} : t + Timeout < Horizon

VARIABLES
    current, \* current[c]: version of the document the URL serves
    doc,     \* doc[c][v]: the document, with the cache header it is served with
    age,     \* age[c][v]: ticks since version v was replaced
    cache,   \* #cache
    req      \* the call in each slot

vars == <<current, doc, age, cache, req>>

--------------------------------------------------------------------------------
Version == 1 .. MaxVersion

\* good: all its redirect URIs are on the allow-list.  invalid: refused by
\* validateClientIdMetadata, or not fetched whole.
Document == [kind: {"good", "forbidden", "invalid"}, ttl: Ttl]

\* left: expiresAt - Date.now().
CacheEntry == [version: Version, left: Nat]

\* elapsed: ticks since the fetch began, up to the timeout.  version: what the
\* origin answered, or the caller was given.  late: age of that version when
\* the caller got it.
Call == [step: {"idle", "fetching", "reading", "answered"},
         client: Client \cup {None}, elapsed: 0 .. Timeout,
         version: Version \cup {None}, late: Nat]

Idle == [step |-> "idle", client |-> None, elapsed |-> 0,
         version |-> None, late |-> 0]

InFlight(q) == q.step \in {"fetching", "reading"}

Becomes(r, q) == req' = [req EXCEPT ![r] = q]

--------------------------------------------------------------------------------
(* Plausible slips in the code, each the body of one definition below.      *)

\* "||" for "??": no-store is taken for an answer without cache headers.
DefaultForZero(ttl) == IF ttl \in {0, None} THEN DefaultTtl ELSE ttl
\* The signal of the fetch is forgotten: the headers are waited for in time,
\* the body for ever.
HeadersOnly(q) == q.step = "fetching" /\ q.elapsed = Timeout

--------------------------------------------------------------------------------
\* cacheTtlFromHeaders(headers) ?? defaultCacheTtlMs
TtlOf(ttl) == IF ttl = None THEN DefaultTtl ELSE ttl

\* cached && cached.expiresAt > Date.now()
Hit(c) == cache[c] # None /\ cache[c].left > 0

\* resolveClientRedirectUris validates every redirect URI of the document.
Accepts(d) == d.kind = "good"

\* AbortSignal.timeout() aborts the request, its body included.
Due(q) == InFlight(q) /\ q.elapsed = Timeout

\* The caller of slot r gets version v of the document of c, or an
\* invalid_client error if one of its redirect URIs is not allowed.
Given(r, c, v) ==
    Becomes(r, IF Accepts(doc[c][v])
               THEN [Idle EXCEPT !.step = "answered", !.client = c,
                                 !.version = v, !.late = age[c][v]]
               ELSE Idle)

--------------------------------------------------------------------------------
TypeOK ==
    /\ current \in [Client -> Version]
    /\ doc \in [Client -> [Version -> Document]]
    /\ age \in [Client -> [Version -> 0 .. Horizon]]
    /\ cache \in [Client -> CacheEntry \cup {None}]
    /\ req \in [Slot -> Call]

\* The documents to come are chosen in advance.
Init ==
    /\ current = [c \in Client |-> 1]
    /\ doc \in [Client -> [Version -> Document]]
    /\ age = [c \in Client |-> [v \in Version |-> 0]]
    /\ cache = [c \in Client |-> None]
    /\ req = [r \in Slot |-> Idle]

--------------------------------------------------------------------------------
(* resolve() *)

FromCache(r, c) ==
    /\ req[r].step = "idle"
    /\ Hit(c)
    /\ Given(r, c, cache[c].version)
    /\ UNCHANGED <<current, doc, age, cache>>

\* Calls for one client are not coalesced: each fetches.
BeginFetch(r, c) ==
    /\ req[r].step = "idle"
    /\ ~Hit(c)
    /\ Becomes(r, [Idle EXCEPT !.step = "fetching", !.client = c])
    /\ UNCHANGED <<current, doc, age, cache>>

\* The origin answers with the document of the moment; the body is on its way.
OriginAnswers(r) ==
    /\ req[r].step = "fetching"
    /\ Becomes(r, [req[r] EXCEPT !.step = "reading",
                                 !.version = current[req[r].client]])
    /\ UNCHANGED <<current, doc, age, cache>>

\* The body is complete: validated, cached over whatever is there, returned.
BodyRead(r) ==
    LET c == req[r].client  v == req[r].version  ttl == TtlOf(doc[c][v].ttl) IN
    /\ req[r].step = "reading"
    /\ doc[c][v].kind # "invalid"
    /\ cache' = IF ttl > 0 THEN [cache EXCEPT ![c] = [version |-> v, left |-> ttl]]
                ELSE cache
    /\ Given(r, c, v)
    /\ UNCHANGED <<current, doc, age>>

\* A refused connection, a redirect or an error status, a body that breaks off
\* or is too large, a document that is not valid.
FetchFails(r) ==
    /\ InFlight(req[r])
    /\ Becomes(r, Idle)
    /\ UNCHANGED <<current, doc, age, cache>>

FetchTimesOut(r) ==
    /\ Due(req[r])
    /\ Becomes(r, Idle)
    /\ UNCHANGED <<current, doc, age, cache>>

\* The caller takes the answer; the slot is free for another call.
Return(r) ==
    /\ req[r].step = "answered"
    /\ Becomes(r, Idle)
    /\ UNCHANGED <<current, doc, age, cache>>

ClearCache ==
    /\ cache' = [c \in Client |-> None]
    /\ UNCHANGED <<current, doc, age, req>>

--------------------------------------------------------------------------------
(* The owner of the document, and time *)

Publish(c) ==
    /\ current[c] < MaxVersion
    /\ current' = [current EXCEPT ![c] = @ + 1]
    /\ UNCHANGED <<doc, age, cache, req>>

Older(c, v) ==
    IF v < current[c] /\ age[c][v] < Horizon THEN age[c][v] + 1 ELSE age[c][v]

Longer(elapsed) == IF elapsed < Timeout THEN elapsed + 1 ELSE elapsed

\* Timers fire on time.
Tick ==
    /\ \A r \in Slot : ~Due(req[r])
    /\ age' = [c \in Client |-> [v \in Version |-> Older(c, v)]]
    /\ cache' = [c \in Client |->
           IF Hit(c) THEN [cache[c] EXCEPT !.left = @ - 1] ELSE cache[c]]
    /\ req' = [r \in Slot |->
           IF InFlight(req[r]) THEN [req[r] EXCEPT !.elapsed = Longer(@)] ELSE req[r]]
    /\ UNCHANGED <<current, doc>>

--------------------------------------------------------------------------------
Next ==
    \/ \E r \in Slot, c \in Client : FromCache(r, c) \/ BeginFetch(r, c)
    \/ \E r \in Slot : \/ OriginAnswers(r) \/ BodyRead(r) \/ FetchFails(r)
                       \/ FetchTimesOut(r) \/ Return(r)
    \/ ClearCache
    \/ \E c \in Client : Publish(c)
    \/ Tick

Spec == Init /\ [][Next]_vars

\* Time passes and timers fire; nothing is assumed of the network.
Fairness == WF_vars(Tick) /\ \A r \in Slot : WF_vars(FetchTimesOut(r))

FairSpec == Spec /\ Fairness

--------------------------------------------------------------------------------
(* Properties *)

\* How long a replaced document may still be answered: the lifetime it was
\* served with, and the time its fetch may have taken.  Holds for any number
\* of fetches of one client that overlap and end in any order, so for the
\* older answer that is cached last.
AnswersAreFresh ==
    \A r \in Slot : req[r].step = "answered" =>
        LET ttl == doc[req[r].client][req[r].version].ttl IN
        req[r].late <= (IF ttl = None THEN DefaultTtl ELSE ttl) + Timeout

\* authorize() is not held up by a server that does not answer, or answers and
\* never ends its body.
EveryFetchEnds == \A r \in Slot : InFlight(req[r]) ~> ~InFlight(req[r])
================================================================================
