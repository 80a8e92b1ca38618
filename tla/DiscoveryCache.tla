---------------------------- MODULE DiscoveryCache ----------------------------
(***************************************************************************)
(* DiscoveryDocumentCache.ts: a cache of documents fetched by URL, which   *)
(* coalesces concurrent gets of one URL into one fetch and can be cleared, *)
(* for one URL or entirely, while fetches are pending.  JavaScript runs    *)
(* each piece between two awaits without interruption; those pieces are    *)
(* the actions.                                                            *)
(*                                                                         *)
(* A document is abstracted to the epoch it was asked for in: epoch[u]     *)
(* counts the clears that affected URL u so far (a history variable, no    *)
(* part of the code, which has only the two generation counters).          *)
(***************************************************************************)
EXTENDS Naturals

CONSTANTS
    Url,        \* discovery document URLs
    Caller,     \* concurrent callers of get()
    Fetch,      \* pool of fetch promises
    None,       \* absence of a value
    Ttl,        \* options.ttl
    MaxTime,    \* bound on the clock
    MaxClears   \* bound on the clears that affect one URL

\* A promise of #fetchAndCache, and a cached document.
FetchState == {"pending", "resolved", "rejected"}
FetchRecord == [url: Url, generation: Nat, urlGeneration: Nat, epoch: Nat,
                creator: Caller, state: FetchState]
CacheEntry == [epoch: Nat, expiresAt: Nat]

ASSUME DiscoveryCacheAssumption ==
    /\ Ttl \in Nat /\ MaxTime \in Nat /\ MaxClears \in Nat
    /\ None \notin Fetch /\ None \notin FetchRecord /\ None \notin CacheEntry
    /\ None \notin Nat

VARIABLES
    now,           \* the clock
    cache,         \* cache[u]: the cached document and its expiry
    generation,    \* #generation
    urlGeneration, \* #urlGenerations
    inFlight,      \* #inFlight: the promise later callers of u join
    fetch,         \* the promises some caller still awaits
    waiting,       \* waiting[c]: the promise caller c awaits
    wanted,        \* wanted[c]: the epoch in which c called get()
    got,           \* got[c]: the epoch of the document that call returned
    epoch          \* clears of each URL so far

vars == <<now, cache, generation, urlGeneration, inFlight, fetch, waiting,
          wanted, got, epoch>>

--------------------------------------------------------------------------------
(* Plausible slips in the code, each the body of one definition below; the  *)
(* properties have to notice them.                                          *)

\* Only the URL's own generation is compared when a document arrives.
UrlGenerationOnly(f) == fetch[f].urlGeneration = urlGeneration[fetch[f].url]
\* clear(url) forgets the cached document but not the fetch in flight.
InFlightKept(u) == inFlight
\* A caller that finds a fetch in flight starts another one all the same.
NeverJoins(u) == FALSE
\* A rejected promise never reaches its callers.
OnlyResolved(f) == fetch[f].state = "resolved"

--------------------------------------------------------------------------------
\* get(): a cached document is used strictly before its expiry.
Fresh(u) == cache[u] # None /\ cache[u].expiresAt > now

\* get(): there is a promise to join.
Joinable(u) == inFlight[u] # None

\* No clear has happened since the fetch was started.
StillCurrent(f) ==
    /\ fetch[f].generation = generation
    /\ fetch[f].urlGeneration = urlGeneration[fetch[f].url]

\* The entry of a document that arrived: its TTL counts from the arrival.
NewEntry(f) == [epoch |-> fetch[f].epoch, expiresAt |-> now + Ttl]

\* clear(url): the fetch in flight is forgotten too.
WithoutInFlight(u) == [inFlight EXCEPT ![u] = None]

Pending(f) == fetch[f] # None /\ fetch[f].state = "pending"
Settled(f) == fetch[f].state # "pending"

--------------------------------------------------------------------------------
TypeOK ==
    /\ now \in Nat
    /\ cache \in [Url -> CacheEntry \cup {None}]
    /\ generation \in Nat
    /\ urlGeneration \in [Url -> Nat]
    /\ inFlight \in [Url -> Fetch \cup {None}]
    /\ fetch \in [Fetch -> FetchRecord \cup {None}]
    /\ waiting \in [Caller -> Fetch \cup {None}]
    /\ wanted \in [Caller -> Nat]
    /\ got \in [Caller -> Nat \cup {None}]
    /\ epoch \in [Url -> Nat]

Init ==
    /\ now = 0
    /\ cache = [u \in Url |-> None]
    /\ generation = 0
    /\ urlGeneration = [u \in Url |-> 0]
    /\ inFlight = [u \in Url |-> None]
    /\ fetch = [f \in Fetch |-> None]
    /\ waiting = [c \in Caller |-> None]
    /\ wanted = [c \in Caller |-> 0]
    /\ got = [c \in Caller |-> None]
    /\ epoch = [u \in Url |-> 0]

--------------------------------------------------------------------------------
(* get(url), up to its await *)

GetCached(c, u) ==
    /\ waiting[c] = None
    /\ Fresh(u)
    /\ wanted' = [wanted EXCEPT ![c] = epoch[u]]
    /\ got' = [got EXCEPT ![c] = cache[u].epoch]
    /\ UNCHANGED <<now, cache, generation, urlGeneration, inFlight, fetch,
                   waiting, epoch>>

GetJoin(c, u) ==
    /\ waiting[c] = None
    /\ ~Fresh(u) /\ Joinable(u)
    /\ waiting' = [waiting EXCEPT ![c] = inFlight[u]]
    /\ wanted' = [wanted EXCEPT ![c] = epoch[u]]
    /\ got' = [got EXCEPT ![c] = None]
    /\ UNCHANGED <<now, cache, generation, urlGeneration, inFlight, fetch, epoch>>

GetFetch(c, u) ==
    /\ waiting[c] = None
    /\ ~Fresh(u) /\ ~Joinable(u)
    /\ \E f \in Fetch :
        /\ fetch[f] = None
        /\ fetch' = [fetch EXCEPT ![f] =
               [url |-> u, generation |-> generation,
                urlGeneration |-> urlGeneration[u], epoch |-> epoch[u],
                creator |-> c, state |-> "pending"]]
        /\ inFlight' = [inFlight EXCEPT ![u] = f]
        /\ waiting' = [waiting EXCEPT ![c] = f]
    /\ wanted' = [wanted EXCEPT ![c] = epoch[u]]
    /\ got' = [got EXCEPT ![c] = None]
    /\ UNCHANGED <<now, cache, generation, urlGeneration, epoch>>

--------------------------------------------------------------------------------
(* #fetchAndCache, after the response *)

Arrive(f) ==
    LET u == fetch[f].url IN
    /\ Pending(f)
    /\ fetch' = [fetch EXCEPT ![f].state = "resolved"]
    /\ cache' = IF StillCurrent(f) THEN [cache EXCEPT ![u] = NewEntry(f)] ELSE cache
    /\ UNCHANGED <<now, generation, urlGeneration, inFlight, waiting, wanted,
                   got, epoch>>

\* Network error, timeout, a status that is not ok or a body that is not JSON.
Fail(f) ==
    /\ Pending(f)
    /\ fetch' = [fetch EXCEPT ![f].state = "rejected"]
    /\ UNCHANGED <<now, cache, generation, urlGeneration, inFlight, waiting,
                   wanted, got, epoch>>

\* get(), after its await.  The caller that started the fetch removes it from
\* the map if it is still there; the promise is gone with its last caller.
Return(c) ==
    LET f == waiting[c] IN
    /\ f # None /\ Settled(f)
    /\ waiting' = [waiting EXCEPT ![c] = None]
    /\ got' = [got EXCEPT ![c] =
           IF fetch[f].state = "resolved" THEN fetch[f].epoch ELSE None]
    /\ inFlight' = [inFlight EXCEPT ![fetch[f].url] =
           IF fetch[f].creator = c /\ @ = f THEN None ELSE @]
    /\ fetch' = IF \E d \in Caller \ {c} : waiting[d] = f THEN fetch
                ELSE [fetch EXCEPT ![f] = None]
    /\ UNCHANGED <<now, cache, generation, urlGeneration, wanted, epoch>>

--------------------------------------------------------------------------------
\* clear(url)
Clear(u) ==
    /\ epoch[u] < MaxClears
    /\ cache' = [cache EXCEPT ![u] = None]
    /\ inFlight' = WithoutInFlight(u)
    /\ urlGeneration' = [urlGeneration EXCEPT ![u] = @ + 1]
    /\ epoch' = [epoch EXCEPT ![u] = @ + 1]
    /\ UNCHANGED <<now, generation, fetch, waiting, wanted, got>>

\* clear()
ClearAll ==
    /\ \A u \in Url : epoch[u] < MaxClears
    /\ cache' = [u \in Url |-> None]
    /\ inFlight' = [u \in Url |-> None]
    /\ urlGeneration' = [u \in Url |-> 0]
    /\ generation' = generation + 1
    /\ epoch' = [u \in Url |-> epoch[u] + 1]
    /\ UNCHANGED <<now, fetch, waiting, wanted, got>>

\* has(url) drops an expired document.
Has(u) ==
    /\ cache[u] # None /\ ~Fresh(u)
    /\ cache' = [cache EXCEPT ![u] = None]
    /\ UNCHANGED <<now, generation, urlGeneration, inFlight, fetch, waiting,
                   wanted, got, epoch>>

Tick ==
    /\ now < MaxTime
    /\ now' = now + 1
    /\ UNCHANGED <<cache, generation, urlGeneration, inFlight, fetch, waiting,
                   wanted, got, epoch>>

--------------------------------------------------------------------------------
Get(c, u) == GetCached(c, u) \/ GetJoin(c, u) \/ GetFetch(c, u)

Next ==
    \/ \E c \in Caller, u \in Url : Get(c, u)
    \/ \E f \in Fetch : Arrive(f) \/ Fail(f)
    \/ \E c \in Caller : Return(c)
    \/ \E u \in Url : Clear(u) \/ Has(u)
    \/ ClearAll
    \/ Tick

Spec == Init /\ [][Next]_vars

\* AbortSignal.timeout bounds every fetch, body included, and the event loop
\* runs every callback that is ready.
Fairness ==
    /\ \A f \in Fetch : WF_vars(Arrive(f) \/ Fail(f))
    /\ \A c \in Caller : WF_vars(Return(c))

FairSpec == Spec /\ Fairness

--------------------------------------------------------------------------------
(* Properties *)

\* After a clear nothing older is served: every get() returns a document whose
\* fetch started after the last clear of its URL that preceded the call, from
\* the cache, a joined fetch or its own.
NeverOlderThanClear == \A c \in Caller : got[c] # None => got[c] >= wanted[c]

\* "A clear that occurred while the fetch was pending invalidates its result":
\* no document asked for before a clear is in the cache after it.
CacheSurvivesNoClear ==
    \A u \in Url : cache[u] # None => cache[u].epoch = epoch[u]

\* Concurrent gets are coalesced: between two clears of a URL at most one
\* fetch of it is pending.
OneFetchPerEpoch ==
    \A f, g \in Fetch :
        Pending(f) /\ Pending(g) /\ fetch[f].url = fetch[g].url
                   /\ fetch[f].epoch = fetch[g].epoch
            => f = g

\* Every get() returns, with a document or an error.
EveryGetReturns == \A c \in Caller : waiting[c] # None ~> waiting[c] = None
================================================================================
