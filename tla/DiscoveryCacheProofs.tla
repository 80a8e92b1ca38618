-------------------------- MODULE DiscoveryCacheProofs --------------------------
(***************************************************************************)
(* Safety of DiscoveryDocumentCache for every number of URLs, callers and  *)
(* pending fetches.                                                        *)
(***************************************************************************)
EXTENDS DiscoveryCache, TLAPS

--------------------------------------------------------------------------------
\* A caller waits for a promise that exists and is recent enough for it; a URL
\* in flight is in flight for the caller that started the fetch.
Linked ==
    /\ \A c \in Caller : waiting[c] # None =>
           fetch[waiting[c]] # None /\ fetch[waiting[c]].epoch >= wanted[c]
    /\ \A u \in Url : inFlight[u] # None =>
           /\ fetch[inFlight[u]] # None
           /\ fetch[inFlight[u]].url = u
           /\ fetch[inFlight[u]].epoch = epoch[u]
           /\ waiting[fetch[inFlight[u]].creator] = inFlight[u]

\* What the two generation counters recorded by fetch f say about the clears of
\* its URL since it was started: none, if and only if both are current.
Dated(f) ==
    LET u == fetch[f].url IN
    /\ fetch[f].generation <= generation
    /\ fetch[f].epoch <= epoch[u]
    /\ fetch[f].generation = generation =>
           epoch[u] - fetch[f].epoch = urlGeneration[u] - fetch[f].urlGeneration
    /\ fetch[f].generation < generation => fetch[f].epoch < epoch[u]

\* A pending fetch that no clear has overtaken is the one in flight.
CurrentInFlight ==
    \A f \in Fetch :
        Pending(f) /\ fetch[f].epoch = epoch[fetch[f].url] => inFlight[fetch[f].url] = f

CacheInv ==
    /\ TypeOK
    /\ Linked
    /\ \A f \in Fetch : fetch[f] # None => Dated(f)
    /\ CurrentInFlight
    /\ CacheSurvivesNoClear
    /\ NeverOlderThanClear
    /\ OneFetchPerEpoch

--------------------------------------------------------------------------------
LEMMA CacheInit == Init => CacheInv
BY DiscoveryCacheAssumption
   DEF Init, CacheInv, TypeOK, Linked, CurrentInFlight, Pending, CacheSurvivesNoClear,
       NeverOlderThanClear, OneFetchPerEpoch

LEMMA FetchFields ==
    ASSUME TypeOK
    PROVE  \A f \in Fetch : fetch[f] # None =>
              /\ fetch[f].url \in Url /\ fetch[f].generation \in Nat
              /\ fetch[f].urlGeneration \in Nat /\ fetch[f].epoch \in Nat
              /\ fetch[f].creator \in Caller /\ fetch[f].state \in FetchState
BY DEF TypeOK, FetchRecord

\* A document is current, for the code, only if no clear has overtaken it.
LEMMA CurrentDocument ==
    ASSUME CacheInv, NEW f \in Fetch, Pending(f), StillCurrent(f)
    PROVE  fetch[f].epoch = epoch[fetch[f].url]
<1>1. Dated(f) /\ fetch[f].generation = generation
      /\ fetch[f].urlGeneration = urlGeneration[fetch[f].url]
  BY DEF CacheInv, Pending, StillCurrent
<1>2. /\ fetch[f].url \in Url /\ fetch[f].epoch \in Nat
      /\ epoch[fetch[f].url] \in Nat /\ urlGeneration[fetch[f].url] \in Nat
  BY FetchFields DEF CacheInv, Pending, TypeOK
<1> QED
  BY <1>1, <1>2 DEF Dated

\* get() from the cache.
LEMMA InvGetCached ==
    ASSUME CacheInv, NEW c \in Caller, NEW u \in Url, GetCached(c, u)
    PROVE  CacheInv'
<1>1. /\ cache[u] # None /\ cache[u] \in CacheEntry /\ cache[u].epoch = epoch[u]
      /\ cache[u].epoch \in Nat /\ epoch[u] \in Nat /\ waiting[c] = None
  BY DEF GetCached, Fresh, CacheInv, TypeOK, CacheEntry, CacheSurvivesNoClear
<1>2. /\ wanted' = [wanted EXCEPT ![c] = epoch[u]]
      /\ got' = [got EXCEPT ![c] = cache[u].epoch]
      /\ UNCHANGED <<now, cache, generation, urlGeneration, inFlight, fetch,
                     waiting, epoch>>
  BY DEF GetCached
<1>3. TypeOK'
  BY <1>1, <1>2 DEF CacheInv, TypeOK
<1>4. Linked'
  BY <1>1, <1>2 DEF CacheInv, Linked, TypeOK
<1>5. NeverOlderThanClear'
  BY <1>1, <1>2 DEF CacheInv, NeverOlderThanClear, TypeOK
<1> QED
  BY <1>2, <1>3, <1>4, <1>5 DEF CacheInv, Dated, CurrentInFlight, Pending,
     CacheSurvivesNoClear, OneFetchPerEpoch

\* get() joining a fetch.
LEMMA InvGetJoin ==
    ASSUME CacheInv, NEW c \in Caller, NEW u \in Url, GetJoin(c, u)
    PROVE  CacheInv'
<1>1. /\ inFlight[u] # None /\ inFlight[u] \in Fetch /\ fetch[inFlight[u]] # None
      /\ fetch[inFlight[u]].epoch = epoch[u] /\ waiting[c] = None /\ epoch[u] \in Nat
  BY DEF GetJoin, Joinable, CacheInv, TypeOK, Linked
<1>2. /\ waiting' = [waiting EXCEPT ![c] = inFlight[u]]
      /\ wanted' = [wanted EXCEPT ![c] = epoch[u]]
      /\ got' = [got EXCEPT ![c] = None]
      /\ UNCHANGED <<now, cache, generation, urlGeneration, inFlight, fetch, epoch>>
  BY DEF GetJoin
<1>3. TypeOK'
  BY <1>1, <1>2 DEF CacheInv, TypeOK
<1>4. Linked'
  BY <1>1, <1>2, FetchFields DEF CacheInv, Linked, TypeOK
<1>5. NeverOlderThanClear'
  BY <1>2 DEF CacheInv, NeverOlderThanClear, TypeOK
<1> QED
  BY <1>2, <1>3, <1>4, <1>5 DEF CacheInv, Dated, CurrentInFlight, Pending,
     CacheSurvivesNoClear, OneFetchPerEpoch

\* get() starting a fetch: none of this URL is pending in this epoch.
LEMMA InvGetFetch ==
    ASSUME CacheInv, NEW c \in Caller, NEW u \in Url, GetFetch(c, u)
    PROVE  CacheInv'
<1> DEFINE new == [url |-> u, generation |-> generation,
                   urlGeneration |-> urlGeneration[u], epoch |-> epoch[u],
                   creator |-> c, state |-> "pending"]
<1>1. PICK f \in Fetch :
         /\ fetch[f] = None /\ fetch' = [fetch EXCEPT ![f] = new]
         /\ inFlight' = [inFlight EXCEPT ![u] = f]
         /\ waiting' = [waiting EXCEPT ![c] = f]
  BY DEF GetFetch
<1>2. /\ waiting[c] = None /\ inFlight[u] = None
      /\ wanted' = [wanted EXCEPT ![c] = epoch[u]]
      /\ got' = [got EXCEPT ![c] = None]
      /\ UNCHANGED <<now, cache, generation, urlGeneration, epoch>>
  BY DEF GetFetch, Joinable
<1>3. /\ new \in FetchRecord /\ new # None /\ new.url = u /\ new.generation = generation
      /\ new.urlGeneration = urlGeneration[u] /\ new.epoch = epoch[u]
      /\ new.creator = c /\ new.state = "pending"
  BY DiscoveryCacheAssumption DEF CacheInv, TypeOK, FetchRecord, FetchState
<1> HIDE DEF new
<1>4. TypeOK'
  BY <1>1, <1>2, <1>3 DEF CacheInv, TypeOK
<1>5. /\ fetch'[f] = new /\ \A g \in Fetch : g # f => fetch'[g] = fetch[g]
      /\ waiting'[c] = f /\ \A d \in Caller : d # c => waiting'[d] = waiting[d]
      /\ inFlight'[u] = f /\ \A v \in Url : v # u => inFlight'[v] = inFlight[v]
      /\ f # None
  BY <1>1, DiscoveryCacheAssumption DEF CacheInv, TypeOK
<1>6. Linked'
  <2>1. \A d \in Caller : waiting'[d] # None =>
           fetch'[waiting'[d]] # None /\ fetch'[waiting'[d]].epoch >= wanted'[d]
    BY <1>1, <1>2, <1>3, <1>5 DEF CacheInv, Linked, TypeOK
  <2>2. \A v \in Url : inFlight'[v] # None =>
           /\ fetch'[inFlight'[v]] # None /\ fetch'[inFlight'[v]].url = v
           /\ fetch'[inFlight'[v]].epoch = epoch'[v]
           /\ waiting'[fetch'[inFlight'[v]].creator] = inFlight'[v]
    BY <1>1, <1>2, <1>3, <1>5, FetchFields DEF CacheInv, Linked, TypeOK
  <2> QED
    BY <2>1, <2>2 DEF Linked
<1>7. \A g \in Fetch : fetch'[g] # None => Dated(g)'
  BY <1>1, <1>2, <1>3, <1>5 DEF CacheInv, Dated, TypeOK
<1>8. CurrentInFlight'
  <2> SUFFICES ASSUME NEW g \in Fetch, Pending(g)',
                      fetch'[g].epoch = epoch'[fetch'[g].url]
               PROVE  inFlight'[fetch'[g].url] = g
    BY DEF CurrentInFlight
  <2>1. CASE g = f
    BY <1>3, <1>5, <2>1
  <2>2. CASE g # f
    <3>1. fetch'[g] = fetch[g] /\ Pending(g) /\ fetch[g].url \in Url
      BY <1>5, <2>2, FetchFields DEF Pending, CacheInv
    <3>2. inFlight[fetch[g].url] = g /\ g # None
      BY <1>2, <3>1, DiscoveryCacheAssumption DEF CacheInv, CurrentInFlight
    <3> QED
      BY <1>2, <1>5, <3>1, <3>2
  <2> QED
    BY <2>1, <2>2
<1>9. NeverOlderThanClear'
  BY <1>2 DEF CacheInv, NeverOlderThanClear, TypeOK
<1>10. OneFetchPerEpoch'
  <2>1. \A g \in Fetch : ~(Pending(g) /\ fetch[g].url = u /\ fetch[g].epoch = epoch[u])
    BY <1>2, DiscoveryCacheAssumption DEF CacheInv, CurrentInFlight
  <2> QED
    BY <1>2, <1>3, <1>5, <2>1 DEF CacheInv, OneFetchPerEpoch, Pending
<1> QED
  BY <1>2, <1>4, <1>6, <1>7, <1>8, <1>9, <1>10 DEF CacheInv, CacheSurvivesNoClear

\* A fetch settles; only a document no clear has overtaken is stored.
LEMMA InvSettle ==
    ASSUME CacheInv, NEW f \in Fetch, Arrive(f) \/ Fail(f)
    PROVE  CacheInv'
<1> DEFINE u == fetch[f].url
<1>1. Pending(f) /\ u \in Url
  BY FetchFields DEF Arrive, Fail, CacheInv, Pending
<1>2. PICK s \in {"resolved", "rejected"} : fetch' = [fetch EXCEPT ![f].state = s]
  BY DEF Arrive, Fail
<1>3. /\ fetch'[f] \in FetchRecord /\ fetch'[f] # None
      /\ fetch'[f].state = s /\ fetch'[f].url = u
      /\ fetch'[f].generation = fetch[f].generation
      /\ fetch'[f].urlGeneration = fetch[f].urlGeneration
      /\ fetch'[f].epoch = fetch[f].epoch /\ fetch'[f].creator = fetch[f].creator
      /\ \A g \in Fetch : g # f => fetch'[g] = fetch[g]
  <2>1. fetch[f] \in FetchRecord
    BY <1>1 DEF Pending, CacheInv, TypeOK
  <2> DEFINE n == [fetch[f] EXCEPT !.state = s]
  <2>2. /\ n \in FetchRecord /\ n.state = s /\ n.url = u
        /\ n.generation = fetch[f].generation /\ n.urlGeneration = fetch[f].urlGeneration
        /\ n.epoch = fetch[f].epoch /\ n.creator = fetch[f].creator
    BY <2>1 DEF FetchRecord, FetchState
  <2>3. fetch' = [fetch EXCEPT ![f] = n]
    BY <1>2 DEF CacheInv, TypeOK
  <2> HIDE DEF n
  <2> QED
    BY <2>2, <2>3, DiscoveryCacheAssumption DEF CacheInv, TypeOK
<1>4. /\ UNCHANGED <<now, generation, urlGeneration, inFlight, waiting, wanted, got, epoch>>
      /\ \/ UNCHANGED cache
         \/ StillCurrent(f) /\ cache' = [cache EXCEPT ![u] = NewEntry(f)]
  BY DEF Arrive, Fail
<1>5. NewEntry(f) \in CacheEntry /\ NewEntry(f).epoch = fetch[f].epoch
  BY <1>1, FetchFields, DiscoveryCacheAssumption
     DEF NewEntry, CacheEntry, Pending, CacheInv, TypeOK
<1>6. TypeOK'
  <2>1. fetch' \in [Fetch -> FetchRecord \cup {None}]
    BY <1>2, <1>3 DEF CacheInv, TypeOK
  <2>2. cache' \in [Url -> CacheEntry \cup {None}]
    BY <1>1, <1>4, <1>5 DEF CacheInv, TypeOK
  <2> QED
    BY <1>4, <2>1, <2>2 DEF CacheInv, TypeOK
<1>7. Linked'
  BY <1>3, <1>4, FetchFields DEF CacheInv, Linked, TypeOK
<1>8. \A g \in Fetch : fetch'[g] # None => Dated(g)'
  BY <1>1, <1>3, <1>4 DEF CacheInv, Dated, Pending
<1>9. CurrentInFlight'
  BY <1>3, <1>4 DEF CacheInv, CurrentInFlight, Pending
<1>10. CacheSurvivesNoClear'
  BY <1>1, <1>4, <1>5, CurrentDocument DEF CacheInv, CacheSurvivesNoClear, TypeOK
<1>11. NeverOlderThanClear' /\ OneFetchPerEpoch'
  BY <1>3, <1>4 DEF CacheInv, NeverOlderThanClear, OneFetchPerEpoch, Pending
<1> QED
  BY <1>6, <1>7, <1>8, <1>9, <1>10, <1>11 DEF CacheInv

\* A caller gets the outcome of its promise.
LEMMA InvReturn ==
    ASSUME CacheInv, NEW c \in Caller, Return(c)
    PROVE  CacheInv'
<1> DEFINE f == waiting[c]
           u == fetch[f].url
<1>1. /\ f \in Fetch /\ f # None /\ fetch[f] # None /\ Settled(f)
      /\ fetch[f].epoch >= wanted[c] /\ u \in Url /\ fetch[f].epoch \in Nat
  BY FetchFields DEF Return, CacheInv, TypeOK, Linked
<1>2. /\ waiting' = [waiting EXCEPT ![c] = None]
      /\ got' = [got EXCEPT ![c] =
             IF fetch[f].state = "resolved" THEN fetch[f].epoch ELSE None]
      /\ inFlight' = [inFlight EXCEPT ![u] =
             IF fetch[f].creator = c /\ @ = f THEN None ELSE @]
      /\ fetch' = IF \E d \in Caller \ {c} : waiting[d] = f THEN fetch
                  ELSE [fetch EXCEPT ![f] = None]
      /\ UNCHANGED <<now, cache, generation, urlGeneration, wanted, epoch>>
  BY DEF Return
<1>3. TypeOK'
  BY <1>1, <1>2 DEF CacheInv, TypeOK
<1>4. /\ waiting'[c] = None /\ \A d \in Caller : d # c => waiting'[d] = waiting[d]
      /\ \A v \in Url : inFlight'[v] = inFlight[v] \/ inFlight'[v] = None
      /\ fetch[f].creator = c => inFlight'[u] # f
      /\ \A g \in Fetch : fetch'[g] = fetch[g] \/ (g = f /\ fetch'[g] = None)
  BY <1>1, <1>2 DEF CacheInv, TypeOK
<1>5. \A d \in Caller : d # c /\ waiting[d] = f => fetch'[f] = fetch[f]
  BY <1>2
<1>6. Linked'
  <2>1. \A d \in Caller : waiting'[d] # None =>
           fetch'[waiting'[d]] # None /\ fetch'[waiting'[d]].epoch >= wanted'[d]
    <3> SUFFICES ASSUME NEW d \in Caller, waiting'[d] # None
                 PROVE  fetch'[waiting[d]] = fetch[waiting[d]] /\ d # c
      BY <1>2, <1>4 DEF CacheInv, Linked
    <3>1. d # c /\ waiting[d] # None /\ waiting[d] \in Fetch
      BY <1>4 DEF CacheInv, TypeOK
    <3> QED
      BY <1>4, <1>5, <3>1
  <2>2. \A v \in Url : inFlight'[v] # None =>
           /\ fetch'[inFlight'[v]] # None /\ fetch'[inFlight'[v]].url = v
           /\ fetch'[inFlight'[v]].epoch = epoch'[v]
           /\ waiting'[fetch'[inFlight'[v]].creator] = inFlight'[v]
    <3> SUFFICES ASSUME NEW v \in Url, inFlight'[v] # None
                 PROVE  /\ fetch'[inFlight'[v]] # None /\ fetch'[inFlight'[v]].url = v
                        /\ fetch'[inFlight'[v]].epoch = epoch'[v]
                        /\ waiting'[fetch'[inFlight'[v]].creator] = inFlight'[v]
      OBVIOUS
    <3> DEFINE g == inFlight[v]
    <3>1. /\ inFlight'[v] = g /\ g \in Fetch /\ fetch[g] # None /\ fetch[g].url = v
          /\ fetch[g].epoch = epoch[v] /\ waiting[fetch[g].creator] = g
          /\ fetch[g].creator \in Caller
      BY <1>4, FetchFields DEF CacheInv, Linked, TypeOK
    <3>2. fetch[g].creator # c
      BY <1>4, <3>1
    <3>3. fetch'[g] = fetch[g]
      BY <1>4, <1>5, <3>1, <3>2
    <3> QED
      BY <1>2, <1>4, <3>1, <3>2, <3>3
  <2> QED
    BY <2>1, <2>2 DEF Linked
<1>7. \A g \in Fetch : fetch'[g] # None => Dated(g)'
  BY <1>2, <1>4 DEF CacheInv, Dated
<1>8. CurrentInFlight'
  <2> SUFFICES ASSUME NEW g \in Fetch, Pending(g)',
                      fetch'[g].epoch = epoch'[fetch'[g].url]
               PROVE  inFlight'[fetch'[g].url] = g
    BY DEF CurrentInFlight
  <2>1. fetch'[g] = fetch[g] /\ Pending(g)
    BY <1>4 DEF Pending
  <2>2. inFlight[fetch[g].url] = g /\ fetch[g].url \in Url /\ g # f
    BY <1>1, <1>2, <2>1, FetchFields DEF CacheInv, CurrentInFlight, Pending, Settled
  <2> QED
    BY <1>2, <2>1, <2>2 DEF CacheInv, TypeOK
<1>9. NeverOlderThanClear'
  BY <1>1, <1>2 DEF CacheInv, NeverOlderThanClear, TypeOK
<1>10. OneFetchPerEpoch'
  BY <1>4 DEF CacheInv, OneFetchPerEpoch, Pending
<1> QED
  BY <1>2, <1>3, <1>6, <1>7, <1>8, <1>9, <1>10 DEF CacheInv, CacheSurvivesNoClear

\* clear(url)
LEMMA InvClear ==
    ASSUME CacheInv, NEW u \in Url, Clear(u)
    PROVE  CacheInv'
<1>1. /\ cache' = [cache EXCEPT ![u] = None]
      /\ inFlight' = [inFlight EXCEPT ![u] = None]
      /\ urlGeneration' = [urlGeneration EXCEPT ![u] = @ + 1]
      /\ epoch' = [epoch EXCEPT ![u] = @ + 1]
      /\ UNCHANGED <<now, generation, fetch, waiting, wanted, got>>
  BY DEF Clear, WithoutInFlight
<1>2. TypeOK'
  BY <1>1 DEF CacheInv, TypeOK
<1>3. Linked'
  BY <1>1, FetchFields DEF CacheInv, Linked, TypeOK
<1>4. ASSUME NEW f \in Fetch, fetch'[f] # None PROVE Dated(f)'
  <2>1. /\ fetch'[f] = fetch[f] /\ Dated(f)
        /\ fetch[f].url \in Url /\ fetch[f].generation \in Nat
        /\ fetch[f].urlGeneration \in Nat /\ fetch[f].epoch \in Nat
    BY <1>1, <1>4, FetchFields DEF CacheInv
  <2>2. /\ epoch[fetch[f].url] \in Nat /\ urlGeneration[fetch[f].url] \in Nat
        /\ generation' = generation
    BY <1>1, <2>1 DEF CacheInv, TypeOK
  <2>3. \/ /\ epoch'[fetch[f].url] = epoch[fetch[f].url]
           /\ urlGeneration'[fetch[f].url] = urlGeneration[fetch[f].url]
        \/ /\ epoch'[fetch[f].url] = epoch[fetch[f].url] + 1
           /\ urlGeneration'[fetch[f].url] = urlGeneration[fetch[f].url] + 1
    BY <1>1, <2>1 DEF CacheInv, TypeOK
  <2> QED
    BY <2>1, <2>2, <2>3 DEF Dated
<1>5. CurrentInFlight'
  BY <1>1, <1>4, FetchFields DEF CacheInv, CurrentInFlight, Pending, Dated, TypeOK
<1>6. CacheSurvivesNoClear' /\ NeverOlderThanClear' /\ OneFetchPerEpoch'
  BY <1>1 DEF CacheInv, CacheSurvivesNoClear, NeverOlderThanClear, OneFetchPerEpoch,
     Pending, TypeOK
<1> QED
  BY <1>2, <1>3, <1>4, <1>5, <1>6 DEF CacheInv

\* clear()
LEMMA InvClearAll ==
    ASSUME CacheInv, ClearAll
    PROVE  CacheInv'
<1>1. /\ cache' = [u \in Url |-> None] /\ inFlight' = [u \in Url |-> None]
      /\ urlGeneration' = [u \in Url |-> 0] /\ generation' = generation + 1
      /\ epoch' = [u \in Url |-> epoch[u] + 1]
      /\ UNCHANGED <<now, fetch, waiting, wanted, got>>
  BY DEF ClearAll
<1>2. TypeOK'
  BY <1>1 DEF CacheInv, TypeOK
<1>3. Linked'
  BY <1>1 DEF CacheInv, Linked
<1>4. \A f \in Fetch : fetch'[f] # None =>
         Dated(f)' /\ fetch'[f].epoch < epoch'[fetch'[f].url]
  BY <1>1, FetchFields DEF CacheInv, Dated, TypeOK
<1>5. CurrentInFlight'
  <2> SUFFICES ASSUME NEW f \in Fetch, Pending(f)',
                      fetch'[f].epoch = epoch'[fetch'[f].url]
               PROVE  FALSE
    BY DEF CurrentInFlight
  <2>1. /\ fetch'[f] = fetch[f] /\ fetch[f] # None
        /\ fetch[f].url \in Url /\ fetch[f].epoch \in Nat
    BY <1>1, FetchFields DEF Pending, CacheInv
  <2>2. epoch'[fetch[f].url] \in Nat
    BY <1>2, <2>1 DEF TypeOK
  <2> QED
    BY <1>4, <2>1, <2>2
<1>6. CacheSurvivesNoClear' /\ NeverOlderThanClear' /\ OneFetchPerEpoch'
  BY <1>1 DEF CacheInv, CacheSurvivesNoClear, NeverOlderThanClear, OneFetchPerEpoch, Pending
<1> QED
  BY <1>2, <1>3, <1>4, <1>5, <1>6 DEF CacheInv

LEMMA InvOther ==
    ASSUME CacheInv, (\E u \in Url : Has(u)) \/ Tick \/ UNCHANGED vars
    PROVE  CacheInv'
<1>1. /\ cache' \in [Url -> CacheEntry \cup {None}]
      /\ \A u \in Url : cache'[u] # None => cache'[u] = cache[u]
      /\ now' \in Nat
      /\ UNCHANGED <<generation, urlGeneration, inFlight, fetch, waiting, wanted, got, epoch>>
  BY DEF Has, Tick, vars, CacheInv, TypeOK
<1>2. TypeOK'
  BY <1>1 DEF CacheInv, TypeOK
<1> QED
  BY <1>1, <1>2 DEF CacheInv, Linked, Dated, CurrentInFlight, Pending,
     CacheSurvivesNoClear, NeverOlderThanClear, OneFetchPerEpoch

LEMMA CacheNext == CacheInv /\ [Next]_vars => CacheInv'
BY InvGetCached, InvGetJoin, InvGetFetch, InvSettle, InvReturn, InvClear, InvClearAll,
   InvOther DEF Next, Get

LEMMA CacheInvariant == Spec => []CacheInv
BY CacheInit, CacheNext, PTL DEF Spec

--------------------------------------------------------------------------------
\* The fields of the cache (#cache, #inFlight, the two generations) and its
\* callers keep their types.
THEOREM CacheTypesHold == Spec => []TypeOK
<1>1. CacheInv => TypeOK
  BY DEF CacheInv
<1> QED
  BY <1>1, CacheInvariant, PTL

\* No get() ever returns a document whose fetch started before the last clear of
\* its URL that preceded the call: the two generation counters catch every
\* interleaving of clears, of both kinds, with pending and joined fetches.
THEOREM NeverOlderThanClearHolds == Spec => []NeverOlderThanClear
<1>1. CacheInv => NeverOlderThanClear
  BY DEF CacheInv
<1> QED
  BY <1>1, CacheInvariant, PTL

\* No document asked for before a clear is in the cache after it.
THEOREM CacheSurvivesNoClearHolds == Spec => []CacheSurvivesNoClear
<1>1. CacheInv => CacheSurvivesNoClear
  BY DEF CacheInv
<1> QED
  BY <1>1, CacheInvariant, PTL

\* Concurrent gets of a URL share one fetch until a clear.
THEOREM OneFetchPerEpochHolds == Spec => []OneFetchPerEpoch
<1>1. CacheInv => OneFetchPerEpoch
  BY DEF CacheInv
<1> QED
  BY <1>1, CacheInvariant, PTL
================================================================================
