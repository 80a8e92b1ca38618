-------------------------- MODULE ClientMetadataProofs --------------------------
(***************************************************************************)
(* Safety of ClientIdMetadataResolver for every number of clients, calls   *)
(* and documents, and all lifetimes and timeouts.                          *)
(***************************************************************************)
EXTENDS ClientMetadata, TLAPS

--------------------------------------------------------------------------------
\* A call that has an answer, or waits for one, has a client; one that has
\* heard from the origin has a version.
Located ==
    \A r \in Slot :
        /\ req[r].step # "idle" => req[r].client \in Client
        /\ req[r].step \in {"reading", "answered"} => req[r].version \in Version

\* Only replaced documents age.
Unreplaced ==
    \A c \in Client, v \in Version : current[c] <= v => age[c][v] = 0

\* What is left of a cached document's time is taken from its age.
CacheFresh ==
    \A c \in Client : Hit(c) =>
        age[c][cache[c].version] + cache[c].left
            <= TtlOf(doc[c][cache[c].version].ttl) + Timeout

\* The origin answers a fetch after it began.
FetchFresh ==
    \A r \in Slot : req[r].step = "reading" =>
        age[req[r].client][req[r].version] <= req[r].elapsed

FreshInv ==
    /\ TypeOK
    /\ Located
    /\ Unreplaced
    /\ CacheFresh
    /\ FetchFresh
    /\ AnswersAreFresh

--------------------------------------------------------------------------------
LEMMA FreshInit == Init => FreshInv
BY ClientMetadataAssumption
   DEF Init, FreshInv, TypeOK, Located, Unreplaced, CacheFresh, FetchFresh,
       AnswersAreFresh, Hit, Idle, Call, Version

LEMMA Constants ==
    /\ MaxVersion \in Nat \ {0} /\ Horizon \in Nat
    /\ DefaultTtl \in Nat /\ Timeout \in Nat \ {0}
    /\ \A t \in Lifetime : t \in Nat
BY ClientMetadataAssumption

LEMMA TtlType ==
    ASSUME TypeOK, NEW c \in Client, NEW v \in Version
    PROVE  TtlOf(doc[c][v].ttl) \in Nat
<1>1. doc[c][v].ttl \in Ttl
  BY DEF TypeOK, Document
<1> QED
  BY <1>1, Constants DEF Ttl, TtlOf

LEMMA CallFields ==
    ASSUME TypeOK, NEW r \in Slot
    PROVE  /\ req[r] \in Call
           /\ req[r].step \in {"idle", "fetching", "reading", "answered"}
           /\ req[r].elapsed \in Nat /\ req[r].elapsed <= Timeout
           /\ req[r].late \in Nat
BY Constants DEF TypeOK, Call

\* The calls that have begun, and that have an answer.
LEMMA NewFetch ==
    ASSUME NEW c \in Client, NEW q, q = [Idle EXCEPT !.step = "fetching", !.client = c]
    PROVE  q \in Call /\ q.step = "fetching" /\ q.client = c
<1>1. q = [step |-> "fetching", client |-> c, elapsed |-> 0,
           version |-> None, late |-> 0]
  BY DEF Idle
<1>2. 0 \in 0 .. Timeout /\ 0 \in Nat
  BY Constants
<1> QED
  BY <1>1, <1>2 DEF Call

Answered(c, v, a) ==
    [Idle EXCEPT !.step = "answered", !.client = c, !.version = v, !.late = a]

LEMMA NewAnswer ==
    ASSUME NEW c \in Client, NEW v \in Version, NEW a \in Nat
    PROVE  /\ Answered(c, v, a) \in Call
           /\ Answered(c, v, a).step = "answered"
           /\ Answered(c, v, a).client = c
           /\ Answered(c, v, a).version = v
           /\ Answered(c, v, a).late = a
<1>1. Answered(c, v, a) = [step |-> "answered", client |-> c, elapsed |-> 0,
                           version |-> v, late |-> a]
  <2> SUFFICES ASSUME NEW q, q = Answered(c, v, a)
               PROVE  q = [step |-> "answered", client |-> c, elapsed |-> 0,
                           version |-> v, late |-> a]
    OBVIOUS
  <2> QED
    BY DEF Idle, Answered
<1>2. 0 \in 0 .. Timeout /\ 0 \in Nat
  BY Constants
<1> QED
  BY <1>1, <1>2 DEF Call

\* A step that changes one call and keeps the documents and the cache.
LEMMA FreshOneCall ==
    ASSUME FreshInv, NEW r \in Slot, NEW q \in Call, Becomes(r, q),
           UNCHANGED <<current, doc, age, cache>>,
           q.step # "idle" => q.client \in Client,
           q.step \in {"reading", "answered"} => q.version \in Version,
           q.step = "reading" => age[q.client][q.version] <= q.elapsed,
           q.step = "answered" =>
               q.late <= TtlOf(doc[q.client][q.version].ttl) + Timeout
    PROVE  FreshInv'
<1>1. req' = [req EXCEPT ![r] = q] /\ req \in [Slot -> Call]
  BY DEF Becomes, FreshInv, TypeOK
<1>2. req'[r] = q /\ \A s \in Slot : s # r => req'[s] = req[s]
  BY <1>1
<1>3. TypeOK'
  BY <1>1 DEF FreshInv, TypeOK
<1>4. Located' /\ FetchFresh'
  BY <1>2 DEF FreshInv, Located, FetchFresh
<1>5. AnswersAreFresh'
  BY <1>2 DEF FreshInv, AnswersAreFresh, TtlOf
<1>6. Unreplaced' /\ CacheFresh'
  BY DEF FreshInv, Unreplaced, CacheFresh, Hit
<1> QED
  BY <1>3, <1>4, <1>5, <1>6 DEF FreshInv

LEMMA IdleCall == Idle \in Call /\ Idle.step = "idle"
BY Constants DEF Idle, Call

\* A document young enough may be given.
LEMMA FreshGiven ==
    ASSUME FreshInv, NEW r \in Slot, NEW c \in Client, NEW v \in Version,
           Given(r, c, v), UNCHANGED <<current, doc, age, cache>>,
           age[c][v] <= TtlOf(doc[c][v].ttl) + Timeout
    PROVE  FreshInv'
<1> DEFINE q == Answered(c, v, age[c][v])
<1>1. CASE Accepts(doc[c][v])
  <2>1. age[c][v] \in Nat
    BY Constants DEF FreshInv, TypeOK
  <2>2. /\ q \in Call /\ q.step = "answered" /\ q.client = c /\ q.version = v
        /\ q.late = age[c][v]
    BY <2>1, NewAnswer
  <2>3. Becomes(r, q)
    BY <1>1 DEF Given, Answered
  <2> HIDE DEF q
  <2> QED
    BY <1>1, <2>2, <2>3, FreshOneCall DEF Accepts
<1>2. CASE ~Accepts(doc[c][v])
  BY <1>2, IdleCall, FreshOneCall DEF Given
<1> QED
  BY <1>1, <1>2

LEMMA FreshFromCache ==
    ASSUME FreshInv, NEW r \in Slot, NEW c \in Client, FromCache(r, c)
    PROVE  FreshInv'
<1> DEFINE v == cache[c].version
<1>1. v \in Version /\ cache[c].left \in Nat /\ age[c][v] \in Nat
  BY Constants
     DEF FreshInv, TypeOK, FromCache, Hit, CacheEntry
<1>2. age[c][v] + cache[c].left <= TtlOf(doc[c][v].ttl) + Timeout
  BY DEF FreshInv, CacheFresh, FromCache
<1>3. TtlOf(doc[c][v].ttl) \in Nat
  BY <1>1, TtlType DEF FreshInv
<1>4. age[c][v] <= TtlOf(doc[c][v].ttl) + Timeout
  BY <1>1, <1>2, <1>3, Constants
<1> QED
  BY <1>1, <1>4, FreshGiven DEF FromCache

LEMMA FreshBeginFetch ==
    ASSUME FreshInv, NEW r \in Slot, NEW c \in Client, BeginFetch(r, c)
    PROVE  FreshInv'
<1> DEFINE q == [Idle EXCEPT !.step = "fetching", !.client = c]
<1>1. q \in Call /\ q.step = "fetching" /\ q.client = c
  BY NewFetch
<1> QED
  BY <1>1, FreshOneCall DEF BeginFetch

LEMMA FreshOriginAnswers ==
    ASSUME FreshInv, NEW r \in Slot, OriginAnswers(r)
    PROVE  FreshInv'
<1> DEFINE c == req[r].client
           q == [req[r] EXCEPT !.step = "reading", !.version = current[c]]
<1>1. c \in Client /\ current[c] \in Version
  BY DEF FreshInv, Located, TypeOK, OriginAnswers
<1>2. /\ q \in Call /\ q.step = "reading" /\ q.client = c
      /\ q.version = current[c] /\ q.elapsed = req[r].elapsed
  BY <1>1, CallFields DEF FreshInv, Call
<1>3. age[c][current[c]] = 0
  BY <1>1 DEF FreshInv, Unreplaced, Version
<1>4. age[q.client][q.version] <= q.elapsed
  BY <1>2, <1>3, CallFields DEF FreshInv
<1>5. Becomes(r, q) /\ UNCHANGED <<current, doc, age, cache>>
  BY DEF OriginAnswers
<1> HIDE DEF q
<1> QED
  BY <1>1, <1>2, <1>4, <1>5, FreshOneCall

\* The body arrives within the timeout of a fetch that began before the
\* document was served.
LEMMA FreshBodyRead ==
    ASSUME FreshInv, NEW r \in Slot, BodyRead(r)
    PROVE  FreshInv'
<1> DEFINE c == req[r].client
           v == req[r].version
           ttl == TtlOf(doc[c][v].ttl)
<1>1. c \in Client /\ v \in Version
  BY DEF FreshInv, Located, BodyRead
<1>2. ttl \in Nat /\ age[c][v] \in Nat /\ age[c][v] <= Timeout
  <2>1. age[c][v] <= req[r].elapsed /\ age[c][v] \in Nat
    BY <1>1, Constants DEF FreshInv, FetchFresh, BodyRead, TypeOK
  <2> QED
    BY <1>1, <2>1, TtlType, CallFields, Constants DEF FreshInv
<1>3. \/ UNCHANGED cache
      \/ cache' = [cache EXCEPT ![c] = [version |-> v, left |-> ttl]]
  BY DEF BodyRead
<1> DEFINE q == Answered(c, v, age[c][v])
<1>4. /\ q \in Call /\ q.step = "answered" /\ q.client = c /\ q.version = v
      /\ q.late = age[c][v]
  BY <1>1, <1>2, NewAnswer
<1>5. \/ Becomes(r, q)
      \/ Becomes(r, Idle)
  BY DEF BodyRead, Given, Accepts, Answered
<1> HIDE DEF q
<1>6. PICK p \in Call :
         /\ Becomes(r, p)
         /\ \/ p.step = "idle"
            \/ /\ p.step = "answered" /\ p.client = c /\ p.version = v
               /\ p.late = age[c][v]
  BY <1>4, <1>5, IdleCall
<1>7. req' = [req EXCEPT ![r] = p] /\ req \in [Slot -> Call]
      /\ UNCHANGED <<current, doc, age>>
  BY <1>6 DEF Becomes, BodyRead, FreshInv, TypeOK
<1>8. req'[r] = p /\ \A s \in Slot : s # r => req'[s] = req[s]
  BY <1>7
<1>9. cache' \in [Client -> CacheEntry \cup {None}]
  BY <1>1, <1>2, <1>3 DEF FreshInv, TypeOK, CacheEntry
<1>10. TypeOK'
  BY <1>7, <1>9 DEF FreshInv, TypeOK
<1>11. Located' /\ FetchFresh'
  BY <1>1, <1>6, <1>7, <1>8 DEF FreshInv, Located, FetchFresh
<1>12. AnswersAreFresh'
  <2>1. age[c][v] <= ttl + Timeout
    BY <1>2, Constants
  <2> QED
    BY <1>6, <1>7, <1>8, <2>1 DEF FreshInv, AnswersAreFresh, TtlOf
<1>13. CacheFresh'
  <2>1. age[c][v] + ttl <= ttl + Timeout
    BY <1>2, Constants
  <2>2. CASE UNCHANGED cache
    BY <1>7, <2>2 DEF FreshInv, CacheFresh, Hit
  <2>3. CASE cache' = [cache EXCEPT ![c] = [version |-> v, left |-> ttl]]
    <3>1. /\ cache'[c] = [version |-> v, left |-> ttl]
          /\ \A d \in Client : d # c => cache'[d] = cache[d]
      BY <1>1, <2>3 DEF FreshInv, TypeOK
    <3>2. cache'[c].version = v /\ cache'[c].left = ttl
      BY <3>1
    <3> HIDE DEF ttl
    <3>3. ttl = TtlOf(doc[c][v].ttl)
      BY DEF ttl
    <3> QED
      BY <1>7, <2>1, <3>1, <3>2, <3>3 DEF FreshInv, CacheFresh, Hit
  <2> QED
    BY <1>3, <2>2, <2>3
<1>14. Unreplaced'
  BY <1>7 DEF FreshInv, Unreplaced
<1> QED
  BY <1>10, <1>11, <1>12, <1>13, <1>14 DEF FreshInv

LEMMA FreshGivenUp ==
    ASSUME FreshInv, NEW r \in Slot, FetchFails(r) \/ FetchTimesOut(r) \/ Return(r)
    PROVE  FreshInv'
BY IdleCall, FreshOneCall DEF FetchFails, FetchTimesOut, Return

LEMMA FreshClearCache ==
    ASSUME FreshInv, ClearCache
    PROVE  FreshInv'
BY DEF ClearCache, FreshInv, TypeOK, Located, Unreplaced, CacheFresh, FetchFresh,
       AnswersAreFresh, Hit

LEMMA FreshPublish ==
    ASSUME FreshInv, NEW c \in Client, Publish(c)
    PROVE  FreshInv'
<1>1. /\ current[c] \in Version /\ current[c] < MaxVersion
      /\ current' = [current EXCEPT ![c] = current[c] + 1]
      /\ UNCHANGED <<doc, age, cache, req>>
  BY DEF Publish, FreshInv, TypeOK
<1>2. TypeOK'
  BY <1>1, Constants DEF FreshInv, TypeOK, Version
<1>3. \A d \in Client : current[d] \in Nat /\ current'[d] \in Nat /\ current[d] <= current'[d]
  BY <1>1 DEF FreshInv, TypeOK, Version
<1>4. Unreplaced'
  BY <1>1, <1>3 DEF FreshInv, Unreplaced, Version
<1> QED
  BY <1>1, <1>2, <1>4 DEF FreshInv, Located, CacheFresh, FetchFresh,
     AnswersAreFresh, Hit

\* A replaced document gets older by a tick, what is left of its time in the
\* cache shrinks by one, and the fetches that may have served it grow by one:
\* none of them is at its timeout.
LEMMA FreshTick ==
    ASSUME FreshInv, Tick
    PROVE  FreshInv'
<1>1. \A c \in Client, v \in Version :
         /\ age[c][v] \in Nat /\ age[c][v] <= Horizon
         /\ age'[c][v] = Older(c, v)
         /\ age'[c][v] \in 0 .. Horizon /\ age'[c][v] <= age[c][v] + 1
         /\ current[c] <= v => age'[c][v] = age[c][v]
  BY Constants DEF Tick, FreshInv, TypeOK, Older, Version
<1>2. \A c \in Client :
         IF Hit(c)
         THEN /\ cache[c] \in CacheEntry /\ cache[c].left \in Nat
              /\ cache'[c] = [cache[c] EXCEPT !.left = cache[c].left - 1]
              /\ cache'[c] \in CacheEntry
              /\ cache'[c].version = cache[c].version
              /\ cache'[c].left = cache[c].left - 1
         ELSE cache'[c] = cache[c]
  BY DEF Tick, FreshInv, TypeOK, Hit, CacheEntry
<1>3. \A r \in Slot :
         IF InFlight(req[r])
         THEN /\ req'[r] = [req[r] EXCEPT !.elapsed = req[r].elapsed + 1]
              /\ req[r].elapsed + 1 \in 0 .. Timeout
         ELSE req'[r] = req[r]
  <2> TAKE r \in Slot
  <2>1. req'[r] = IF InFlight(req[r])
                  THEN [req[r] EXCEPT !.elapsed = Longer(req[r].elapsed)] ELSE req[r]
    BY DEF Tick
  <2>2. InFlight(req[r]) => req[r].elapsed # Timeout
    BY DEF Tick, Due
  <2>3. req[r].elapsed \in Nat /\ req[r].elapsed <= Timeout
    BY CallFields DEF FreshInv
  <2> QED
    BY <2>1, <2>2, <2>3, Constants DEF Longer
<1>4. \A r \in Slot :
         /\ req'[r] \in Call /\ req'[r].step = req[r].step
         /\ req'[r].client = req[r].client /\ req'[r].version = req[r].version
         /\ req'[r].late = req[r].late
         /\ req[r].step = "reading" => req'[r].elapsed = req[r].elapsed + 1
  BY <1>3, CallFields DEF FreshInv, Call, InFlight
<1>5. TypeOK'
  <2>1. age' \in [Client -> [Version -> 0 .. Horizon]]
    BY <1>1 DEF Tick
  <2>2. cache' \in [Client -> CacheEntry \cup {None}]
    BY <1>2 DEF Tick, FreshInv, TypeOK
  <2>3. req' \in [Slot -> Call]
    BY <1>4 DEF Tick
  <2> QED
    BY <2>1, <2>2, <2>3 DEF Tick, FreshInv, TypeOK
<1>6. UNCHANGED <<current, doc>>
  BY DEF Tick
<1>7. Located' /\ AnswersAreFresh'
  BY <1>4, <1>6 DEF FreshInv, Located, AnswersAreFresh
<1>8. Unreplaced'
  BY <1>1, <1>6 DEF FreshInv, Unreplaced
<1>9. FetchFresh'
  <2> SUFFICES ASSUME NEW r \in Slot, req'[r].step = "reading"
               PROVE  age'[req[r].client][req[r].version] <= req[r].elapsed + 1
    BY <1>4 DEF FetchFresh
  <2>1. req[r].step = "reading"
    BY <1>4
  <2>2. req[r].client \in Client /\ req[r].version \in Version
    BY <2>1 DEF FreshInv, Located
  <2>3. age[req[r].client][req[r].version] <= req[r].elapsed
    BY <2>1 DEF FreshInv, FetchFresh
  <2> QED
    BY <1>1, <2>2, <2>3, CallFields DEF FreshInv
<1>10. CacheFresh'
  <2> SUFFICES ASSUME NEW c \in Client, Hit(c)'
               PROVE  age'[c][cache'[c].version] + cache'[c].left
                          <= TtlOf(doc[c][cache'[c].version].ttl) + Timeout
    BY <1>6 DEF CacheFresh, TtlOf
  <2>1. Hit(c)
    BY <1>2 DEF Hit
  <2>2. /\ cache[c].version \in Version /\ cache[c].left \in Nat
        /\ cache'[c].version = cache[c].version
        /\ cache'[c].left = cache[c].left - 1
    BY <1>2, <2>1 DEF CacheEntry
  <2>3. age[c][cache[c].version] + cache[c].left
            <= TtlOf(doc[c][cache[c].version].ttl) + Timeout
    BY <2>1 DEF FreshInv, CacheFresh
  <2>4. TtlOf(doc[c][cache[c].version].ttl) \in Nat
    BY <2>2, TtlType DEF FreshInv
  <2>5. /\ age'[c][cache[c].version] \in Nat /\ age[c][cache[c].version] \in Nat
        /\ age'[c][cache[c].version] <= age[c][cache[c].version] + 1
    BY <1>1, <2>2, Constants
  <2> QED
    BY <2>2, <2>3, <2>4, <2>5, Constants
<1> QED
  BY <1>5, <1>7, <1>8, <1>9, <1>10 DEF FreshInv

LEMMA FreshNext == FreshInv /\ [Next]_vars => FreshInv'
<1> SUFFICES ASSUME FreshInv, [Next]_vars PROVE FreshInv'
  OBVIOUS
<1>1. CASE \E r \in Slot, c \in Client : FromCache(r, c) \/ BeginFetch(r, c)
  BY <1>1, FreshFromCache, FreshBeginFetch
<1>2. CASE \E r \in Slot : \/ OriginAnswers(r) \/ BodyRead(r) \/ FetchFails(r)
                           \/ FetchTimesOut(r) \/ Return(r)
  BY <1>2, FreshOriginAnswers, FreshBodyRead, FreshGivenUp
<1>3. CASE ClearCache \/ (\E c \in Client : Publish(c)) \/ Tick
  BY <1>3, FreshClearCache, FreshPublish, FreshTick
<1>4. CASE UNCHANGED vars
  BY <1>4 DEF vars, FreshInv, TypeOK, Located, Unreplaced, CacheFresh, FetchFresh,
     AnswersAreFresh, Hit
<1> QED
  BY <1>1, <1>2, <1>3, <1>4 DEF Next

--------------------------------------------------------------------------------
\* Cache, fetches and answers keep their types: whatever is cached or answered
\* is a document that the client's URL served (ClientIdMetadataResolver).
THEOREM MetadataTypesHold == Spec => []TypeOK
<1>1. FreshInv => TypeOK
  BY DEF FreshInv
<1> QED
  BY <1>1, FreshInit, FreshNext, PTL DEF Spec

\* However many fetches of a client overlap and in whatever order they end, a
\* document that was replaced is answered no longer than for the lifetime it
\* was served with and the time of a fetch (ClientIdMetadataResolver.resolve).
THEOREM AnswersAreFreshHolds == Spec => []AnswersAreFresh
<1>1. FreshInv => AnswersAreFresh
  BY DEF FreshInv
<1> QED
  BY <1>1, FreshInit, FreshNext, PTL DEF Spec
================================================================================
