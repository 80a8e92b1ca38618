------------------------------- MODULE TokenSwap -------------------------------
(***************************************************************************)
(* The token-swap pattern of auth/OAuthProxy.ts: instead of the upstream   *)
(* tokens a client gets JWTs of the proxy, whose jti maps to a stored      *)
(* upstream token set.  Modelled are the records that issueSwappedTokens   *)
(* writes after a code exchange, the rotation of a refresh token           *)
(* (handleSwapModeRefresh, issueSwappedTokensForRefresh) with its          *)
(* hand-back of the refresh token on failure (restoreMapping), and the     *)
(* upstream provider as the proxy sees it.  One step per awaited call.     *)
(*                                                                         *)
(* A grant is one upstream token set, stored under its key; its contents   *)
(* are abstracted to the generation of the upstream refresh token in it.   *)
(* Random ids are modelled by counting: the n-th JWT has jti n.  Clients   *)
(* present the tokens they were sent, as often and as concurrently as they *)
(* like: verify() checks no token type, so any of them, an access token    *)
(* included, can be redeemed as a refresh token.                           *)
(***************************************************************************)
EXTENDS Naturals

CONSTANTS
    MaxGrants, MaxJwts, \* bounds on the code exchanges and the JWTs issued
    Instance, Slot,     \* proxy processes, concurrent requests
    None,               \* absence of a value
    Lifetime,           \* lifetimes the tokens may have
    MaxRotations,       \* bound on the upstream rotations of a grant
    Deployment          \* what the proxy is deployed with

\* rotates: the upstream replaces its refresh token on use.  reliable: storage
\* calls and processes never fail.  prompt: the saves of one response fit in
\* one tick.  atomicTake: the token storage implements take().  lifetimes:
\* what the upstream may give a token.  jwts and maxTime: bounds on the JWTs
\* issued and on the clock.
DeploymentRecord ==
    [rotates: BOOLEAN, reliable: BOOLEAN, prompt: BOOLEAN, atomicTake: BOOLEAN,
     lifetimes: SUBSET Lifetime, jwts: 0 .. MaxJwts, maxTime: Nat]

\* An upstream record: the generation of its refresh token, if it has one.
RecordInfo == [gen: Nat, renewable: BOOLEAN, exp: Nat]

ASSUME TokenSwapAssumption ==
    /\ MaxGrants \in Nat /\ MaxJwts \in Nat /\ MaxRotations \in Nat
    /\ Lifetime \subseteq Nat \ {0}
    /\ Deployment \subseteq DeploymentRecord
    /\ None \notin Instance \cup Nat \cup RecordInfo

Grant == 1 .. MaxGrants
Jti == 1 .. MaxJwts

VARIABLES
    env,     \* the deployment, which never changes
    now,     \* the clock
    grants,  \* upstream token keys drawn so far
    token,   \* token[j]: kind, grant, chain and expiry of the JWT with id j
    issued,  \* JWTs issued so far
    mapped,  \* jtis with a mapping: record in the storage
    record,  \* record[g]: the upstream: record of grant g in the storage
    current, \* current[g]: the generation the upstream provider accepts
    req,     \* the request each slot is handling
    sent,    \* jtis of tokens sent to a client
    answers  \* answers[j]: token responses given for token j

vars == <<env, now, grants, token, issued, mapped, record, current, req, sent, answers>>

--------------------------------------------------------------------------------
\* The awaited call a handler is suspended at.
Step == {"idle", "saveRecord", "saveAccess", "saveRefresh",
         "take", "load", "callUpstream", "restore"}

\* The saves that make up one token response.
Issuing == {"saveRecord", "saveAccess", "saveRefresh"}

\* from: the token being redeemed, None for a code exchange.
\* gen: the upstream refresh token at hand.  renewable: there is one.
\* access: the access token already issued.  chain: a history value, what the
\* rotation goes back to: 0 for the code exchange, j for access token j.
Request == [step: Step, at: Instance \cup {None}, grant: Nat, chain: Nat,
            from: Jti \cup {None}, gen: Nat, renewable: BOOLEAN,
            aTtl: Nat, rTtl: Nat, access: Jti \cup {None}]

Idle == [step |-> "idle", at |-> None, grant |-> 0, chain |-> 0, from |-> None,
         gen |-> 0, renewable |-> FALSE, aTtl |-> 0, rTtl |-> 0, access |-> None]

TokenInfo == [kind: {"access", "refresh"}, grant: Grant, chain: Nat, exp: Nat]

Reply(r) == req' = [req EXCEPT ![r] = Idle]
Goto(r, step) == req' = [req EXCEPT ![r].step = step]

--------------------------------------------------------------------------------
(* Plausible slips in the code, each the body of one definition below; the  *)
(* properties have to notice them.                                          *)

\* The mapping is only read, not taken.
MappingKept(j) == mapped
\* The upstream record gets the refresh token's lifetime only.
RefreshTtlOnly(a, r) == r
\* The mapping is put back without its jti.
RestoredAnonymously(j) == mapped \cup {None}
\* A failed rotation does not put the mapping back.
NotRestored(j) == mapped

--------------------------------------------------------------------------------
\* takeMapping: the removal, by take() or by the delete() after the get().
MappingTaken(j) == mapped \ {j}

\* restoreMapping: put back with the lifetime it has left, dropped if none.
MappingRestored(j) == IF token[j].exp > now THEN mapped \cup {j} ELSE mapped

\* JWTIssuer.verify: a token is refused from its exp on.
JwtValid(j) == token[j].exp > now

\* upstreamStorageTtl: the longest-lived of the tokens issued with the record.
RecordTtl(a, r) == IF a > r THEN a ELSE r

\* TokenStorage.get: an expired record is not returned.
RecordFound(g) == record[g] # None /\ record[g].exp >= now

\* loadUpstreamTokens: the mapping of the JWT and the record it names.
Resolves(j) == j \in mapped /\ RecordFound(token[j].grant)

\* TokenStorage.cleanup removes what expired.
MappingSwept(j) == token[j].exp < now

--------------------------------------------------------------------------------
TypeOK ==
    /\ env \in Deployment
    /\ now \in Nat
    /\ grants \in 0 .. MaxGrants
    /\ issued \in 0 .. MaxJwts
    /\ token \in [1 .. issued -> TokenInfo]
    /\ mapped \subseteq 1 .. issued
    /\ record \in [Grant -> RecordInfo \cup {None}]
    /\ current \in [Grant -> Nat]
    /\ req \in [Slot -> Request]
    /\ sent \subseteq 1 .. issued
    /\ answers \in [Jti -> Nat]

Init ==
    /\ env \in Deployment
    /\ now = 0 /\ grants = 0 /\ issued = 0
    /\ token = [j \in 1 .. 0 |-> None]
    /\ mapped = {} /\ sent = {}
    /\ record = [g \in Grant |-> None]
    /\ current = [g \in Grant |-> 0]
    /\ req = [r \in Slot |-> Idle]
    /\ answers = [j \in Jti |-> 0]

--------------------------------------------------------------------------------
(* issueSwappedTokens, entered from exchangeAuthorizationCode: the upstream  *)
(* token set is stored under a fresh key, then each JWT gets its mapping.    *)

CodeExchanged(r, i, renewable, a, rt) ==
    /\ grants < MaxGrants
    /\ grants' = grants + 1
    /\ req[r] = Idle
    /\ req' = [req EXCEPT ![r] =
           [Idle EXCEPT !.step = "saveRecord", !.at = i, !.grant = grants + 1,
                        !.renewable = renewable, !.aTtl = a,
                        !.rTtl = IF renewable THEN rt ELSE 0]]
    /\ UNCHANGED <<env, now, token, issued, mapped, record, current, sent, answers>>

\* The upstream record, on first issuance and on rotation.
SaveRecord(r) ==
    /\ req[r].step = "saveRecord"
    /\ record' = [record EXCEPT ![req[r].grant] =
           [gen |-> req[r].gen, renewable |-> req[r].renewable,
            exp |-> now + RecordTtl(req[r].aTtl, req[r].rTtl)]]
    /\ Goto(r, "saveAccess")
    /\ UNCHANGED <<env, now, grants, token, issued, mapped, current, sent, answers>>

\* A JWT of the given kind is issued and its mapping saved.
IssueJwt(kind, r, ttl) ==
    /\ issued < env.jwts
    /\ issued' = issued + 1
    /\ token' = [j \in 1 .. issued + 1 |->
           IF j = issued + 1
           THEN [kind |-> kind, grant |-> req[r].grant, chain |-> req[r].chain,
                 exp |-> now + ttl]
           ELSE token[j]]
    /\ mapped' = mapped \cup {issued + 1}

\* The token response with these JWTs.
Respond(r, jwts) ==
    /\ sent' = sent \cup jwts
    /\ answers' = IF req[r].from = None THEN answers
                  ELSE [answers EXCEPT ![req[r].from] = @ + 1]
    /\ Reply(r)

\* What a rejected call of handler r leads to: a rotation puts the refresh
\* token back, a code exchange just throws.
Fail(r) ==
    IF req[r].from # None THEN Goto(r, "restore") ELSE Reply(r)

SaveAccess(r) ==
    /\ req[r].step = "saveAccess"
    /\ IssueJwt("access", r, req[r].aTtl)
    /\ IF req[r].renewable
       THEN /\ req' = [req EXCEPT ![r].step = "saveRefresh", ![r].access = issued + 1]
            /\ UNCHANGED <<sent, answers>>
       ELSE Respond(r, {issued + 1})
    /\ UNCHANGED <<env, now, grants, record, current>>

\* The save may take effect and still be reported as failed.
SaveRefresh(r) ==
    /\ req[r].step = "saveRefresh"
    /\ IssueJwt("refresh", r, req[r].rTtl)
    /\ \/ Respond(r, {req[r].access, issued + 1})
       \/ ~env.reliable /\ Fail(r) /\ UNCHANGED <<sent, answers>>
    /\ UNCHANGED <<env, now, grants, record, current>>

--------------------------------------------------------------------------------
(* handleSwapModeRefresh *)

\* The chain that redeeming token j continues or starts.
ChainOf(j) == IF token[j].kind = "access" THEN j ELSE token[j].chain

Claimed(r, i, j) ==
    /\ mapped' = MappingTaken(j)
    /\ req' = [req EXCEPT ![r] =
           [Idle EXCEPT !.step = "load", !.at = i, !.grant = token[j].grant,
                        !.chain = ChainOf(j), !.from = j]]

\* takeMapping.  A token without a mapping is refused, which changes nothing.
Refresh(r, i, j) ==
    /\ j \in sent /\ JwtValid(j)
    /\ j \in mapped
    /\ req[r] = Idle
    /\ IF env.atomicTake THEN Claimed(r, i, j)
       ELSE /\ req' = [req EXCEPT ![r] =
                   [Idle EXCEPT !.step = "take", !.at = i, !.from = j]]
            /\ UNCHANGED mapped
    /\ UNCHANGED <<env, now, grants, token, issued, record, current, sent, answers>>

\* The delete() of the fallback.
FinishTake(r) ==
    /\ req[r].step = "take"
    /\ Claimed(r, req[r].at, req[r].from)
    /\ UNCHANGED <<env, now, grants, token, issued, record, current, sent, answers>>

\* The stored upstream tokens; without them, or without a refresh token among
\* them, the rotation fails.
Load(r) ==
    LET g == req[r].grant IN
    /\ req[r].step = "load"
    /\ IF RecordFound(g) /\ record[g].renewable
       THEN req' = [req EXCEPT ![r].step = "callUpstream", ![r].gen = record[g].gen]
       ELSE Fail(r)
    /\ UNCHANGED <<env, now, grants, token, issued, mapped, record, current, sent, answers>>

\* refreshUpstreamTokens.  The provider refuses a superseded refresh token and
\* replaces the one it accepts if it rotates; the answer may be lost to the
\* timeout.  Refusals and failures before the provider acted: see CallFails.
CallUpstream(r) ==
    LET g == req[r].grant
        next == IF env.rotates THEN current[g] + 1 ELSE current[g] IN
    /\ req[r].step = "callUpstream"
    /\ req[r].gen = current[g]
    /\ next <= MaxRotations
    /\ current' = [current EXCEPT ![g] = next]
    /\ \/ \E a, rt \in env.lifetimes :
             req' = [req EXCEPT ![r] =
                 [@ EXCEPT !.step = "saveRecord", !.gen = next,
                           !.renewable = TRUE, !.aTtl = a, !.rTtl = rt]]
       \/ Fail(r)
    /\ UNCHANGED <<env, now, grants, token, issued, mapped, record, sent, answers>>

\* restoreMapping; its own failure is only logged (CallFails).
Restore(r) ==
    /\ req[r].step = "restore"
    /\ mapped' = MappingRestored(req[r].from)
    /\ Reply(r)
    /\ UNCHANGED <<env, now, grants, token, issued, record, current, sent, answers>>

--------------------------------------------------------------------------------
(* Failures and time *)

\* An awaited call is rejected without effect.  The take itself is outside the
\* try block.
CallFails(r) ==
    /\ req[r].step # "idle"
    /\ env.reliable => req[r].step = "callUpstream"
    /\ IF req[r].step \in {"take", "restore"} THEN Reply(r) ELSE Fail(r)
    /\ UNCHANGED <<env, now, grants, token, issued, mapped, record, current, sent, answers>>

Crash(i) ==
    /\ ~env.reliable
    /\ \E r \in Slot : req[r].at = i
    /\ req' = [r \in Slot |-> IF req[r].at = i THEN Idle ELSE req[r]]
    /\ UNCHANGED <<env, now, grants, token, issued, mapped, record, current, sent, answers>>

Sweep ==
    /\ mapped' = {j \in mapped : ~MappingSwept(j)}
    /\ record' = [g \in Grant |-> IF RecordFound(g) THEN record[g] ELSE None]
    /\ <<mapped', record'>> # <<mapped, record>>
    /\ UNCHANGED <<env, now, grants, token, issued, current, req, sent, answers>>

Tick ==
    /\ now < env.maxTime
    /\ env.prompt => \A r \in Slot : req[r].step \notin Issuing
    /\ now' = now + 1
    /\ UNCHANGED <<env, grants, token, issued, mapped, record, current, req, sent, answers>>

--------------------------------------------------------------------------------
HandlerStep(r) ==
    \/ SaveRecord(r) \/ SaveAccess(r) \/ SaveRefresh(r)
    \/ FinishTake(r) \/ Load(r) \/ CallUpstream(r) \/ Restore(r) \/ CallFails(r)

Next ==
    \/ \E r \in Slot, i \in Instance, renewable \in BOOLEAN,
          a, rt \in env.lifetimes :
             CodeExchanged(r, i, renewable, a, rt)
    \/ \E r \in Slot, i \in Instance, j \in sent : Refresh(r, i, j)
    \/ \E r \in Slot : HandlerStep(r)
    \/ \E i \in Instance : Crash(i)
    \/ Sweep
    \/ Tick

Spec == Init /\ [][Next]_vars

--------------------------------------------------------------------------------
(* Properties *)

\* A token is answered with tokens at most once: concurrent refreshes cannot
\* both redeem it, and a rotation that put it back returned nothing the client
\* can use (handleSwapModeRefresh).
RefreshRedeemedOnce ==
    env.atomicTake => \A j \in Jti : answers[j] <= 1

\* The refresh tokens of a chain a client could still redeem or is redeeming.
Redeemable(g, c) ==
    {j \in sent : /\ token[j].kind = "refresh"
                  /\ token[j].grant = g /\ token[j].chain = c
                  /\ j \in mapped \/ \E r \in Slot : req[r].from = j}

\* A grant has one chain of refresh tokens from its code exchange, and one more
\* for each access token redeemed as a refresh token.  Over any sequence of
\* rotations, failures, hand-backs and crashes a client never holds two refresh
\* tokens of one chain that both work.
OneRefreshTokenPerChain ==
    env.atomicTake =>
        \A g \in Grant, c \in 0 .. issued : \A j, k \in Redeemable(g, c) : j = k

\* The deployments in which only the upstream provider fails.
Steadfast == env.reliable /\ env.prompt /\ env.atomicTake

\* No access token of grant g was, or is being, redeemed as a refresh token:
\* a second chain overwrites the one upstream record of the grant.
Unforked(g) ==
    /\ \A j \in 1 .. issued : token[j].grant = g => token[j].chain = 0
    /\ \A r \in Slot : req[r].grant = g => req[r].chain = 0

\* The access token a client was last given for a grant finds its upstream
\* tokens while it is valid (loadUpstreamTokens), whatever lifetimes the
\* upstream gave at each rotation: neither its mapping nor the upstream record
\* expires before it, and a rotation under way or failed takes neither away.
CurrentAccessTokenResolves ==
    Steadfast =>
        \A j \in sent :
            /\ token[j].kind = "access" /\ JwtValid(j) /\ Unforked(token[j].grant)
            /\ \A k \in sent :
                   token[k].kind = "access" /\ token[k].grant = token[j].grant => k <= j
            => Resolves(j)

\* A transient upstream failure does not log the user out: an unspent refresh
\* token is being redeemed, or is stored with an upstream token set that the
\* upstream provider still accepts (the hand-back in handleSwapModeRefresh),
\* whatever lifetimes the upstream gave at each rotation.
StaysLoggedIn ==
    Steadfast /\ ~env.rotates =>
        \A j \in sent :
            /\ token[j].kind = "refresh" /\ JwtValid(j) /\ answers[j] = 0
            /\ Unforked(token[j].grant)
            => \/ \E r \in Slot : req[r].from = j
               \/ /\ j \in mapped
                  /\ RecordFound(token[j].grant)
                  /\ record[token[j].grant].gen = current[token[j].grant]
================================================================================
