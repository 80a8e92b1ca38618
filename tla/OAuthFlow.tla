------------------------------- MODULE OAuthFlow -------------------------------
(***************************************************************************)
(* The authorization-code grant of the OAuth proxy: the handlers of        *)
(* auth/OAuthProxy.ts (registerClient, authorize, handleConsent,           *)
(* handleCallback, exchangeAuthorizationCode) and the records that         *)
(* auth/OAuthProxyStateStore.ts keeps for them.  Several proxy instances   *)
(* share one TokenStorage.  A handler is a sequence of steps, one per      *)
(* awaited call that changes state, and the steps of concurrent handlers   *)
(* interleave.                                                             *)
(*                                                                         *)
(* Data that never changes after an id was drawn (a transaction's client   *)
(* or expiry, a code's transaction) is kept once per id, in txnInfo and    *)
(* codeInfo; the storage variables only say whether the record is there.   *)
(* Requests that fail before their first effect (missing parameters,       *)
(* unknown client, unregistered redirect_uri, unknown state) change        *)
(* nothing and have no action.                                             *)
(***************************************************************************)
EXTENDS Naturals

CONSTANTS
    Client,           \* client identifiers
    CimdClient,       \* those that are https URLs naming a metadata document
    Uri,              \* redirect URIs
    Redirects,        \* Redirects[c]: the URIs client c declares
    Instance,         \* proxy processes sharing the token storage
    Slot,             \* requests being handled at the same time
    Txn, Code,        \* pools of transaction ids and authorization codes
    None,             \* absence of a value
    TxnTtl, CodeTtl,  \* config.transactionTtl, config.authorizationCodeTtl
    ConsentRequired,  \* config.consentRequired
    Deployment        \* what the proxy is deployed with

\* atomicTake: the token storage implements take().  The rest are bounds:
\* its instances, the ids it draws from, and the end of its clock.
DeploymentRecord ==
    [atomicTake: BOOLEAN, instances: SUBSET Instance,
     txns: SUBSET Txn, codes: SUBSET Code, maxTime: Nat]

\* The verifier of a token request; a missing one is as good as a wrong one.
Proof == {"matching", "other"}

\* What never changes about a transaction and a code; who redeemed a code.
TxnInfo == [client: Client, uri: Uri, pkce: BOOLEAN, exp: Nat]
CodeInfo == [txn: Txn, exp: Nat]
Redeemer == [client: Client \cup {None}, proof: Proof]

ASSUME OAuthFlowAssumption ==
    /\ CimdClient \subseteq Client
    /\ Redirects \in [Client -> SUBSET Uri]
    /\ TxnTtl \in Nat /\ CodeTtl \in Nat
    /\ ConsentRequired \in BOOLEAN /\ Deployment \subseteq DeploymentRecord
    /\ None \notin Client \cup Uri \cup Instance \cup Txn \cup Code
    /\ None \notin TxnInfo \cup CodeInfo \cup Redeemer
    /\ None \notin [client: Client, pkce: BOOLEAN]

VARIABLES
    env,         \* the deployment, which never changes
    now,         \* the clock
    registered,  \* DCR registrations in the token storage (no TTL)
    cached,      \* cached[i]: registrations instance i holds in memory
    clientKnows, \* client ids the DCR response has handed to a client
    txnInfo,     \* immutable part of every transaction drawn so far
    txnStore,    \* what the token storage holds under transaction:<id>
    codeInfo,    \* immutable part of every authorization code drawn so far
    codeStore,   \* what the token storage holds under code:<id>
    req,         \* the request each slot is handling
    asked,       \* transactions answered with the consent page
    approved,    \* transactions with a submission that approved
    revived,     \* transactions whose approval was saved over no record
    delivered,   \* delivered[c]: the redirect URI that carried code c
    redeemed,    \* redeemed[c]: token responses issued for code c
    redeemer,    \* redeemer[c]: who the last of them went to, with which proof
    rejected     \* transactions a callback refused as "not registered"

storage   == <<registered, txnStore, codeStore>>
records   == <<txnInfo, codeInfo>>
userAgent == <<asked, approved, revived, delivered>>
outcome   == <<redeemed, redeemer, rejected>>
clients   == <<registered, cached, clientKnows>>
vars == <<env, now, clients, txnInfo, txnStore, codeInfo, codeStore, req,
          userAgent, outcome>>

--------------------------------------------------------------------------------
(* Requests in flight *)

\* The awaited call a handler is suspended at.
Step == {"idle", "saveTxn", "expireTxn", "denyTxn", "saveApproval",
         "takeTxn", "exchangeUpstream", "saveCode",
         "takeCode", "markSpent", "issue"}

\* What the code record looked like when the exchange read it.
CodeState == {"absent", "live", "spent"}

\* Steps of a request that works on a transaction, and on a code.
TxnStep == {"saveTxn", "expireTxn", "denyTxn", "saveApproval", "takeTxn",
            "exchangeUpstream", "saveCode"}
ExchangeStep == {"takeCode", "markSpent", "issue"}
CodeStep == ExchangeStep \cup {"saveCode"}

RequestRecord == [step: Step, at: Instance \cup {None}, txn: Txn \cup {None},
                  code: Code \cup {None}, client: Client \cup {None},
                  proof: Proof, got: CodeState]

Request == {q \in RequestRecord : /\ q.step \in TxnStep => q.txn \in Txn
                                  /\ q.step \in CodeStep => q.code \in Code
                                  /\ q.step \in ExchangeStep => q.client \in Client}

Idle == [step |-> "idle", at |-> None, txn |-> None, code |-> None,
         client |-> None, proof |-> "other", got |-> "absent"]

OnTxn(step, i, t) == [Idle EXCEPT !.step = step, !.at = i, !.txn = t]

\* A token request that has read the record of code c as found.
OnCode(i, c, cl, p, found) ==
    [Idle EXCEPT !.step = "takeCode", !.at = i, !.code = c, !.client = cl,
                 !.proof = p, !.got = found]

Begin(r, request) == req[r] = Idle /\ req' = [req EXCEPT ![r] = request]
Goto(r, step) == req' = [req EXCEPT ![r].step = step]
Reply(r) == req' = [req EXCEPT ![r] = Idle]

--------------------------------------------------------------------------------
(* Plausible slips in the code, each the body of one definition below; the  *)
(* properties have to notice them.                                          *)

\* The client_id of the token request is not compared with the code's.
SameClientUnchecked(cl, c) == TRUE
\* The code_verifier is not compared with the code_challenge.
ProofUnchecked(c, p) == TRUE
\* The exchange puts back the record it took instead of a tombstone.
RestoredRecord(c) == "live"
\* take() of a transaction leaves the record behind.
TxnKept(t) == txnStore
\* take() of a code leaves the record behind.
CodeKept(c) == codeStore
\* Only the memory of this instance is consulted for a registration.
KnownFromCache(i, c) == c \in cached[i]

--------------------------------------------------------------------------------
(* OAuthProxyStateStore *)

\* isExpired: strictly before the current time.
Expired(exp) == exp < now

\* getRegisteredClientByClientId: the local cache, then the token storage.
Known(i, c) == c \in cached[i] \cup registered

\* ... which then remembers what it found.
CacheFound(i, c) ==
    cached' = [cached EXCEPT ![i] = IF c \in registered THEN @ \cup {c} ELSE @]

\* takeFromStorage, the record's removal: by the storage's take(), or by the
\* delete() that follows the get() where the storage has no take().
TxnTaken(t)  == [txnStore EXCEPT ![t] = "absent"]
CodeTaken(c) == [codeStore EXCEPT ![c] = "absent"]

\* markClientCodeSpent writes a tombstone over whatever is there.
SpentRecord(c) == "spent"

\* resolveClientRedirectUris: the metadata document of a URL client_id, the
\* DCR registration of any other.
DeclaredUris(i, c) ==
    IF c \in CimdClient \/ Known(i, c) THEN Redirects[c] ELSE {}

--------------------------------------------------------------------------------
(* Conditions of the handlers *)

SameClient(cl, c) == txnInfo[codeInfo[c].txn].client = cl

\* PKCE is checked when the authorization request carried a code_challenge.
ProofOk(c, p) == txnInfo[codeInfo[c].txn].pkce => p = "matching"

--------------------------------------------------------------------------------
TypeOK ==
    /\ env \in Deployment
    /\ now \in Nat
    /\ registered \subseteq Client
    /\ cached \in [Instance -> SUBSET Client]
    /\ clientKnows \subseteq Client
    /\ txnInfo \in [Txn -> TxnInfo \cup {None}]
    /\ txnStore \in [Txn -> {"absent", "pending", "approved"}]
    /\ codeInfo \in [Code -> CodeInfo \cup {None}]
    /\ codeStore \in [Code -> CodeState]
    /\ req \in [Slot -> Request]
    /\ asked \subseteq Txn /\ approved \subseteq Txn /\ revived \subseteq Txn
    /\ delivered \in [Code -> Uri \cup {None}]
    /\ redeemed \in [Code -> Nat]
    /\ redeemer \in [Code -> Redeemer \cup {None}]
    /\ rejected \subseteq Txn

Init ==
    /\ env \in Deployment
    /\ now = 0
    /\ registered = {} /\ clientKnows = {}
    /\ cached = [i \in Instance |-> {}]
    /\ txnInfo = [t \in Txn |-> None]
    /\ txnStore = [t \in Txn |-> "absent"]
    /\ codeInfo = [c \in Code |-> None]
    /\ codeStore = [c \in Code |-> "absent"]
    /\ req = [r \in Slot |-> Idle]
    /\ asked = {} /\ approved = {} /\ revived = {}
    /\ delivered = [c \in Code |-> None]
    /\ redeemed = [c \in Code |-> 0]
    /\ redeemer = [c \in Code |-> None]
    /\ rejected = {}

--------------------------------------------------------------------------------
(* registerClient.  The registration is cached before it is saved; only a   *)
(* client whose save succeeded is told its id.                              *)

Register(i, c) ==
    /\ c \notin CimdClient
    /\ c \notin registered /\ \A j \in Instance : c \notin cached[j]
    /\ cached' = [cached EXCEPT ![i] = @ \cup {c}]
    /\ \/ registered' = registered \cup {c} /\ clientKnows' = clientKnows \cup {c}
       \/ UNCHANGED <<registered, clientKnows>>      \* the save was rejected
    /\ UNCHANGED <<env, now, txnStore, codeStore, records, req, userAgent, outcome>>

--------------------------------------------------------------------------------
(* authorize *)

Authorize(r, i, c, u, pkce) ==
    /\ c \in CimdClient \cup clientKnows
    /\ u \in DeclaredUris(i, c)
    /\ \E t \in env.txns :
        /\ txnInfo[t] = None
        /\ txnInfo' = [txnInfo EXCEPT ![t] =
               [client |-> c, uri |-> u, pkce |-> pkce, exp |-> now + TxnTtl]]
        /\ Begin(r, OnTxn("saveTxn", i, t))
    /\ IF c \in CimdClient THEN UNCHANGED cached ELSE CacheFound(i, c)
    /\ UNCHANGED <<env, now, storage, clientKnows, codeInfo, userAgent, outcome>>

\* createTransaction's save, then the consent page or the redirect to the
\* upstream provider.  Either answer carries the transaction's id.
SaveTxn(r) ==
    LET t == req[r].txn IN
    /\ req[r].step = "saveTxn"
    /\ txnStore' = [txnStore EXCEPT ![t] = "pending"]
    /\ Reply(r)
    /\ asked' = IF ConsentRequired THEN asked \cup {t} ELSE asked
    /\ UNCHANGED <<env, now, clients, codeStore, records, approved, revived,
                   delivered, outcome>>

--------------------------------------------------------------------------------
(* handleConsent.  Any transaction that is stored may be approved or denied, *)
(* as often as the form is submitted; getTransaction reads without           *)
(* consuming.                                                                *)

Consent(r, i, t, action) ==
    /\ txnStore[t] # "absent"
    /\ IF Expired(txnInfo[t].exp)
       THEN Begin(r, OnTxn("expireTxn", i, t)) /\ UNCHANGED approved
       ELSE IF action = "deny"
       THEN Begin(r, OnTxn("denyTxn", i, t)) /\ UNCHANGED approved
       ELSE /\ Begin(r, OnTxn("saveApproval", i, t))
            /\ approved' = approved \cup {t}
    /\ UNCHANGED <<env, now, clients, txnStore, codeStore, records, asked,
                   revived, delivered, outcome>>

\* deleteTransaction, then access_denied (deny) or the error (expired).
DeleteTxn(r) ==
    /\ req[r].step \in {"expireTxn", "denyTxn"}
    /\ txnStore' = [txnStore EXCEPT ![req[r].txn] = "absent"]
    /\ IF req[r].step = "denyTxn"
       THEN CacheFound(req[r].at, txnInfo[req[r].txn].client)
       ELSE UNCHANGED cached
    /\ Reply(r)
    /\ UNCHANGED <<env, now, registered, clientKnows, codeStore, records, userAgent,
                   outcome>>

\* The approved copy of the record read earlier is saved, whatever happened
\* to the record since, and the user agent goes upstream.
SaveApproval(r) ==
    LET t == req[r].txn IN
    /\ req[r].step = "saveApproval"
    /\ txnStore' = [txnStore EXCEPT ![t] = "approved"]
    /\ revived' = IF txnStore[t] = "absent" THEN revived \cup {t} ELSE revived
    /\ Reply(r)
    /\ UNCHANGED <<env, now, clients, codeStore, records, asked, approved,
                   delivered, outcome>>

--------------------------------------------------------------------------------
(* handleCallback *)

\* consumeTransaction.  A record past its expiry is consumed and refused.
TakeTxn(r, i, t) ==
    /\ txnStore' = TxnTaken(t)
    /\ req' = [req EXCEPT ![r] = IF Expired(txnInfo[t].exp) THEN Idle
                                 ELSE OnTxn("exchangeUpstream", i, t)]

\* Any stored transaction will do: its consentGiven is not read.
Callback(r, i, t) ==
    /\ txnStore[t] # "absent"
    /\ req[r] = Idle
    /\ IF env.atomicTake
       THEN TakeTxn(r, i, t)
       ELSE Begin(r, OnTxn("takeTxn", i, t)) /\ UNCHANGED txnStore
    /\ UNCHANGED <<env, now, clients, codeStore, records, userAgent, outcome>>

\* The delete() of the fallback.
FinishTakeTxn(r) ==
    /\ req[r].step = "takeTxn"
    /\ TakeTxn(r, req[r].at, req[r].txn)
    /\ UNCHANGED <<env, now, clients, codeStore, records, userAgent, outcome>>

\* isTransactionCallbackRegistered, then exchangeUpstreamCode; the client code
\* is drawn when the upstream answered.  A wrong iss, an upstream error or a
\* timeout throws: see Throw.
ExchangeUpstream(r) ==
    LET t == req[r].txn  i == req[r].at  cl == txnInfo[req[r].txn].client IN
    /\ req[r].step = "exchangeUpstream"
    /\ CacheFound(i, cl)
    /\ IF Known(i, cl) /\ txnInfo[t].uri \in Redirects[cl]
       THEN /\ \E c \in env.codes :
                /\ codeInfo[c] = None
                /\ codeInfo' = [codeInfo EXCEPT ![c] =
                                   [txn |-> t, exp |-> now + CodeTtl]]
                /\ req' = [req EXCEPT ![r].step = "saveCode", ![r].code = c]
            /\ UNCHANGED rejected
       ELSE /\ Reply(r)
            /\ rejected' = rejected \cup {t}
            /\ UNCHANGED codeInfo
    /\ UNCHANGED <<env, now, storage, clientKnows, txnInfo, userAgent, redeemed,
                   redeemer>>

SaveCode(r) ==
    LET c == req[r].code IN
    /\ req[r].step = "saveCode"
    /\ codeStore' = [codeStore EXCEPT ![c] = "live"]
    /\ Reply(r)
    /\ delivered' \in {[delivered EXCEPT ![c] = txnInfo[req[r].txn].uri],
                       delivered}
    /\ UNCHANGED <<env, now, clients, txnStore, records, asked, approved,
                   revived, outcome>>

--------------------------------------------------------------------------------
(* exchangeAuthorizationCode *)

\* consumeClientCode.  An expired record, live or spent, is consumed and
\* refused like an unknown one.
TakeCode(r, request) ==
    /\ codeStore' = CodeTaken(request.code)
    /\ req' = [req EXCEPT ![r] = IF Expired(codeInfo[request.code].exp) THEN Idle
                                 ELSE [request EXCEPT !.step = "markSpent"]]

Exchange(r, i, c, cl, p) ==
    LET request == OnCode(i, c, cl, p, codeStore[c]) IN
    /\ delivered[c] # None
    /\ cl \in clientKnows /\ Known(i, cl)
    /\ CacheFound(i, cl)
    /\ codeStore[c] # "absent"
    /\ req[r] = Idle
    /\ IF env.atomicTake
       THEN TakeCode(r, request)
       ELSE Begin(r, request) /\ UNCHANGED codeStore
    /\ UNCHANGED <<env, now, registered, clientKnows, txnStore, records, userAgent,
                   outcome>>

FinishTakeCode(r) ==
    /\ req[r].step = "takeCode"
    /\ TakeCode(r, req[r])
    /\ UNCHANGED <<env, now, clients, txnStore, records, userAgent, outcome>>

\* The tombstone is saved first, whatever the outcome of the checks after it.
MarkSpent(r) ==
    LET c == req[r].code IN
    /\ req[r].step = "markSpent"
    /\ codeStore' = [codeStore EXCEPT ![c] = SpentRecord(c)]
    /\ IF /\ req[r].got = "live"
          /\ SameClient(req[r].client, c)
          /\ ProofOk(c, req[r].proof)
       THEN Goto(r, "issue")
       ELSE Reply(r)         \* already used, client mismatch, invalid verifier
    /\ UNCHANGED <<env, now, clients, txnStore, records, userAgent, outcome>>

\* The token response: the upstream tokens themselves, or the swapped ones
\* once issueSwappedTokens has saved its records (module TokenSwap).
Issue(r) ==
    LET c == req[r].code IN
    /\ req[r].step = "issue"
    /\ redeemed' = [redeemed EXCEPT ![c] = @ + 1]
    /\ redeemer' = [redeemer EXCEPT ![c] =
                       [client |-> req[r].client, proof |-> req[r].proof]]
    /\ Reply(r)
    /\ UNCHANGED <<env, now, clients, txnStore, codeStore, records, userAgent,
                   rejected>>

--------------------------------------------------------------------------------
(* Failures and time *)

\* An awaited call rejects without effect (storage error, upstream refusal or
\* timeout, iss mismatch): the handler throws and nothing is undone.
Throw(r) ==
    /\ req[r].step # "idle"
    /\ Reply(r)
    /\ UNCHANGED <<env, now, clients, txnStore, codeStore, records, userAgent,
                   outcome>>

\* An instance dies with its handlers and its memory.
Crash(i) ==
    /\ cached[i] # {} \/ \E r \in Slot : req[r].at = i
    /\ cached' = [cached EXCEPT ![i] = {}]
    /\ req' = [r \in Slot |-> IF req[r].at = i THEN Idle ELSE req[r]]
    /\ UNCHANGED <<env, now, registered, clientKnows, txnStore, codeStore, records,
                   userAgent, outcome>>

\* The storage drops records after their TTL; getTtlSeconds never gives one
\* less than the time its record has left.
Sweep ==
    /\ txnStore' = [t \in Txn |->
           IF txnInfo[t] # None /\ txnInfo[t].exp < now THEN "absent"
           ELSE txnStore[t]]
    /\ codeStore' = [c \in Code |->
           IF codeInfo[c] # None /\ codeInfo[c].exp < now THEN "absent"
           ELSE codeStore[c]]
    /\ <<txnStore', codeStore'>> # <<txnStore, codeStore>>
    /\ UNCHANGED <<env, now, clients, records, req, userAgent, outcome>>

Tick ==
    /\ now < env.maxTime
    /\ now' = now + 1
    /\ UNCHANGED <<env, clients, txnStore, codeStore, records, req, userAgent,
                   outcome>>

--------------------------------------------------------------------------------
HandlerStep(r) ==
    \/ SaveTxn(r) \/ DeleteTxn(r) \/ SaveApproval(r)
    \/ FinishTakeTxn(r) \/ ExchangeUpstream(r) \/ SaveCode(r)
    \/ FinishTakeCode(r) \/ MarkSpent(r) \/ Issue(r)
    \/ Throw(r)

Arrival(r, i) ==
    \/ \E c \in Client, u \in Uri, pkce \in BOOLEAN : Authorize(r, i, c, u, pkce)
    \/ \E t \in Txn, action \in {"approve", "deny"} : Consent(r, i, t, action)
    \/ \E t \in Txn : Callback(r, i, t)
    \/ \E c \in Code, cl \in Client, p \in Proof : Exchange(r, i, c, cl, p)

Next ==
    \/ \E i \in env.instances, c \in Client : Register(i, c)
    \/ \E r \in Slot, i \in env.instances : Arrival(r, i)
    \/ \E r \in Slot : HandlerStep(r)
    \/ \E i \in env.instances : Crash(i)
    \/ Sweep
    \/ Tick

Spec == Init /\ [][Next]_vars

--------------------------------------------------------------------------------
(* Properties *)

\* At most one token response is ever issued for an authorization code,
\* whichever instances its exchanges land on (consumeClientCode,
\* markClientCodeSpent; RFC 6749 4.1.2).
CodeRedeemedOnce == env.atomicTake => \A c \in Code : redeemed[c] <= 1

\* Once a code was taken out of the storage it is never stored live again: a
\* spent code can never be resurrected (exchangeAuthorizationCode).
SpentStaysSpent ==
    [][\A c \in Code :
          delivered[c] # None /\ codeStore[c] # "live" => codeStore'[c] # "live"]_vars

\* No two authorization codes come from one transaction, no matter which
\* instances its callbacks land on (consumeTransaction), unless an approval
\* read before a callback consumed the transaction was saved after it.
CallbackOnce ==
    env.atomicTake =>
        \A c, d \in Code :
            codeInfo[c] # None /\ codeInfo[d] # None /\ codeInfo[c].txn = codeInfo[d].txn
                => c = d \/ codeInfo[c].txn \in revived

\* "A callback is single-use": no two authorization codes come from one
\* transaction (handleCallback's comment on consumeTransaction).
CallbackIsSingleUse ==
    \A c, d \in Code :
        codeInfo[c] # None /\ codeInfo[d] # None /\ codeInfo[c].txn = codeInfo[d].txn
            => c = d

\* Tokens go to the client whose registered redirect URI carried the code, and
\* to a holder of the verifier when that client sent a code_challenge: the
\* redirect_uri check of authorize, the redirect of handleCallback and the
\* checks of exchangeAuthorizationCode agree across all three requests.
TokensReachTheCodesClient ==
    \A c \in Code :
        redeemed[c] > 0 =>
            /\ delivered[c] \in Redirects[redeemer[c].client]
            /\ txnInfo[codeInfo[c].txn].pkce => redeemer[c].proof = "matching"

\* A transaction whose user was asked for consent yields a code only once that
\* user approved it (authorize shows the consent page, handleCallback makes
\* the code).
ConsentPrecedesCode ==
    \A c \in Code :
        codeInfo[c] # None /\ codeInfo[c].txn \in asked => codeInfo[c].txn \in approved

\* A transaction that authorize accepted is never refused by the callback as
\* unregistered: "Two ways to be a known client".
AcceptedClientCompletes == rejected = {}

\* The grant that the records and responses add up to.
G == INSTANCE CodeGrant WITH
       single   <- env.atomicTake,
       request  <- [t \in Txn |-> IF txnInfo[t] = None THEN None
                                  ELSE [client |-> txnInfo[t].client,
                                        pkce |-> txnInfo[t].pkce]],
       reopened <- revived,
       source   <- [c \in Code |-> IF codeInfo[c] = None THEN None
                                   ELSE codeInfo[c].txn],
       answers  <- redeemed,
       holder   <- redeemer

\* All of it together is an authorization code grant (CodeGrant): whatever is
\* interleaved, lost or crashes, every step is one of the grant or changes
\* nothing that a client could see.
ImplementsCodeGrant == G!Spec
================================================================================
