---------------------------- MODULE OAuthFlowProofs ----------------------------
(***************************************************************************)
(* Safety of the authorization-code grant for every number of clients,     *)
(* instances, requests, transactions and codes.                            *)
(***************************************************************************)
EXTENDS OAuthFlow, TLAPS

--------------------------------------------------------------------------------
(* The inductive invariants *)

\* Whatever refers to a transaction or a code refers to one that was drawn.
Drawn ==
    /\ \A r \in Slot : req[r].step \in TxnStep => txnInfo[req[r].txn] # None
    /\ \A r \in Slot : req[r].step \in CodeStep => codeInfo[req[r].code] # None
    /\ \A c \in Code : codeInfo[c] # None => txnInfo[codeInfo[c].txn] # None
    /\ \A c \in Code : delivered[c] # None => codeInfo[c] # None
    /\ \A c \in Code : codeStore[c] # "absent" => codeInfo[c] # None
    /\ \A t \in Txn : txnStore[t] # "absent" => txnInfo[t] # None

TypeInv == TypeOK /\ Drawn

\* Request r may still turn code c into tokens, or into a live record.
Holds(r, c) == /\ req[r].code = c
               /\ \/ req[r].step = "saveCode"
                  \/ req[r].step \in {"markSpent", "issue"} /\ req[r].got = "live"

\* A code is live in the storage, held by one request, or redeemed at most once:
\* never two of these.
CodeInv ==
    /\ \A r \in Slot : req[r].step \notin {"takeTxn", "takeCode"}
    /\ \A r \in Slot : req[r].step = "issue" => req[r].got = "live"
    /\ \A r \in Slot : req[r].step = "saveCode" => delivered[req[r].code] = None
    /\ \A c \in Code : codeInfo[c] = None => redeemed[c] = 0
    /\ \A c \in Code : codeStore[c] = "live" => redeemed[c] = 0
    /\ \A r \in Slot, c \in Code :
           Holds(r, c) => codeStore[c] # "live" /\ redeemed[c] = 0
    /\ \A r, s \in Slot, c \in Code : Holds(r, c) /\ Holds(s, c) => r = s
    /\ \A c \in Code : redeemed[c] <= 1

--------------------------------------------------------------------------------
(* How the steps of a handler change the requests in flight *)

LEMMA IdleFacts ==
    /\ Idle \in Request
    /\ Idle.step = "idle" /\ Idle.txn = None /\ Idle.code = None
BY DEF Idle, Request, RequestRecord, Step, TxnStep, CodeStep, ExchangeStep, Proof,
       CodeState

LEMMA OnTxnFacts ==
    ASSUME NEW step \in TxnStep \ {"saveCode"}, NEW i \in Instance \cup {None}, NEW t \in Txn
    PROVE  /\ OnTxn(step, i, t) \in Request
           /\ OnTxn(step, i, t).step = step
           /\ OnTxn(step, i, t).txn = t
           /\ OnTxn(step, i, t).at = i
           /\ OnTxn(step, i, t).code = None
BY DEF OnTxn, Idle, Request, RequestRecord, Step, TxnStep, CodeStep, ExchangeStep,
       Proof, CodeState

\* A request keeps the fields its step depends on.
LEMMA RequestFields ==
    ASSUME NEW q \in Request
    PROVE  /\ q.step \in Step /\ q.at \in Instance \cup {None}
           /\ q.txn \in Txn \cup {None} /\ q.code \in Code \cup {None}
           /\ q.client \in Client \cup {None} /\ q.proof \in Proof /\ q.got \in CodeState
           /\ q.step \in TxnStep => q.txn \in Txn
           /\ q.step \in CodeStep => q.code \in Code
           /\ q.step \in ExchangeStep => q.client \in Client
BY DEF Request, RequestRecord

LEMMA SlotFields ==
    ASSUME TypeOK
    PROVE  \A r \in Slot :
              /\ req[r] \in Request /\ req[r].step \in Step
              /\ req[r].txn \in Txn \cup {None} /\ req[r].code \in Code \cup {None}
              /\ req[r].step \in TxnStep => req[r].txn \in Txn
              /\ req[r].step \in CodeStep => req[r].code \in Code
              /\ req[r].step \in ExchangeStep => req[r].client \in Client
BY RequestFields DEF TypeOK

LEMMA RecordFields ==
    ASSUME TypeOK
    PROVE  /\ \A t \in Txn : txnInfo[t] # None =>
                 /\ txnInfo[t].client \in Client /\ txnInfo[t].uri \in Uri
                 /\ txnInfo[t].pkce \in BOOLEAN /\ txnInfo[t].exp \in Nat
           /\ \A c \in Code : codeInfo[c] # None =>
                 codeInfo[c].txn \in Txn /\ codeInfo[c].exp \in Nat
BY DEF TypeOK, TxnInfo, CodeInfo

LEMMA EnvFacts ==
    ASSUME TypeOK
    PROVE  /\ env \in Deployment /\ env.atomicTake \in BOOLEAN /\ env.maxTime \in Nat
           /\ env.instances \subseteq Instance
           /\ env.txns \subseteq Txn /\ env.codes \subseteq Code
BY OAuthFlowAssumption DEF TypeOK, DeploymentRecord

LEMMA OnCodeFacts ==
    ASSUME NEW i \in Instance, NEW c \in Code, NEW cl \in Client, NEW p \in Proof,
           NEW found \in CodeState
    PROVE  LET q == OnCode(i, c, cl, p, found)
           IN  /\ q \in Request /\ q.step = "takeCode" /\ q.at = i /\ q.code = c
               /\ q.client = cl /\ q.proof = p /\ q.got = found /\ q.txn = None
BY DEF OnCode, Idle, Request, RequestRecord, Step, TxnStep, CodeStep, ExchangeStep,
       Proof, CodeState

LEMMA GotoFacts ==
    ASSUME NEW q \in Request, q.step \in ExchangeStep, NEW s \in ExchangeStep
    PROVE  LET n == [q EXCEPT !.step = s]
           IN  /\ n \in Request /\ n.step = s /\ n.at = q.at /\ n.txn = q.txn
               /\ n.code = q.code /\ n.client = q.client /\ n.proof = q.proof
               /\ n.got = q.got
BY DEF Request, RequestRecord, Step, TxnStep, CodeStep, ExchangeStep

LEMMA DrawCodeFacts ==
    ASSUME NEW q \in Request, q.step = "exchangeUpstream", NEW c \in Code
    PROVE  LET n == [q EXCEPT !.step = "saveCode", !.code = c]
           IN  /\ n \in Request /\ n.step = "saveCode" /\ n.txn = q.txn
               /\ n.code = c /\ n.got = q.got
BY DEF Request, RequestRecord, Step, TxnStep, CodeStep, ExchangeStep

\* One request changes, the others stay.
LEMMA OneRequest ==
    ASSUME req \in [Slot -> Request], NEW r \in Slot, NEW q \in Request,
           req' = [req EXCEPT ![r] = q]
    PROVE  /\ req' \in [Slot -> Request]
           /\ req'[r] = q
           /\ \A s \in Slot : s # r => req'[s] = req[s]
OBVIOUS

LEMMA ReplyFacts ==
    ASSUME req \in [Slot -> Request], NEW r \in Slot, Reply(r)
    PROVE  /\ req' \in [Slot -> Request]
           /\ req'[r] = Idle
           /\ \A s \in Slot : s # r => req'[s] = req[s]
           /\ \A s \in Slot : req'[s].step # "idle" => s # r /\ req'[s] = req[s]
BY IdleFacts DEF Reply

--------------------------------------------------------------------------------
(* Types *)

LEMMA TypeInit == Init => TypeInv
BY OAuthFlowAssumption, IdleFacts
   DEF Init, TypeInv, TypeOK, Drawn, TxnStep, CodeStep, ExchangeStep, CodeState

\* An authorization request draws a transaction and is about to save it.
LEMMA AuthorizeStep ==
    ASSUME TypeInv, NEW r \in Slot, NEW i \in Instance, NEW c \in Client,
           NEW u \in Uri, NEW pkce \in BOOLEAN, Authorize(r, i, c, u, pkce)
    PROVE  \E t \in Txn :
              /\ txnInfo[t] = None
              /\ txnInfo' \in [Txn -> TxnInfo \cup {None}] /\ txnInfo'[t] # None
              /\ txnInfo'[t].client = c /\ txnInfo'[t].uri = u
              /\ \A x \in Txn : x # t => txnInfo'[x] = txnInfo[x]
              /\ req' \in [Slot -> Request]
              /\ req'[r].step = "saveTxn" /\ req'[r].txn = t
              /\ \A s \in Slot : s # r => req'[s] = req[s]
<1>1. PICK t \in Txn :
          /\ txnInfo[t] = None
          /\ txnInfo' = [txnInfo EXCEPT ![t] =
                 [client |-> c, uri |-> u, pkce |-> pkce, exp |-> now + TxnTtl]]
          /\ Begin(r, OnTxn("saveTxn", i, t))
  BY EnvFacts DEF Authorize, TypeInv
<1>2. /\ OnTxn("saveTxn", i, t) \in Request
      /\ OnTxn("saveTxn", i, t).step = "saveTxn" /\ OnTxn("saveTxn", i, t).txn = t
  BY OnTxnFacts DEF TxnStep
<1>3. /\ req' \in [Slot -> Request] /\ req'[r] = OnTxn("saveTxn", i, t)
      /\ \A s \in Slot : s # r => req'[s] = req[s]
  BY <1>1, <1>2 DEF Begin, TypeInv, TypeOK
<1> DEFINE info == [client |-> c, uri |-> u, pkce |-> pkce, exp |-> now + TxnTtl]
<1>4. info \in TxnInfo /\ info # None /\ info.client = c /\ info.uri = u
  BY OAuthFlowAssumption DEF TypeInv, TypeOK, TxnInfo
<1>5. txnInfo' = [txnInfo EXCEPT ![t] = info]
  BY <1>1
<1> HIDE DEF info
<1>6. /\ txnInfo' \in [Txn -> TxnInfo \cup {None}] /\ txnInfo'[t] = info
      /\ \A x \in Txn : x # t => txnInfo'[x] = txnInfo[x]
  BY <1>4, <1>5 DEF TypeInv, TypeOK
<1> QED
  BY <1>1, <1>2, <1>3, <1>4, <1>6

LEMMA TypeAuthorize ==
    ASSUME TypeInv, NEW r \in Slot, NEW i \in Instance, NEW c \in Client,
           NEW u \in Uri, NEW pkce \in BOOLEAN, Authorize(r, i, c, u, pkce)
    PROVE  TypeInv'
<1>1. PICK t \in Txn :
         /\ txnInfo[t] = None
         /\ txnInfo' \in [Txn -> TxnInfo \cup {None}] /\ txnInfo'[t] # None
         /\ \A x \in Txn : x # t => txnInfo'[x] = txnInfo[x]
         /\ req' \in [Slot -> Request]
         /\ req'[r].step = "saveTxn" /\ req'[r].txn = t
         /\ \A s \in Slot : s # r => req'[s] = req[s]
  BY AuthorizeStep
<1>2. cached' \in [Instance -> SUBSET Client]
  BY DEF Authorize, CacheFound, TypeInv, TypeOK
<1>3. UNCHANGED <<env, now, registered, txnStore, codeStore, clientKnows, codeInfo,
                  userAgent, outcome>>
  BY DEF Authorize, storage
<1>4. TypeOK'
  BY <1>1, <1>2, <1>3 DEF TypeInv, TypeOK, userAgent, outcome
<1>5. \A x \in Txn : txnInfo[x] # None => txnInfo'[x] # None
  BY <1>1
<1>6. Drawn'
  <2>1. \A s \in Slot : req'[s].step \in TxnStep => txnInfo'[req'[s].txn] # None
    BY <1>1, <1>5, SlotFields DEF TypeInv, Drawn
  <2>2. \A s \in Slot : req'[s].step \in CodeStep => codeInfo'[req'[s].code] # None
    BY <1>1, <1>3, SlotFields DEF TypeInv, Drawn, CodeStep, ExchangeStep
  <2>3. \A d \in Code : codeInfo'[d] # None => txnInfo'[codeInfo'[d].txn] # None
    BY <1>3, <1>5, RecordFields DEF TypeInv, Drawn
  <2> QED
    BY <1>3, <1>5, <2>1, <2>2, <2>3 DEF TypeInv, Drawn, userAgent
<1> QED
  BY <1>4, <1>6 DEF TypeInv

\* A consent submission reads a transaction and will delete or save it.
LEMMA ConsentStep ==
    ASSUME TypeInv, NEW r \in Slot, NEW i \in Instance, NEW t \in Txn,
           NEW action \in {"approve", "deny"}, Consent(r, i, t, action)
    PROVE  /\ req' \in [Slot -> Request]
           /\ \A s \in Slot : s # r => req'[s] = req[s]
           /\ \/ req'[r] = req[r]
              \/ /\ txnInfo[t] # None /\ req'[r].txn = t
                 /\ \/ req'[r].step \in {"expireTxn", "denyTxn"}
                    \/ req'[r].step = "saveApproval" /\ t \in approved'
<1>1. \/ UNCHANGED req
      \/ /\ txnInfo[t] # None
         /\ \E step \in {"expireTxn", "denyTxn", "saveApproval"} :
               /\ Begin(r, OnTxn(step, i, t))
               /\ step = "saveApproval" => t \in approved'
  BY DEF Consent, TypeInv, Drawn
<1>2. CASE UNCHANGED req
  BY <1>2 DEF TypeInv, TypeOK
<1>3. ASSUME txnInfo[t] # None, NEW step \in {"expireTxn", "denyTxn", "saveApproval"},
             Begin(r, OnTxn(step, i, t)), step = "saveApproval" => t \in approved'
      PROVE  /\ req' \in [Slot -> Request]
             /\ \A s \in Slot : s # r => req'[s] = req[s]
             /\ req'[r].txn = t /\ req'[r].step = step
  <2>1. OnTxn(step, i, t) \in Request /\ OnTxn(step, i, t).step = step
        /\ OnTxn(step, i, t).txn = t
    BY OnTxnFacts DEF TxnStep
  <2> QED
    BY <1>3, <2>1 DEF Begin, TypeInv, TypeOK
<1> QED
  BY <1>1, <1>2, <1>3

LEMMA TypeConsent ==
    ASSUME TypeInv, NEW r \in Slot, NEW i \in Instance, NEW t \in Txn,
           NEW action \in {"approve", "deny"}, Consent(r, i, t, action)
    PROVE  TypeInv'
<1>1. /\ req' \in [Slot -> Request]
      /\ \A s \in Slot : s # r => req'[s] = req[s]
      /\ \/ req'[r] = req[r]
         \/ /\ txnInfo[t] # None /\ req'[r].txn = t
            /\ req'[r].step \in {"expireTxn", "denyTxn", "saveApproval"}
  BY ConsentStep
<1>2. /\ approved' \subseteq Txn
      /\ UNCHANGED <<env, now, clients, txnStore, codeStore, records, asked,
                     revived, delivered, outcome>>
  BY DEF Consent, TypeInv, TypeOK
<1>3. TypeOK'
  BY <1>1, <1>2 DEF TypeInv, TypeOK, clients, records, outcome
<1>4. Drawn'
  BY <1>1, <1>2 DEF TypeInv, Drawn, records, TxnStep, CodeStep, ExchangeStep
<1> QED
  BY <1>3, <1>4 DEF TypeInv

\* Storing or removing the record of a transaction, and answering.
LEMMA TypeSaveTxn ==
    ASSUME TypeInv, NEW r \in Slot, SaveTxn(r) \/ SaveApproval(r) \/ DeleteTxn(r)
    PROVE  TypeInv'
<1> DEFINE t == req[r].txn
<1>1. t \in Txn /\ txnInfo[t] # None
  BY SlotFields DEF SaveTxn, SaveApproval, DeleteTxn, TxnStep, TypeInv, Drawn
<1>2. /\ Reply(r)
      /\ \E v \in {"absent", "pending", "approved"} : txnStore' = [txnStore EXCEPT ![t] = v]
      /\ asked' \subseteq asked \cup {t} /\ revived' \subseteq revived \cup {t}
      /\ UNCHANGED <<env, now, registered, clientKnows, codeStore, records,
                     approved, delivered, outcome>>
  BY DEF SaveTxn, SaveApproval, DeleteTxn, clients, userAgent
<1>3. cached' \in [Instance -> SUBSET Client]
  BY <1>1 DEF SaveTxn, SaveApproval, DeleteTxn, CacheFound, clients, TypeInv, TypeOK
<1>4. /\ req' \in [Slot -> Request]
      /\ \A s \in Slot : req'[s].step # "idle" => req'[s] = req[s]
  BY <1>2, ReplyFacts DEF TypeInv, TypeOK
<1>5. TypeOK'
  BY <1>1, <1>2, <1>3, <1>4 DEF TypeInv, TypeOK, records, outcome
<1>6. Drawn'
  BY <1>1, <1>2, <1>4 DEF TypeInv, TypeOK, Drawn, records, TxnStep, CodeStep, ExchangeStep
<1> QED
  BY <1>5, <1>6 DEF TypeInv

\* Taking the record of a transaction.
LEMMA TakeTxnStep ==
    ASSUME TypeInv, NEW r \in Slot, NEW i \in Instance \cup {None}, NEW t \in Txn,
           \/ TakeTxn(r, i, t)
           \/ ~env.atomicTake /\ Begin(r, OnTxn("takeTxn", i, t))
    PROVE  /\ req' \in [Slot -> Request]
           /\ \A s \in Slot : s # r => req'[s] = req[s]
           /\ \/ req'[r].step = "idle"
              \/ req'[r].txn = t /\ req'[r].step = "exchangeUpstream"
              \/ req'[r].txn = t /\ req'[r].step = "takeTxn" /\ ~env.atomicTake
<1>1. \/ \E q \in {Idle, OnTxn("exchangeUpstream", i, t)} : req' = [req EXCEPT ![r] = q]
      \/ ~env.atomicTake /\ req' = [req EXCEPT ![r] = OnTxn("takeTxn", i, t)]
  BY DEF TakeTxn, Begin
<1>2. \A step \in {"takeTxn", "exchangeUpstream"} :
         OnTxn(step, i, t) \in Request /\ OnTxn(step, i, t).step = step
                                     /\ OnTxn(step, i, t).txn = t
  BY OnTxnFacts DEF TxnStep
<1> QED
  BY <1>1, <1>2, IdleFacts DEF TypeInv, TypeOK

LEMMA TypeTakeTxn ==
    ASSUME TypeInv, NEW r \in Slot, NEW i \in Instance \cup {None}, NEW t \in Txn,
           txnInfo[t] # None,
           \/ TakeTxn(r, i, t)
           \/ ~env.atomicTake /\ Begin(r, OnTxn("takeTxn", i, t)) /\ UNCHANGED txnStore,
           UNCHANGED <<env, now, clients, codeStore, records, userAgent, outcome>>
    PROVE  TypeInv'
<1>1. /\ req' \in [Slot -> Request]
      /\ \A s \in Slot : s # r => req'[s] = req[s]
      /\ \/ req'[r].step = "idle"
         \/ req'[r].txn = t /\ req'[r].step \in {"takeTxn", "exchangeUpstream"}
  BY TakeTxnStep
<1>2. /\ txnStore' \in [Txn -> {"absent", "pending", "approved"}]
      /\ \A x \in Txn : txnStore'[x] # "absent" => txnStore[x] # "absent"
  BY DEF TakeTxn, TxnTaken, TypeInv, TypeOK
<1>3. TypeOK'
  BY <1>1, <1>2 DEF TypeInv, TypeOK, clients, records, userAgent, outcome
<1>4. Drawn'
  BY <1>1, <1>2 DEF TypeInv, Drawn, records, userAgent, TxnStep, CodeStep, ExchangeStep
<1> QED
  BY <1>3, <1>4 DEF TypeInv

\* The code drawn for a transaction, or the refusal of its callback.
LEMMA ExchangeUpstreamStep ==
    ASSUME TypeInv, NEW r \in Slot, ExchangeUpstream(r)
    PROVE  /\ req[r].txn \in Txn /\ txnInfo[req[r].txn] # None
           /\ req' \in [Slot -> Request]
           /\ codeInfo' \in [Code -> CodeInfo \cup {None}]
           /\ \A s \in Slot : s # r => req'[s] = req[s]
           /\ \/ req'[r].step = "idle" /\ UNCHANGED codeInfo
              \/ \E c \in Code :
                    /\ codeInfo[c] = None
                    /\ codeInfo'[c] # None /\ codeInfo'[c].txn = req[r].txn
                    /\ \A d \in Code : d # c => codeInfo'[d] = codeInfo[d]
                    /\ req'[r].step = "saveCode" /\ req'[r].code = c
                    /\ req'[r].txn = req[r].txn
<1> DEFINE t == req[r].txn
<1>1. /\ t \in Txn /\ txnInfo[t] # None /\ req[r] \in Request
      /\ req[r].step = "exchangeUpstream"
  BY SlotFields DEF ExchangeUpstream, TxnStep, TypeInv, Drawn
<1>2. CASE Reply(r) /\ UNCHANGED codeInfo
  BY <1>1, <1>2, ReplyFacts, IdleFacts DEF TypeInv, TypeOK
<1>3. ASSUME NEW c \in Code, codeInfo[c] = None,
             codeInfo' = [codeInfo EXCEPT ![c] = [txn |-> t, exp |-> now + CodeTtl]],
             req' = [req EXCEPT ![r].step = "saveCode", ![r].code = c]
      PROVE  /\ req' \in [Slot -> Request]
             /\ codeInfo' \in [Code -> CodeInfo \cup {None}]
             /\ \A s \in Slot : s # r => req'[s] = req[s]
             /\ codeInfo'[c] # None /\ codeInfo'[c].txn = t
             /\ \A d \in Code : d # c => codeInfo'[d] = codeInfo[d]
             /\ req'[r].step = "saveCode" /\ req'[r].code = c /\ req'[r].txn = t
  <2> DEFINE info == [txn |-> t, exp |-> now + CodeTtl]
             n == [req[r] EXCEPT !.step = "saveCode", !.code = c]
  <2>1. info \in CodeInfo /\ info # None /\ info.txn = t
    BY <1>1, OAuthFlowAssumption DEF TypeInv, TypeOK, CodeInfo
  <2>2. n \in Request /\ n.step = "saveCode" /\ n.txn = t /\ n.code = c
    BY <1>1, DrawCodeFacts
  <2>3. req' = [req EXCEPT ![r] = n]
    BY <1>3, <1>1 DEF TypeInv, TypeOK
  <2>4. codeInfo' = [codeInfo EXCEPT ![c] = info]
    BY <1>3
  <2> HIDE DEF info, n
  <2> QED
    BY <2>1, <2>2, <2>3, <2>4 DEF TypeInv, TypeOK
<1> QED
  BY <1>1, <1>2, <1>3, EnvFacts DEF ExchangeUpstream, TypeInv

LEMMA TypeExchangeUpstream ==
    ASSUME TypeInv, NEW r \in Slot, ExchangeUpstream(r)
    PROVE  TypeInv'
<1> DEFINE t == req[r].txn
<1>1. UNCHANGED <<env, now, registered, txnStore, codeStore, clientKnows, txnInfo,
                  userAgent, redeemed, redeemer>>
  BY DEF ExchangeUpstream, storage
<1>2. t \in Txn /\ txnInfo[t] # None
  BY ExchangeUpstreamStep
<1>3. cached' \in [Instance -> SUBSET Client] /\ rejected' \subseteq Txn
  BY <1>2, RecordFields DEF ExchangeUpstream, CacheFound, TypeInv, TypeOK
<1>4. TypeOK'
  BY <1>1, <1>3, ExchangeUpstreamStep DEF TypeInv, TypeOK, userAgent
<1>5. Drawn'
  <2>1. \A s \in Slot : req'[s].step \in TxnStep => txnInfo'[req'[s].txn] # None
    BY <1>1, <1>2, ExchangeUpstreamStep DEF TypeInv, Drawn, TxnStep
  <2>2. \A s \in Slot : req'[s].step \in CodeStep => codeInfo'[req'[s].code] # None
    BY SlotFields, ExchangeUpstreamStep DEF TypeInv, Drawn, CodeStep, ExchangeStep
  <2>3. \A d \in Code : codeInfo'[d] # None => txnInfo'[codeInfo'[d].txn] # None
    BY <1>1, <1>2, ExchangeUpstreamStep DEF TypeInv, Drawn
  <2>4. \A d \in Code : codeInfo[d] # None => codeInfo'[d] # None
    BY ExchangeUpstreamStep
  <2> QED
    BY <1>1, <2>1, <2>2, <2>3, <2>4 DEF TypeInv, Drawn, userAgent
<1> QED
  BY <1>4, <1>5 DEF TypeInv

\* Saving a code and handing it to the user agent.
LEMMA TypeSaveCode ==
    ASSUME TypeInv, NEW r \in Slot, SaveCode(r)
    PROVE  TypeInv'
<1> DEFINE c == req[r].code
<1>1. /\ c \in Code /\ codeInfo[c] # None
      /\ txnInfo[req[r].txn] # None /\ req[r].txn \in Txn
  BY SlotFields DEF SaveCode, TxnStep, CodeStep, ExchangeStep, TypeInv, Drawn
<1>2. /\ req' \in [Slot -> Request]
      /\ \A s \in Slot : req'[s].step # "idle" => req'[s] = req[s]
  BY ReplyFacts DEF SaveCode, TypeInv, TypeOK
<1>3. /\ delivered' \in [Code -> Uri \cup {None}]
      /\ \A d \in Code : d # c => delivered'[d] = delivered[d]
  BY <1>1, RecordFields DEF SaveCode, TypeInv, TypeOK
<1>4. /\ codeStore' = [codeStore EXCEPT ![c] = "live"]
      /\ UNCHANGED <<env, now, clients, txnStore, records, asked, approved,
                     revived, outcome>>
  BY DEF SaveCode
<1>5. TypeOK'
  BY <1>2, <1>3, <1>4 DEF TypeInv, TypeOK, clients, records, outcome, CodeState
<1>6. Drawn'
  BY <1>1, <1>2, <1>3, <1>4
     DEF TypeInv, TypeOK, Drawn, records, TxnStep, CodeStep, ExchangeStep
<1> QED
  BY <1>5, <1>6 DEF TypeInv

\* Taking the record of a code.
LEMMA TakeCodeStep ==
    ASSUME TypeInv, NEW r \in Slot, NEW q \in Request, q.step = "takeCode",
           TakeCode(r, q) \/ (~env.atomicTake /\ Begin(r, q))
    PROVE  /\ q.code \in Code
           /\ req' \in [Slot -> Request]
           /\ \A s \in Slot : s # r => req'[s] = req[s]
           /\ \/ req'[r].step = "idle"
              \/ /\ req'[r].code = q.code /\ req'[r].client = q.client
                 /\ req'[r].proof = q.proof /\ req'[r].got = q.got
                 /\ \/ req'[r].step = "markSpent"
                    \/ req'[r].step = "takeCode" /\ ~env.atomicTake
<1> DEFINE n == [q EXCEPT !.step = "markSpent"]
<1>1. /\ n \in Request /\ n.step = "markSpent" /\ n.code = q.code
      /\ n.client = q.client /\ n.proof = q.proof /\ n.got = q.got
      /\ q.code \in Code
  BY GotoFacts, RequestFields DEF ExchangeStep, CodeStep
<1>2. \/ req' = [req EXCEPT ![r] = Idle] \/ req' = [req EXCEPT ![r] = n]
      \/ ~env.atomicTake /\ req' = [req EXCEPT ![r] = q]
  BY DEF TakeCode, Begin
<1> HIDE DEF n
<1> QED
  BY <1>1, <1>2, IdleFacts DEF TypeInv, TypeOK

LEMMA TypeTakeCode ==
    ASSUME TypeInv, NEW r \in Slot, NEW q \in Request,
           q.step = "takeCode", codeInfo[q.code] # None,
           \/ TakeCode(r, q)
           \/ ~env.atomicTake /\ Begin(r, q) /\ UNCHANGED codeStore,
           cached' \in [Instance -> SUBSET Client],
           UNCHANGED <<env, now, registered, clientKnows, txnStore, records, userAgent,
                       outcome>>
    PROVE  TypeInv'
<1>1. /\ req' \in [Slot -> Request] /\ q.code \in Code
      /\ \A s \in Slot : s # r => req'[s] = req[s]
      /\ \/ req'[r].step = "idle"
         \/ req'[r].code = q.code /\ req'[r].step \in {"takeCode", "markSpent"}
  BY TakeCodeStep
<1>2. /\ codeStore' \in [Code -> CodeState]
      /\ \A c \in Code : codeStore'[c] # "absent" => codeStore[c] # "absent"
  BY <1>1 DEF TakeCode, CodeTaken, TypeInv, TypeOK, CodeState
<1>3. TypeOK'
  BY <1>1, <1>2 DEF TypeInv, TypeOK, records, userAgent, outcome
<1>4. Drawn'
  BY <1>1, <1>2 DEF TypeInv, Drawn, records, userAgent, TxnStep, CodeStep, ExchangeStep
<1> QED
  BY <1>3, <1>4 DEF TypeInv

LEMMA ExchangeStepFacts ==
    ASSUME TypeInv, NEW r \in Slot, NEW i \in Instance, NEW c \in Code,
           NEW cl \in Client, NEW p \in Proof, Exchange(r, i, c, cl, p)
    PROVE  \E q \in Request :
              /\ q.step = "takeCode" /\ q.code = c /\ q.client = cl
              /\ q.proof = p /\ q.got = codeStore[c]
              /\ \/ TakeCode(r, q)
                 \/ ~env.atomicTake /\ Begin(r, q) /\ UNCHANGED codeStore
<1> DEFINE q == OnCode(i, c, cl, p, codeStore[c])
<1>1. /\ q \in Request /\ q.step = "takeCode" /\ q.code = c /\ q.client = cl
      /\ q.proof = p /\ q.got = codeStore[c]
  BY OnCodeFacts DEF TypeInv, TypeOK
<1>2. TakeCode(r, q) \/ (~env.atomicTake /\ Begin(r, q) /\ UNCHANGED codeStore)
  BY DEF Exchange
<1> HIDE DEF q
<1> QED
  BY <1>1, <1>2

LEMMA TypeExchange ==
    ASSUME TypeInv, NEW r \in Slot, NEW i \in Instance, NEW c \in Code,
           NEW cl \in Client, NEW p \in Proof, Exchange(r, i, c, cl, p)
    PROVE  TypeInv'
<1>1. codeInfo[c] # None
  BY DEF Exchange, TypeInv, Drawn
<1>2. cached' \in [Instance -> SUBSET Client]
  BY DEF Exchange, CacheFound, TypeInv, TypeOK
<1>3. UNCHANGED <<env, now, registered, clientKnows, txnStore, records, userAgent, outcome>>
  BY DEF Exchange
<1> QED
  BY <1>1, <1>2, <1>3, ExchangeStepFacts, TypeTakeCode

\* The tombstone, and the outcome of the checks.
LEMMA MarkSpentStep ==
    ASSUME TypeInv, NEW r \in Slot, MarkSpent(r)
    PROVE  /\ req[r].code \in Code /\ codeInfo[req[r].code] # None
           /\ req' \in [Slot -> Request]
           /\ \A s \in Slot : s # r => req'[s] = req[s]
           /\ \/ req'[r].step = "idle"
              \/ /\ req'[r].step = "issue" /\ req'[r].code = req[r].code
                 /\ req'[r].client = req[r].client /\ req'[r].proof = req[r].proof
                 /\ req'[r].got = "live" /\ req[r].got = "live"
                 /\ SameClient(req[r].client, req[r].code)
                 /\ ProofOk(req[r].code, req[r].proof)
<1> DEFINE c == req[r].code
           n == [req[r] EXCEPT !.step = "issue"]
<1>1. c \in Code /\ codeInfo[c] # None /\ req[r] \in Request
  BY SlotFields DEF MarkSpent, CodeStep, ExchangeStep, TypeInv, Drawn
<1>2. /\ n \in Request /\ n.step = "issue" /\ n.code = c
      /\ n.client = req[r].client /\ n.proof = req[r].proof /\ n.got = req[r].got
  BY <1>1, GotoFacts DEF ExchangeStep, MarkSpent
<1>3. \/ req' = [req EXCEPT ![r] = Idle]
      \/ /\ req' = [req EXCEPT ![r] = n] /\ req[r].got = "live"
         /\ SameClient(req[r].client, c) /\ ProofOk(c, req[r].proof)
  BY DEF MarkSpent, Goto, Reply, TypeInv, TypeOK
<1> HIDE DEF n
<1> QED
  BY <1>1, <1>2, <1>3, IdleFacts DEF TypeInv, TypeOK

LEMMA TypeMarkSpent ==
    ASSUME TypeInv, NEW r \in Slot, MarkSpent(r)
    PROVE  TypeInv'
<1> DEFINE c == req[r].code
<1>1. /\ c \in Code /\ codeInfo[c] # None
      /\ req' \in [Slot -> Request]
      /\ \A s \in Slot : s # r => req'[s] = req[s]
      /\ req'[r].step = "idle" \/ (req'[r].code = c /\ req'[r].step = "issue")
  BY MarkSpentStep
<1>2. /\ codeStore' = [codeStore EXCEPT ![c] = "spent"]
      /\ UNCHANGED <<env, now, clients, txnStore, records, userAgent, outcome>>
  BY DEF MarkSpent, SpentRecord
<1>3. TypeOK'
  BY <1>1, <1>2 DEF TypeInv, TypeOK, clients, records, userAgent, outcome, CodeState
<1>4. Drawn'
  BY <1>1, <1>2
     DEF TypeInv, TypeOK, Drawn, records, userAgent, TxnStep, CodeStep, ExchangeStep
<1> QED
  BY <1>3, <1>4 DEF TypeInv

LEMMA TypeIssue ==
    ASSUME TypeInv, NEW r \in Slot, Issue(r)
    PROVE  TypeInv'
<1> DEFINE who == [client |-> req[r].client, proof |-> req[r].proof]
<1>1. /\ req[r].code \in Code /\ who \in Redeemer
  BY SlotFields, RequestFields DEF Issue, CodeStep, ExchangeStep, TypeInv, Redeemer
<1>2. /\ req' \in [Slot -> Request]
      /\ \A s \in Slot : req'[s].step # "idle" => req'[s] = req[s]
  BY ReplyFacts DEF Issue, TypeInv, TypeOK
<1>3. redeemer' = [redeemer EXCEPT ![req[r].code] = who]
  BY DEF Issue
<1> HIDE DEF who
<1>4. redeemed' \in [Code -> Nat] /\ redeemer' \in [Code -> Redeemer \cup {None}]
  BY <1>1, <1>3 DEF Issue, TypeInv, TypeOK
<1>5. UNCHANGED <<env, now, clients, txnStore, codeStore, records, userAgent, rejected>>
  BY DEF Issue
<1>6. TypeOK'
  BY <1>2, <1>4, <1>5 DEF TypeInv, TypeOK, clients, records, userAgent
<1>7. Drawn'
  BY <1>2, <1>5 DEF TypeInv, Drawn, records, userAgent, TxnStep, CodeStep, ExchangeStep
<1> QED
  BY <1>6, <1>7 DEF TypeInv

\* Steps that touch no record: failures, sweeps, registrations and time.
LEMMA TypeOther ==
    ASSUME TypeInv,
           \/ \E r \in Slot : Throw(r)
           \/ \E i \in env.instances : Crash(i)
           \/ \E i \in env.instances, c \in Client : Register(i, c)
           \/ Sweep \/ Tick \/ UNCHANGED vars
    PROVE  TypeInv'
<1>1. /\ req' \in [Slot -> Request]
      /\ \A s \in Slot : req'[s].step # "idle" => req'[s] = req[s]
  <2>1. ASSUME NEW r \in Slot, Throw(r) PROVE <1>1
    BY <2>1, ReplyFacts DEF Throw, TypeInv, TypeOK
  <2>2. ASSUME NEW i \in Instance, Crash(i) PROVE <1>1
    BY <2>2, IdleFacts DEF Crash, TypeInv, TypeOK
  <2>3. CASE UNCHANGED req
    BY <2>3 DEF TypeInv, TypeOK
  <2> QED
    BY <2>1, <2>2, <2>3, EnvFacts DEF Register, Sweep, Tick, vars, TypeInv
<1>2. /\ txnStore' \in [Txn -> {"absent", "pending", "approved"}]
      /\ codeStore' \in [Code -> CodeState]
      /\ \A t \in Txn : txnStore'[t] # "absent" => txnStore[t] # "absent"
      /\ \A c \in Code : codeStore'[c] # "absent" => codeStore[c] # "absent"
  BY DEF Throw, Crash, Register, Sweep, Tick, vars, TypeInv, TypeOK, CodeState
<1>3. /\ cached' \in [Instance -> SUBSET Client]
      /\ registered' \subseteq Client /\ clientKnows' \subseteq Client
      /\ now' \in Nat
  BY DEF Throw, Crash, Register, Sweep, Tick, vars, clients, TypeInv, TypeOK
<1>4. UNCHANGED <<env, records, userAgent, outcome>>
  BY DEF Throw, Crash, Register, Sweep, Tick, vars, records
<1>5. TypeOK'
  BY <1>1, <1>2, <1>3, <1>4 DEF TypeInv, TypeOK, records, userAgent, outcome
<1>6. Drawn'
  BY <1>1, <1>2, <1>4 DEF TypeInv, Drawn, records, userAgent, TxnStep, CodeStep, ExchangeStep
<1> QED
  BY <1>5, <1>6 DEF TypeInv

LEMMA TypeNext == TypeInv /\ [Next]_vars => TypeInv'
<1> SUFFICES ASSUME TypeInv, [Next]_vars PROVE TypeInv'
  OBVIOUS
<1>1. ASSUME NEW r \in Slot, NEW i \in Instance, Arrival(r, i) PROVE TypeInv'
  <2>1. ASSUME NEW t \in Txn, Callback(r, i, t) PROVE TypeInv'
    <3>1. txnInfo[t] # None
      BY <2>1 DEF Callback, TypeInv, Drawn
    <3> QED
      BY <2>1, <3>1, TypeTakeTxn DEF Callback
  <2> QED
    BY <1>1, <2>1, TypeAuthorize, TypeConsent, TypeExchange DEF Arrival
<1>2. ASSUME NEW r \in Slot, HandlerStep(r) PROVE TypeInv'
  <2>1. CASE FinishTakeTxn(r)
    <3>1. /\ req[r].txn \in Txn /\ txnInfo[req[r].txn] # None
          /\ req[r].at \in Instance \cup {None}
      BY <2>1, SlotFields, RequestFields DEF FinishTakeTxn, TxnStep, TypeInv, Drawn
    <3> QED
      BY <2>1, <3>1, TypeTakeTxn DEF FinishTakeTxn
  <2>2. CASE FinishTakeCode(r)
    <3>1. req[r] \in Request /\ codeInfo[req[r].code] # None
      BY <2>2, SlotFields DEF FinishTakeCode, CodeStep, ExchangeStep, TypeInv, Drawn
    <3>2. cached' \in [Instance -> SUBSET Client]
      BY <2>2 DEF FinishTakeCode, clients, TypeInv, TypeOK
    <3> QED
      BY <2>2, <3>1, <3>2, TypeTakeCode DEF FinishTakeCode, clients
  <2> QED
    BY <1>2, <2>1, <2>2, TypeSaveTxn, TypeExchangeUpstream, TypeSaveCode,
       TypeMarkSpent, TypeIssue, TypeOther DEF HandlerStep
<1> QED
  BY <1>1, <1>2, TypeOther, EnvFacts DEF Next, TypeInv

\* Every variable keeps its type, over every interleaving of handlers, crashes
\* and failed calls: in particular a suspended handler always works on a
\* transaction or a code that was drawn.
THEOREM TypeCorrect == Spec => []TypeOK
<1>1. TypeInv => TypeOK
  BY DEF TypeInv
<1> QED
  BY <1>1, TypeInit, TypeNext, PTL DEF Spec

--------------------------------------------------------------------------------
(* An authorization code is redeemed once, when the storage implements take() *)

LEMMA CodeInit == Init => CodeInv
BY IdleFacts DEF Init, CodeInv, Holds

\* Steps that leave codes alone but may remove their records.
LEMMA CodeQuiet ==
    ASSUME TypeInv, CodeInv,
           \A s \in Slot : \/ req'[s] = req[s]
                           \/ req'[s].step \notin CodeStep \cup {"takeTxn"},
           \A c \in Code : codeStore'[c] \in {codeStore[c], "absent"},
           UNCHANGED <<codeInfo, delivered, redeemed>>
    PROVE  CodeInv'
<1>1. \A s \in Slot, c \in Code : Holds(s, c)' => Holds(s, c) /\ req'[s] = req[s]
  BY DEF Holds, CodeStep, ExchangeStep
<1>2. /\ \A s \in Slot : req'[s].step \notin {"takeTxn", "takeCode"}
      /\ \A s \in Slot : req'[s].step = "issue" => req'[s].got = "live"
      /\ \A s \in Slot : req'[s].step = "saveCode" => delivered'[req'[s].code] = None
  BY DEF CodeInv, CodeStep, ExchangeStep
<1>3. /\ \A c \in Code : codeInfo'[c] = None => redeemed'[c] = 0
      /\ \A c \in Code : codeStore'[c] = "live" => redeemed'[c] = 0
      /\ \A c \in Code : redeemed'[c] <= 1
  BY DEF CodeInv
<1>4. /\ \A s \in Slot, c \in Code :
             Holds(s, c)' => codeStore'[c] # "live" /\ redeemed'[c] = 0
      /\ \A s, z \in Slot, c \in Code : Holds(s, c)' /\ Holds(z, c)' => s = z
  BY <1>1 DEF CodeInv
<1> QED
  BY <1>2, <1>3, <1>4 DEF CodeInv

\* The code drawn for a callback is nobody else's.
LEMMA CodeExchangeUpstream ==
    ASSUME TypeInv, CodeInv, NEW r \in Slot, ExchangeUpstream(r)
    PROVE  CodeInv'
<1>1. UNCHANGED <<codeStore, delivered, redeemed>>
  BY DEF ExchangeUpstream, storage, userAgent
<1>2. CASE req'[r].step = "idle" /\ UNCHANGED codeInfo
  BY <1>1, <1>2, ExchangeUpstreamStep, CodeQuiet DEF CodeStep, ExchangeStep
<1>3. ASSUME NEW c \in Code, codeInfo[c] = None, codeInfo'[c] # None,
             \A d \in Code : d # c => codeInfo'[d] = codeInfo[d],
             req'[r].step = "saveCode", req'[r].code = c
      PROVE  CodeInv'
  <2>1. \A s \in Slot : s # r => req'[s] = req[s]
    BY ExchangeUpstreamStep
  <2>2. codeStore[c] = "absent" /\ delivered[c] = None /\ redeemed[c] = 0
    BY <1>3 DEF TypeInv, Drawn, CodeInv
  <2>3. \A s \in Slot : ~Holds(s, c)
    BY <1>3 DEF TypeInv, Drawn, Holds, CodeStep, ExchangeStep
  <2>4. \A s \in Slot, d \in Code :
           Holds(s, d)' => (s = r /\ d = c) \/ (s # r /\ d # c /\ Holds(s, d))
    BY <1>3, <2>1, <2>3 DEF Holds
  <2>5. /\ \A s \in Slot : req'[s].step \notin {"takeTxn", "takeCode"}
        /\ \A s \in Slot : req'[s].step = "issue" => req'[s].got = "live"
        /\ \A s \in Slot : req'[s].step = "saveCode" => delivered'[req'[s].code] = None
    BY <1>1, <1>3, <2>1, <2>2 DEF CodeInv
  <2>6. /\ \A d \in Code : codeInfo'[d] = None => redeemed'[d] = 0
        /\ \A d \in Code : codeStore'[d] = "live" => redeemed'[d] = 0
        /\ \A d \in Code : redeemed'[d] <= 1
    BY <1>1, <1>3 DEF CodeInv
  <2>7. /\ \A s \in Slot, d \in Code :
               Holds(s, d)' => codeStore'[d] # "live" /\ redeemed'[d] = 0
        /\ \A s, z \in Slot, d \in Code : Holds(s, d)' /\ Holds(z, d)' => s = z
    BY <1>1, <2>2, <2>4 DEF CodeInv
  <2> QED
    BY <2>5, <2>6, <2>7 DEF CodeInv
<1> QED
  BY <1>2, <1>3, ExchangeUpstreamStep

\* The request that drew a code is the only one that ever stores it live.
LEMMA CodeSaveCode ==
    ASSUME TypeInv, CodeInv, NEW r \in Slot, SaveCode(r)
    PROVE  CodeInv'
<1> DEFINE c == req[r].code
<1>1. c \in Code /\ Holds(r, c)
  BY SlotFields DEF SaveCode, CodeStep, TypeInv, Holds
<1>2. /\ req'[r] = Idle /\ \A s \in Slot : s # r => req'[s] = req[s]
      /\ Idle.step = "idle"
  BY ReplyFacts, IdleFacts DEF SaveCode, TypeInv, TypeOK
<1>3. /\ codeStore' = [codeStore EXCEPT ![c] = "live"]
      /\ \A d \in Code : d # c => delivered'[d] = delivered[d]
      /\ UNCHANGED <<codeInfo, redeemed>>
  BY <1>1 DEF SaveCode, records, outcome, TypeInv, TypeOK
<1>4. \A s \in Slot, d \in Code : Holds(s, d)' => s # r /\ d # c /\ Holds(s, d)
  BY <1>1, <1>2 DEF Holds, CodeInv
<1>5. /\ \A s \in Slot : req'[s].step \notin {"takeTxn", "takeCode"}
      /\ \A s \in Slot : req'[s].step = "issue" => req'[s].got = "live"
  BY <1>2 DEF CodeInv
<1>6. \A s \in Slot : req'[s].step = "saveCode" => delivered'[req'[s].code] = None
  <2> SUFFICES ASSUME NEW s \in Slot, req'[s].step = "saveCode"
               PROVE  delivered'[req'[s].code] = None
    OBVIOUS
  <2>1. s # r /\ req'[s] = req[s]
    BY <1>2
  <2>2. req[s].code \in Code /\ req[s].code # c
    BY <1>1, <2>1, SlotFields DEF Holds, CodeInv, CodeStep, TypeInv
  <2> QED
    BY <1>3, <2>1, <2>2 DEF CodeInv
<1>7. /\ \A d \in Code : codeInfo'[d] = None => redeemed'[d] = 0
      /\ \A d \in Code : codeStore'[d] = "live" => redeemed'[d] = 0
      /\ \A d \in Code : redeemed'[d] <= 1
  BY <1>1, <1>3 DEF CodeInv, TypeInv, TypeOK
<1>8. /\ \A s \in Slot, d \in Code :
             Holds(s, d)' => codeStore'[d] # "live" /\ redeemed'[d] = 0
      /\ \A s, z \in Slot, d \in Code : Holds(s, d)' /\ Holds(z, d)' => s = z
  BY <1>3, <1>4 DEF CodeInv, TypeInv, TypeOK
<1> QED
  BY <1>5, <1>6, <1>7, <1>8 DEF CodeInv

\* Whoever takes a live code is its only holder.
LEMMA CodeExchange ==
    ASSUME env.atomicTake, TypeInv, CodeInv, NEW r \in Slot, NEW i \in Instance,
           NEW c \in Code, NEW cl \in Client, NEW p \in Proof,
           Exchange(r, i, c, cl, p)
    PROVE  CodeInv'
<1>1. PICK q \in Request : /\ q.step = "takeCode" /\ q.code = c
                           /\ q.got = codeStore[c] /\ TakeCode(r, q)
  BY ExchangeStepFacts
<1>2. /\ \A s \in Slot : s # r => req'[s] = req[s]
      /\ \/ req'[r].step = "idle"
         \/ /\ req'[r].step = "markSpent" /\ req'[r].code = c
            /\ req'[r].got = codeStore[c]
  BY <1>1, TakeCodeStep
<1>3. /\ codeStore' = [codeStore EXCEPT ![c] = "absent"]
      /\ UNCHANGED <<codeInfo, delivered, redeemed>>
  BY <1>1 DEF TakeCode, CodeTaken, Exchange, records, userAgent, outcome
<1>4. \A s \in Slot, d \in Code :
         Holds(s, d)' => \/ s # r /\ Holds(s, d)
                         \/ s = r /\ d = c /\ codeStore[c] = "live"
  BY <1>2 DEF Holds
<1>5. /\ \A s \in Slot : req'[s].step \notin {"takeTxn", "takeCode"}
      /\ \A s \in Slot : req'[s].step = "issue" => req'[s].got = "live"
      /\ \A s \in Slot : req'[s].step = "saveCode" => delivered'[req'[s].code] = None
  BY <1>2, <1>3 DEF CodeInv
<1>6. /\ \A d \in Code : codeInfo'[d] = None => redeemed'[d] = 0
      /\ \A d \in Code : codeStore'[d] = "live" => redeemed'[d] = 0
      /\ \A d \in Code : redeemed'[d] <= 1
  BY <1>3 DEF CodeInv, TypeInv, TypeOK
<1>7. /\ \A s \in Slot, d \in Code :
             Holds(s, d)' => codeStore'[d] # "live" /\ redeemed'[d] = 0
      /\ \A s, z \in Slot, d \in Code : Holds(s, d)' /\ Holds(z, d)' => s = z
  BY <1>3, <1>4 DEF CodeInv, TypeInv, TypeOK
<1> QED
  BY <1>5, <1>6, <1>7 DEF CodeInv

\* The tombstone never makes a code live, and only a live code is issued for.
LEMMA CodeMarkSpent ==
    ASSUME TypeInv, CodeInv, NEW r \in Slot, MarkSpent(r)
    PROVE  CodeInv'
<1> DEFINE c == req[r].code
<1>1. /\ c \in Code /\ \A s \in Slot : s # r => req'[s] = req[s]
      /\ \/ req'[r].step = "idle"
         \/ /\ req'[r].step = "issue" /\ req'[r].code = c
            /\ req'[r].got = "live" /\ req[r].got = "live"
  BY MarkSpentStep
<1>2. /\ codeStore' = [codeStore EXCEPT ![c] = "spent"] /\ req[r].step = "markSpent"
      /\ UNCHANGED <<codeInfo, delivered, redeemed>>
  BY DEF MarkSpent, SpentRecord, records, userAgent, outcome
<1>3. \A s \in Slot, d \in Code : Holds(s, d)' => Holds(s, d)
  BY <1>1, <1>2 DEF Holds
<1>4. /\ \A s \in Slot : req'[s].step \notin {"takeTxn", "takeCode"}
      /\ \A s \in Slot : req'[s].step = "issue" => req'[s].got = "live"
      /\ \A s \in Slot : req'[s].step = "saveCode" => delivered'[req'[s].code] = None
  BY <1>1, <1>2 DEF CodeInv
<1>5. /\ \A d \in Code : codeInfo'[d] = None => redeemed'[d] = 0
      /\ \A d \in Code : codeStore'[d] = "live" => redeemed'[d] = 0
      /\ \A d \in Code : redeemed'[d] <= 1
  BY <1>2 DEF CodeInv, TypeInv, TypeOK
<1>6. /\ \A s \in Slot, d \in Code :
             Holds(s, d)' => codeStore'[d] # "live" /\ redeemed'[d] = 0
      /\ \A s, z \in Slot, d \in Code : Holds(s, d)' /\ Holds(z, d)' => s = z
  BY <1>2, <1>3 DEF CodeInv, TypeInv, TypeOK
<1> QED
  BY <1>4, <1>5, <1>6 DEF CodeInv

LEMMA CodeIssue ==
    ASSUME TypeInv, CodeInv, NEW r \in Slot, Issue(r)
    PROVE  CodeInv'
<1> DEFINE c == req[r].code
<1>1. c \in Code /\ Holds(r, c) /\ codeInfo[c] # None
  BY SlotFields DEF Issue, CodeStep, ExchangeStep, TypeInv, Drawn, Holds, CodeInv
<1>2. /\ req'[r] = Idle /\ \A s \in Slot : s # r => req'[s] = req[s]
      /\ Idle.step = "idle"
  BY ReplyFacts, IdleFacts DEF Issue, TypeInv, TypeOK
<1>3. /\ redeemed' = [redeemed EXCEPT ![c] = @ + 1]
      /\ UNCHANGED <<codeStore, codeInfo, delivered>>
  BY DEF Issue, records, userAgent
<1>4. codeStore[c] # "live" /\ redeemed[c] = 0
  BY <1>1 DEF CodeInv
<1>5. \A s \in Slot, d \in Code : Holds(s, d)' => s # r /\ d # c /\ Holds(s, d)
  BY <1>1, <1>2 DEF Holds, CodeInv
<1>6. /\ \A s \in Slot : req'[s].step \notin {"takeTxn", "takeCode"}
      /\ \A s \in Slot : req'[s].step = "issue" => req'[s].got = "live"
      /\ \A s \in Slot : req'[s].step = "saveCode" => delivered'[req'[s].code] = None
  BY <1>2, <1>3 DEF CodeInv
<1>7. /\ \A d \in Code : codeInfo'[d] = None => redeemed'[d] = 0
      /\ \A d \in Code : codeStore'[d] = "live" => redeemed'[d] = 0
      /\ \A d \in Code : redeemed'[d] <= 1
  BY <1>1, <1>3, <1>4 DEF CodeInv, TypeInv, TypeOK
<1>8. /\ \A s \in Slot, d \in Code :
             Holds(s, d)' => codeStore'[d] # "live" /\ redeemed'[d] = 0
      /\ \A s, z \in Slot, d \in Code : Holds(s, d)' /\ Holds(z, d)' => s = z
  BY <1>3, <1>5 DEF CodeInv, TypeInv, TypeOK
<1> QED
  BY <1>6, <1>7, <1>8 DEF CodeInv

\* The remaining steps leave codes alone, except that records may expire.
LEMMA CodeNext ==
    ASSUME env.atomicTake, TypeInv, CodeInv, [Next]_vars
    PROVE  CodeInv'
<1>1. ASSUME NEW r \in Slot, NEW i \in Instance, Arrival(r, i) PROVE CodeInv'
  <2>1. ASSUME NEW c \in Client, NEW u \in Uri, NEW pkce \in BOOLEAN,
               Authorize(r, i, c, u, pkce) PROVE CodeInv'
    <3>1. UNCHANGED <<codeStore, codeInfo, delivered, redeemed>>
      BY <2>1 DEF Authorize, storage, userAgent, outcome
    <3> QED
      BY <2>1, <3>1, AuthorizeStep, CodeQuiet DEF CodeStep, ExchangeStep
  <2>2. ASSUME NEW t \in Txn, NEW action \in {"approve", "deny"},
               Consent(r, i, t, action) PROVE CodeInv'
    <3>1. UNCHANGED <<codeStore, codeInfo, delivered, redeemed>>
      BY <2>2 DEF Consent, records, outcome
    <3> QED
      BY <2>2, <3>1, ConsentStep, CodeQuiet DEF CodeStep, ExchangeStep
  <2>3. ASSUME NEW t \in Txn, Callback(r, i, t) PROVE CodeInv'
    <3>1. UNCHANGED <<codeStore, codeInfo, delivered, redeemed>>
      BY <2>3 DEF Callback, records, userAgent, outcome
    <3>2. TakeTxn(r, i, t)
      BY <2>3 DEF Callback
    <3>3. /\ \A s \in Slot : s # r => req'[s] = req[s]
          /\ req'[r].step \in {"idle", "exchangeUpstream"}
      BY <3>2, TakeTxnStep
    <3> QED
      BY <3>1, <3>3, CodeQuiet DEF CodeStep, ExchangeStep
  <2> QED
    BY <1>1, <2>1, <2>2, <2>3, CodeExchange DEF Arrival
<1>2. ASSUME NEW r \in Slot, HandlerStep(r) PROVE CodeInv'
  <2>1. CASE SaveTxn(r) \/ SaveApproval(r) \/ DeleteTxn(r) \/ Throw(r)
    <3>1. UNCHANGED <<codeStore, codeInfo, delivered, redeemed>>
      BY <2>1 DEF SaveTxn, SaveApproval, DeleteTxn, Throw, records, userAgent, outcome
    <3>2. \A s \in Slot : req'[s].step # "idle" => req'[s] = req[s]
      BY <2>1, ReplyFacts DEF SaveTxn, SaveApproval, DeleteTxn, Throw, TypeInv, TypeOK
    <3> QED
      BY <3>1, <3>2, CodeQuiet DEF CodeStep, ExchangeStep
  <2>2. ~FinishTakeTxn(r) /\ ~FinishTakeCode(r)
    BY DEF FinishTakeTxn, FinishTakeCode, CodeInv
  <2> QED
    BY <1>2, <2>1, <2>2, CodeExchangeUpstream, CodeSaveCode, CodeMarkSpent, CodeIssue
       DEF HandlerStep
<1>3. CASE \/ \E i \in env.instances : Crash(i)
           \/ \E i \in env.instances, c \in Client : Register(i, c)
           \/ Sweep \/ Tick \/ UNCHANGED vars
  <2>1. UNCHANGED <<codeInfo, delivered, redeemed>>
    BY <1>3 DEF Crash, Register, Sweep, Tick, vars, records, userAgent, outcome
  <2>2. \A c \in Code : codeStore'[c] \in {codeStore[c], "absent"}
    BY <1>3 DEF Crash, Register, Sweep, Tick, vars, TypeInv, TypeOK
  <2>3. \A s \in Slot : req'[s].step # "idle" => req'[s] = req[s]
    BY <1>3, IdleFacts DEF Crash, Register, Sweep, Tick, vars
  <2> QED
    BY <2>1, <2>2, <2>3, CodeQuiet DEF CodeStep, ExchangeStep
<1> QED
  BY <1>1, <1>2, <1>3, EnvFacts DEF Next, TypeInv

\* No step changes the deployment.
LEMMA EnvNext == [Next]_vars => env' = env
<1>1. ASSUME NEW r \in Slot, NEW i \in env.instances, Arrival(r, i) PROVE env' = env
  BY <1>1 DEF Arrival, Authorize, Consent, Callback, Exchange
<1>2. ASSUME NEW r \in Slot, HandlerStep(r) PROVE env' = env
  BY <1>2 DEF HandlerStep, SaveTxn, DeleteTxn, SaveApproval, FinishTakeTxn, SaveCode,
       ExchangeUpstream, FinishTakeCode, MarkSpent, Issue, Throw
<1> QED
  BY <1>1, <1>2 DEF Next, Register, Crash, Sweep, Tick, vars

LEMMA CodeInvariant == Spec => [](TypeInv /\ (env.atomicTake => CodeInv))
<1>1. Init => TypeInv /\ (env.atomicTake => CodeInv)
  BY TypeInit, CodeInit
<1>2. TypeInv /\ (env.atomicTake => CodeInv) /\ [Next]_vars
          => (TypeInv /\ (env.atomicTake => CodeInv))'
  BY TypeNext, CodeNext, EnvNext
<1> QED
  BY <1>1, <1>2, PTL DEF Spec

\* With a storage that implements take(), an authorization code is answered
\* with tokens at most once, over every interleaving of exchanges on any
\* number of instances, crashes, failed calls and expiry.
THEOREM CodeRedeemedOnceHolds == Spec => []CodeRedeemedOnce
<1>1. (env.atomicTake => CodeInv) => CodeRedeemedOnce
  BY DEF CodeInv, CodeRedeemedOnce
<1> QED
  BY <1>1, CodeInvariant, PTL

--------------------------------------------------------------------------------
(* A spent code stays spent, with or without take() *)

\* Whoever is about to save a code drew it: nobody else saves it, and it was
\* never handed out.
SaveInv ==
    /\ \A r \in Slot : req[r].step = "saveCode" => delivered[req[r].code] = None
    /\ \A r, s \in Slot : req[r].step = "saveCode" /\ req[s].step = "saveCode"
                              /\ req[r].code = req[s].code => r = s

LEMMA SaveInit == Init => SaveInv
BY IdleFacts DEF Init, SaveInv

\* Steps that leave the codes about to be saved alone.
LEMMA SaveQuiet ==
    ASSUME SaveInv, UNCHANGED delivered,
           \A s \in Slot : req'[s] = req[s] \/ req'[s].step # "saveCode"
    PROVE  SaveInv'
BY DEF SaveInv

\* A fresh code is in nobody's hands.
LEMMA SaveExchangeUpstream ==
    ASSUME TypeInv, SaveInv, NEW r \in Slot, ExchangeUpstream(r)
    PROVE  SaveInv'
<1>1. UNCHANGED delivered
  BY DEF ExchangeUpstream, userAgent
<1>2. CASE req'[r].step = "idle"
  BY <1>1, <1>2, ExchangeUpstreamStep, SaveQuiet
<1>3. ASSUME NEW c \in Code, codeInfo[c] = None,
             req'[r].step = "saveCode", req'[r].code = c
      PROVE  SaveInv'
  <2>1. delivered[c] = None
    BY <1>3 DEF TypeInv, Drawn
  <2>2. \A s \in Slot : req[s].step = "saveCode" => req[s].code # c
    BY <1>3 DEF TypeInv, Drawn, CodeStep, ExchangeStep
  <2> QED
    BY <1>1, <1>3, <2>1, <2>2, ExchangeUpstreamStep DEF SaveInv
<1> QED
  BY <1>2, <1>3, ExchangeUpstreamStep

LEMMA SaveSaveCode ==
    ASSUME TypeInv, SaveInv, NEW r \in Slot, SaveCode(r)
    PROVE  SaveInv'
<1>1. /\ \A s \in Slot : req'[s].step # "idle" => s # r /\ req'[s] = req[s]
      /\ req[r].code \in Code /\ req[r].step = "saveCode"
  BY ReplyFacts, SlotFields DEF SaveCode, CodeStep, TypeInv, TypeOK
<1>2. \A d \in Code : d # req[r].code => delivered'[d] = delivered[d]
  BY DEF SaveCode, TypeInv, TypeOK
<1>3. \A s \in Slot : req'[s].step = "saveCode" =>
         req'[s] = req[s] /\ req[s].code \in Code /\ req[s].code # req[r].code
  BY <1>1, SlotFields DEF SaveInv, CodeStep, TypeInv
<1> QED
  BY <1>2, <1>3 DEF SaveInv

LEMMA SaveNext == TypeInv /\ SaveInv /\ [Next]_vars => SaveInv'
<1> SUFFICES ASSUME TypeInv, SaveInv, [Next]_vars PROVE SaveInv'
  OBVIOUS
<1>1. ASSUME NEW r \in Slot, NEW i \in Instance, Arrival(r, i) PROVE SaveInv'
  <2>1. UNCHANGED delivered
    BY <1>1 DEF Arrival, Authorize, Consent, Callback, Exchange, userAgent
  <2>2. \A s \in Slot : req'[s] = req[s] \/ req'[s].step # "saveCode"
    <3>1. ASSUME NEW t \in Txn, Callback(r, i, t)
          PROVE  \A s \in Slot : req'[s] = req[s] \/ req'[s].step # "saveCode"
      BY <3>1, TakeTxnStep DEF Callback
    <3> QED
      BY <1>1, <3>1, AuthorizeStep, ConsentStep, ExchangeStepFacts, TakeCodeStep
         DEF Arrival
  <2> QED
    BY <2>1, <2>2, SaveQuiet
<1>2. ASSUME NEW r \in Slot, HandlerStep(r), ~SaveCode(r), ~ExchangeUpstream(r)
      PROVE  SaveInv'
  <2>1. UNCHANGED delivered
    BY <1>2 DEF HandlerStep, SaveTxn, DeleteTxn, SaveApproval, FinishTakeTxn,
                FinishTakeCode, MarkSpent, Issue, Throw, userAgent
  <2>2. CASE SaveTxn(r) \/ DeleteTxn(r) \/ SaveApproval(r) \/ Issue(r) \/ Throw(r)
    <3>1. \A s \in Slot : req'[s].step # "idle" => req'[s] = req[s]
      BY <2>2, ReplyFacts DEF SaveTxn, DeleteTxn, SaveApproval, Issue, Throw, TypeInv, TypeOK
    <3> QED
      BY <2>1, <3>1, SaveQuiet
  <2>3. CASE FinishTakeTxn(r)
    <3>1. req[r].txn \in Txn /\ req[r].at \in Instance \cup {None}
      BY <2>3, SlotFields, RequestFields DEF FinishTakeTxn, TxnStep, TypeInv
    <3> QED
      BY <2>1, <2>3, <3>1, TakeTxnStep, SaveQuiet DEF FinishTakeTxn
  <2>4. CASE FinishTakeCode(r)
    <3>1. req[r] \in Request
      BY DEF TypeInv, TypeOK
    <3> QED
      BY <2>1, <2>4, <3>1, TakeCodeStep, SaveQuiet DEF FinishTakeCode
  <2>5. CASE MarkSpent(r)
    BY <2>1, <2>5, MarkSpentStep, SaveQuiet
  <2> QED
    BY <1>2, <2>2, <2>3, <2>4, <2>5 DEF HandlerStep
<1>3. CASE \/ \E i \in env.instances : Crash(i)
           \/ \E i \in env.instances, c \in Client : Register(i, c)
           \/ Sweep \/ Tick \/ UNCHANGED vars
  <2>1. UNCHANGED delivered
    BY <1>3 DEF Crash, Register, Sweep, Tick, vars, userAgent
  <2>2. \A s \in Slot : req'[s].step # "idle" => req'[s] = req[s]
    BY <1>3, IdleFacts DEF Crash, Register, Sweep, Tick, vars
  <2> QED
    BY <2>1, <2>2, SaveQuiet
<1> QED
  BY <1>1, <1>2, <1>3, EnvFacts, SaveSaveCode, SaveExchangeUpstream DEF Next, TypeInv

\* No step stores a code live that was handed out and taken before.
THEOREM SpentStaysSpentHolds == Spec => SpentStaysSpent
<1> DEFINE NotRevived ==
      \A c \in Code :
          delivered[c] # None /\ codeStore[c] # "live" => codeStore'[c] # "live"
<1>1. TypeInv /\ SaveInv /\ [Next]_vars => [NotRevived]_vars
  <2> SUFFICES ASSUME TypeInv, SaveInv, Next PROVE NotRevived
    BY DEF vars
  <2>1. ASSUME NEW r \in Slot, SaveCode(r) PROVE NotRevived
    <3>1. /\ req[r].code \in Code /\ delivered[req[r].code] = None
          /\ codeStore' = [codeStore EXCEPT ![req[r].code] = "live"]
      BY <2>1, SlotFields DEF SaveCode, CodeStep, TypeInv, SaveInv
    <3> QED
      BY <3>1 DEF TypeInv, TypeOK
  <2>2. ASSUME NEW r \in Slot, HandlerStep(r), ~SaveCode(r) PROVE NotRevived
    BY <2>2 DEF HandlerStep, SaveTxn, DeleteTxn, SaveApproval, FinishTakeTxn,
       ExchangeUpstream, FinishTakeCode, TakeCode, CodeTaken, MarkSpent, SpentRecord,
       Issue, Throw, storage, TypeInv, TypeOK
  <2>3. ASSUME NEW r \in Slot, NEW i \in Instance, Arrival(r, i) PROVE NotRevived
    BY <2>3 DEF Arrival, Authorize, Consent, Callback, Exchange, TakeCode, CodeTaken,
       OnCode, Idle, storage, TypeInv, TypeOK
  <2>4. CASE \/ \E i \in env.instances : Crash(i)
             \/ \E i \in env.instances, c \in Client : Register(i, c)
             \/ Sweep \/ Tick
    BY <2>4 DEF Crash, Register, Sweep, Tick, TypeInv, TypeOK
  <2> QED
    BY <2>1, <2>2, <2>3, <2>4, EnvFacts DEF Next, TypeInv
<1> QED
  BY <1>1, TypeInit, TypeNext, SaveInit, SaveNext, PTL DEF Spec, SpentStaysSpent
================================================================================
