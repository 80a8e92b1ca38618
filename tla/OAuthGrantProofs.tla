---------------------------- MODULE OAuthGrantProofs ----------------------------
(***************************************************************************)
(* From the authorization request to the tokens: a transaction is called   *)
(* back at most once unless an approval was saved over its removal; the    *)
(* client whose redirect URI carried the code gets the tokens; accepted    *)
(* requests are completed; and, from this and from OAuthFlowProofs, the    *)
(* whole is an authorization code grant.                                   *)
(***************************************************************************)
EXTENDS OAuthFlowProofs

--------------------------------------------------------------------------------
(* A callback is redeemed once, when the storage implements take() *)

\* Request r is about to store transaction t for the first time, ...
Saving(r, t) == req[r].txn = t /\ req[r].step = "saveTxn"

\* ... took transaction t and has not drawn its code yet.
Took(r, t) == req[r].txn = t /\ req[r].step = "exchangeUpstream"

\* Code c was made for transaction t.
Of(c, t) == codeInfo[c] # None /\ codeInfo[c].txn = t

\* A transaction is about to be stored by one request, stored, taken by one
\* request, or turned into one code: never two of these.
Once(t) ==
    /\ \A r \in Slot : Saving(r, t) =>
           /\ txnStore[t] = "absent"
           /\ \A s \in Slot : ~Took(s, t)
           /\ \A c \in Code : ~Of(c, t)
    /\ \A r, s \in Slot : Saving(r, t) /\ Saving(s, t) => r = s
    /\ \A r \in Slot : Took(r, t) =>
           txnStore[t] = "absent" /\ \A c \in Code : ~Of(c, t)
    /\ \A r, s \in Slot : Took(r, t) /\ Took(s, t) => r = s
    /\ \A c \in Code : Of(c, t) => txnStore[t] = "absent"
    /\ \A c, d \in Code : Of(c, t) /\ Of(d, t) => c = d

\* ... unless an approval was saved over its removal.
TxnInv ==
    /\ \A r \in Slot : req[r].step # "takeTxn"
    /\ \A t \in Txn : t \notin revived => Once(t)

LEMMA TxnInit == Init => TxnInv
BY IdleFacts DEF Init, TxnInv, Once, Saving, Took, Of

\* Steps that neither start the transaction nor store it anew.
LEMMA OnceKept ==
    ASSUME NEW t, Once(t),
           \A s \in Slot : (Saving(s, t)' => Saving(s, t)) /\ (Took(s, t)' => Took(s, t)),
           \A c \in Code : Of(c, t)' => Of(c, t),
           txnStore[t] = "absent" => txnStore'[t] = "absent"
    PROVE  Once(t)'
BY DEF Once

\* Steps that neither save, take nor redeem a transaction.
LEMMA TxnQuiet ==
    ASSUME TypeInv, TxnInv,
           \A s \in Slot : \/ req'[s] = req[s]
                           \/ req'[s].step \notin {"saveTxn", "takeTxn", "exchangeUpstream"},
           \A t \in Txn : txnStore'[t] \in {txnStore[t], "absent"},
           UNCHANGED <<codeInfo, revived>>
    PROVE  TxnInv'
<1>1. ASSUME NEW t \in Txn, t \notin revived PROVE Once(t)'
  <2>1. \A s \in Slot : (Saving(s, t)' => Saving(s, t)) /\ (Took(s, t)' => Took(s, t))
    BY DEF Saving, Took
  <2>2. \A c \in Code : Of(c, t)' => Of(c, t)
    BY DEF Of
  <2>3. Once(t) /\ (txnStore[t] = "absent" => txnStore'[t] = "absent")
    BY <1>1 DEF TxnInv
  <2> QED
    BY <2>1, <2>2, <2>3, OnceKept
<1> QED
  BY <1>1 DEF TxnInv

\* A transaction just drawn is with nobody else.
LEMMA TxnAuthorize ==
    ASSUME TypeInv, TxnInv, NEW r \in Slot, NEW i \in Instance, NEW c \in Client,
           NEW u \in Uri, NEW pkce \in BOOLEAN, Authorize(r, i, c, u, pkce)
    PROVE  TxnInv'
<1>1. PICK t \in Txn :
         /\ txnInfo[t] = None
         /\ req'[r].step = "saveTxn" /\ req'[r].txn = t
         /\ \A s \in Slot : s # r => req'[s] = req[s]
  BY AuthorizeStep
<1>2. UNCHANGED <<txnStore, codeInfo, revived>>
  BY DEF Authorize, storage, userAgent
<1>3. /\ txnStore[t] = "absent"
      /\ \A s \in Slot : ~Saving(s, t) /\ ~Took(s, t)
      /\ \A d \in Code : ~Of(d, t)
  BY <1>1 DEF Saving, Took, Of, TypeInv, Drawn, TxnStep
<1>4. /\ \A s \in Slot, x \in Txn : Saving(s, x)' => (s = r /\ x = t) \/ Saving(s, x)
      /\ \A s \in Slot, x \in Txn : Took(s, x)' => Took(s, x)
      /\ \A d \in Code, x \in Txn : Of(d, x)' => Of(d, x)
  BY <1>1, <1>2 DEF Saving, Took, Of
<1>5. Once(t)'
  BY <1>2, <1>3, <1>4 DEF Once
<1>6. ASSUME NEW x \in Txn, x # t, x \notin revived PROVE Once(x)'
  BY <1>2, <1>4, <1>6, OnceKept DEF TxnInv
<1> QED
  BY <1>1, <1>2, <1>5, <1>6 DEF TxnInv

\* A transaction is stored, or its approval saved over the record.
LEMMA TxnStored ==
    ASSUME TypeInv, TxnInv, NEW r \in Slot, SaveTxn(r) \/ SaveApproval(r)
    PROVE  TxnInv'
<1>1. PICK t \in Txn : t = req[r].txn
  BY SlotFields DEF SaveTxn, SaveApproval, TxnStep, TypeInv
<1>2. \A s \in Slot : req'[s].step # "idle" => s # r /\ req'[s] = req[s]
  BY ReplyFacts DEF SaveTxn, SaveApproval, TypeInv, TypeOK
<1>3. /\ \A x \in Txn : x # t => txnStore'[x] = txnStore[x]
      /\ UNCHANGED codeInfo /\ revived \subseteq revived'
      /\ Saving(r, t) \/ txnStore[t] # "absent" \/ t \in revived'
  BY <1>1 DEF SaveTxn, SaveApproval, Saving, records, TypeInv, TypeOK
<1>4. /\ \A s \in Slot, x \in Txn : Saving(s, x)' => s # r /\ Saving(s, x)
      /\ \A s \in Slot, x \in Txn : Took(s, x)' => Took(s, x)
      /\ \A c \in Code, x \in Txn : Of(c, x)' => Of(c, x)
  BY <1>2, <1>3 DEF Saving, Took, Of
<1>5. ASSUME t \notin revived' PROVE Once(t)'
  <2>1. Once(t)
    BY <1>1, <1>3, <1>5 DEF TxnInv
  <2>2. CASE Saving(r, t)
    BY <1>1, <1>4, <2>1, <2>2 DEF Once
  <2>3. CASE txnStore[t] # "absent"
    BY <1>1, <1>4, <2>1, <2>3, OnceKept
  <2> QED
    BY <1>3, <1>5, <2>2, <2>3
<1>6. ASSUME NEW x \in Txn, x # t, x \notin revived' PROVE Once(x)'
  <2>1. Once(x) /\ (txnStore[x] = "absent" => txnStore'[x] = "absent")
    BY <1>3, <1>6 DEF TxnInv
  <2> QED
    BY <1>4, <2>1, OnceKept
<1>7. \A s \in Slot : req'[s].step # "takeTxn"
  BY <1>2 DEF TxnInv
<1> QED
  BY <1>5, <1>6, <1>7 DEF TxnInv

\* Whoever takes a transaction is the only one to have taken it.
LEMMA TxnCallback ==
    ASSUME env.atomicTake, TypeInv, TxnInv, NEW r \in Slot, NEW i \in Instance,
           NEW t \in Txn, Callback(r, i, t)
    PROVE  TxnInv'
<1>1. /\ txnStore[t] # "absent" /\ TakeTxn(r, i, t)
      /\ UNCHANGED <<codeInfo, revived>>
  BY DEF Callback, records, userAgent
<1>2. \A x \in Txn : txnStore'[x] = IF x = t THEN "absent" ELSE txnStore[x]
  BY <1>1 DEF TakeTxn, TxnTaken, TypeInv, TypeOK
<1>3. /\ \A s \in Slot : s # r => req'[s] = req[s]
      /\ req'[r].step = "idle" \/ (req'[r].step = "exchangeUpstream" /\ req'[r].txn = t)
  BY <1>1, TakeTxnStep
<1>4. /\ \A s \in Slot, x \in Txn : Saving(s, x)' => Saving(s, x)
      /\ \A s \in Slot, x \in Txn : Took(s, x)' => (s = r /\ x = t) \/ Took(s, x)
      /\ \A c \in Code, x \in Txn : Of(c, x)' => Of(c, x)
  BY <1>1, <1>3 DEF Saving, Took, Of
<1>5. ASSUME t \notin revived PROVE Once(t)'
  <2>1. Once(t)
    BY <1>5 DEF TxnInv
  <2> QED
    BY <1>1, <1>2, <1>4, <2>1 DEF Once
<1>6. ASSUME NEW x \in Txn, x # t, x \notin revived PROVE Once(x)'
  BY <1>2, <1>4, <1>6, OnceKept DEF TxnInv
<1>7. \A s \in Slot : req'[s].step # "takeTxn"
  BY <1>3 DEF TxnInv
<1> QED
  BY <1>1, <1>5, <1>6, <1>7 DEF TxnInv

\* The code drawn for a transaction is its first.
LEMMA TxnExchangeUpstream ==
    ASSUME TypeInv, TxnInv, NEW r \in Slot, ExchangeUpstream(r)
    PROVE  TxnInv'
<1> PICK t \in Txn : t = req[r].txn
  BY ExchangeUpstreamStep
<1>1. Took(r, t) /\ UNCHANGED <<txnStore, revived>>
  BY DEF ExchangeUpstream, storage, userAgent, Took
<1>2. CASE req'[r].step = "idle" /\ UNCHANGED codeInfo
  BY <1>1, <1>2, ExchangeUpstreamStep, TxnQuiet
<1>3. ASSUME NEW c \in Code, codeInfo'[c].txn = t,
             \A d \in Code : d # c => codeInfo'[d] = codeInfo[d],
             req'[r].step = "saveCode"
      PROVE  TxnInv'
  <2>1. \A s \in Slot : s # r => req'[s] = req[s]
    BY ExchangeUpstreamStep
  <2>2. /\ \A s \in Slot, x \in Txn : Saving(s, x)' => Saving(s, x)
        /\ \A s \in Slot, x \in Txn : Took(s, x)' => s # r /\ Took(s, x)
        /\ \A d \in Code, x \in Txn : Of(d, x)' => (d = c /\ x = t) \/ Of(d, x)
    BY <1>3, <2>1 DEF Saving, Took, Of
  <2>3. ASSUME t \notin revived PROVE Once(t)'
    <3>1. Once(t)
      BY <1>1, <2>3 DEF TxnInv
    <3> QED
      BY <1>1, <2>2, <3>1 DEF Once
  <2>4. ASSUME NEW x \in Txn, x # t, x \notin revived PROVE Once(x)'
    BY <1>1, <2>2, <2>4, OnceKept DEF TxnInv
  <2>5. \A s \in Slot : req'[s].step # "takeTxn"
    BY <1>3, <2>1 DEF TxnInv
  <2> QED
    BY <1>1, <2>3, <2>4, <2>5 DEF TxnInv
<1> QED
  BY <1>2, <1>3, ExchangeUpstreamStep

LEMMA TxnNext ==
    ASSUME env.atomicTake, TypeInv, TxnInv, [Next]_vars
    PROVE  TxnInv'
<1>1. ASSUME NEW r \in Slot, NEW i \in Instance, NEW c \in Code, NEW cl \in Client,
             NEW p \in Proof, Exchange(r, i, c, cl, p)
      PROVE  TxnInv'
  <2>1. UNCHANGED <<txnStore, codeInfo, revived>>
    BY <1>1 DEF Exchange, records, userAgent
  <2> QED
    BY <1>1, <2>1, ExchangeStepFacts, TakeCodeStep, TxnQuiet
<1>2. ASSUME NEW r \in Slot, DeleteTxn(r) \/ SaveCode(r) \/ Issue(r) \/ Throw(r)
      PROVE  TxnInv'
  <2>1. /\ \A t \in Txn : txnStore'[t] \in {txnStore[t], "absent"}
        /\ UNCHANGED <<codeInfo, revived>>
    BY <1>2 DEF DeleteTxn, SaveCode, Issue, Throw, records, userAgent, TypeInv, TypeOK
  <2>2. \A s \in Slot : req'[s].step # "idle" => req'[s] = req[s]
    BY <1>2, ReplyFacts DEF DeleteTxn, SaveCode, Issue, Throw, TypeInv, TypeOK
  <2> QED
    BY <2>1, <2>2, TxnQuiet
<1>3. ASSUME NEW r \in Slot, MarkSpent(r) PROVE TxnInv'
  <2>1. UNCHANGED <<txnStore, codeInfo, revived>>
    BY <1>3 DEF MarkSpent, records, userAgent
  <2> QED
    BY <1>3, <2>1, MarkSpentStep, TxnQuiet
<1>4. ASSUME NEW r \in Slot, FinishTakeCode(r) PROVE TxnInv'
  <2>1. UNCHANGED <<txnStore, codeInfo, revived>>
    BY <1>4 DEF FinishTakeCode, records, userAgent
  <2>2. req[r] \in Request
    BY DEF TypeInv, TypeOK
  <2> QED
    BY <1>4, <2>1, <2>2, TakeCodeStep, TxnQuiet DEF FinishTakeCode
<1>5. CASE \/ \E i \in env.instances : Crash(i)
           \/ \E i \in env.instances, c \in Client : Register(i, c)
           \/ Sweep \/ Tick \/ UNCHANGED vars
  <2>1. UNCHANGED <<codeInfo, revived>>
    BY <1>5 DEF Crash, Register, Sweep, Tick, vars, records, userAgent
  <2>2. \A t \in Txn : txnStore'[t] \in {txnStore[t], "absent"}
    BY <1>5 DEF Crash, Register, Sweep, Tick, vars, TypeInv, TypeOK
  <2>3. \A s \in Slot : req'[s].step # "idle" => req'[s] = req[s]
    BY <1>5, IdleFacts DEF Crash, Register, Sweep, Tick, vars
  <2> QED
    BY <2>1, <2>2, <2>3, TxnQuiet
<1>6. ~\E r \in Slot : FinishTakeTxn(r)
  BY DEF FinishTakeTxn, TxnInv
<1>7. ASSUME NEW r \in Slot, NEW i \in Instance, NEW t \in Txn,
             NEW action \in {"approve", "deny"}, Consent(r, i, t, action)
      PROVE  TxnInv'
  <2>1. UNCHANGED <<txnStore, codeInfo, revived>>
    BY <1>7 DEF Consent, records
  <2> QED
    BY <1>7, <2>1, ConsentStep, TxnQuiet
<1> QED
  BY <1>1, <1>2, <1>3, <1>4, <1>5, <1>6, <1>7, TxnAuthorize, TxnStored,
     TxnCallback, TxnExchangeUpstream, EnvFacts
     DEF Next, Arrival, HandlerStep, TypeInv

LEMMA TxnInvariant == Spec => [](TypeInv /\ (env.atomicTake => TxnInv))
<1>1. Init => TypeInv /\ (env.atomicTake => TxnInv)
  BY TypeInit, TxnInit
<1>2. TypeInv /\ (env.atomicTake => TxnInv) /\ [Next]_vars
          => (TypeInv /\ (env.atomicTake => TxnInv))'
  BY TypeNext, TxnNext, EnvNext
<1> QED
  BY <1>1, <1>2, PTL DEF Spec

\* A transaction yields at most one authorization code, whichever instances its
\* callbacks land on and however often its consent form is submitted, if the
\* storage implements take() and no approval was saved over its removal.
THEOREM CallbackOnceHolds == Spec => []CallbackOnce
<1>1. TypeInv /\ (env.atomicTake => TxnInv) => CallbackOnce
  BY RecordFields DEF TxnInv, Once, Of, CallbackOnce, TypeInv
<1> QED
  BY <1>1, TxnInvariant, PTL

--------------------------------------------------------------------------------
\* Tokens are about to be issued, or were issued, after both checks passed.
Checked(r) == req[r].step = "issue" => /\ SameClient(req[r].client, req[r].code)
                                       /\ ProofOk(req[r].code, req[r].proof)

RightlyRedeemed(c) == redeemed[c] > 0 => /\ delivered[c] # None /\ redeemer[c] # None
                                         /\ SameClient(redeemer[c].client, c)
                                         /\ ProofOk(c, redeemer[c].proof)

\* The redirect URI a code travels to, its client and its verifier belong to
\* one transaction.
DeliveryInv ==
    /\ \A t \in Txn : txnInfo[t] # None
                          => txnInfo[t].uri \in Redirects[txnInfo[t].client]
    /\ \A r \in Slot : req[r].step = "saveCode"
                          => codeInfo[req[r].code].txn = req[r].txn
    /\ \A c \in Code : delivered[c] # None
                          => delivered[c] = txnInfo[codeInfo[c].txn].uri
    /\ \A r \in Slot : req[r].step \in ExchangeStep => delivered[req[r].code] # None
    /\ \A r \in Slot : Checked(r)
    /\ \A c \in Code : RightlyRedeemed(c)

\* Registrations are permanent and precede the transactions of their clients.
KnownInv ==
    /\ clientKnows \subseteq registered
    /\ \A t \in Txn : txnInfo[t] # None =>
           /\ txnInfo[t].client \in clientKnows
           /\ txnInfo[t].uri \in Redirects[txnInfo[t].client]
    /\ rejected = {}

--------------------------------------------------------------------------------
(* Tokens go where the code went *)

LEMMA DeliveryInit == Init => DeliveryInv
BY IdleFacts DEF Init, DeliveryInv, Checked, RightlyRedeemed, ExchangeStep

\* Steps that leave records, deliveries and token responses alone, and start no
\* work on a code.
LEMMA DeliveryQuiet ==
    ASSUME TypeInv, DeliveryInv,
           \A s \in Slot : req'[s] = req[s] \/ req'[s].step \notin CodeStep,
           UNCHANGED <<records, delivered, redeemed, redeemer>>
    PROVE  DeliveryInv'
<1>1. /\ \A t \in Txn : txnInfo'[t] # None
                            => txnInfo'[t].uri \in Redirects[txnInfo'[t].client]
      /\ \A c \in Code : delivered'[c] # None
                            => delivered'[c] = txnInfo'[codeInfo'[c].txn].uri
      /\ \A c \in Code : RightlyRedeemed(c)'
  BY DEF DeliveryInv, Checked, RightlyRedeemed, SameClient, ProofOk, records
<1>2. /\ \A s \in Slot : req'[s].step = "saveCode"
                            => codeInfo'[req'[s].code].txn = req'[s].txn
      /\ \A s \in Slot : req'[s].step \in ExchangeStep => delivered'[req'[s].code] # None
      /\ \A s \in Slot : Checked(s)'
  BY DEF DeliveryInv, Checked, RightlyRedeemed, SameClient, ProofOk, records, CodeStep, ExchangeStep
<1> QED
  BY <1>1, <1>2 DEF DeliveryInv

\* authorize accepts only a redirect URI that the client declared.
LEMMA DeliveryAuthorize ==
    ASSUME TypeInv, DeliveryInv, NEW r \in Slot, NEW i \in Instance, NEW c \in Client,
           NEW u \in Uri, NEW pkce \in BOOLEAN, Authorize(r, i, c, u, pkce)
    PROVE  DeliveryInv'
<1>1. PICK t \in Txn :
         /\ txnInfo[t] = None /\ \A x \in Txn : x # t => txnInfo'[x] = txnInfo[x]
         /\ txnInfo'[t].client = c /\ txnInfo'[t].uri = u
         /\ req'[r].step = "saveTxn"
         /\ \A s \in Slot : s # r => req'[s] = req[s]
  BY AuthorizeStep
<1>2. UNCHANGED <<codeInfo, delivered, redeemed, redeemer>> /\ u \in Redirects[c]
  BY DEF Authorize, DeclaredUris, userAgent, outcome
<1>3. \A d \in Code : codeInfo[d] # None => txnInfo'[codeInfo[d].txn] = txnInfo[codeInfo[d].txn]
  BY <1>1, RecordFields DEF TypeInv, Drawn
<1>4. \A s \in Slot : req'[s].step \in CodeStep =>
         /\ req'[s] = req[s] /\ req[s].code \in Code /\ codeInfo[req[s].code] # None
  BY <1>1, SlotFields DEF CodeStep, ExchangeStep, TypeInv, Drawn
<1>5. \A x \in Txn : txnInfo'[x] # None => txnInfo'[x].uri \in Redirects[txnInfo'[x].client]
  BY <1>1, <1>2 DEF DeliveryInv
<1>6. \A d \in Code : delivered'[d] # None
                          => delivered'[d] = txnInfo'[codeInfo'[d].txn].uri
  BY <1>2, <1>3 DEF DeliveryInv, TypeInv, Drawn
<1>7. /\ \A s \in Slot : req'[s].step = "saveCode"
                            => codeInfo'[req'[s].code].txn = req'[s].txn
      /\ \A s \in Slot : req'[s].step \in ExchangeStep => delivered'[req'[s].code] # None
  BY <1>2, <1>4 DEF DeliveryInv, CodeStep
<1>8. \A s \in Slot : Checked(s)'
  BY <1>2, <1>3, <1>4 DEF DeliveryInv, Checked, SameClient, ProofOk, CodeStep,
       ExchangeStep
<1>9. \A d \in Code : RightlyRedeemed(d)'
  <2>1. \A d \in Code : redeemed[d] > 0 => codeInfo[d] # None
    BY DEF DeliveryInv, RightlyRedeemed, TypeInv, Drawn
  <2> QED
    BY <1>2, <1>3, <2>1 DEF DeliveryInv, Checked, RightlyRedeemed, SameClient, ProofOk
<1> QED
  BY <1>5, <1>6, <1>7, <1>8, <1>9 DEF DeliveryInv

\* A code just drawn belongs to the transaction of its callback.
LEMMA DeliveryExchangeUpstream ==
    ASSUME TypeInv, DeliveryInv, NEW r \in Slot, ExchangeUpstream(r)
    PROVE  DeliveryInv'
<1>1. UNCHANGED <<txnInfo, delivered, redeemed, redeemer>>
  BY DEF ExchangeUpstream, userAgent
<1>2. CASE req'[r].step = "idle" /\ UNCHANGED codeInfo
  BY <1>1, <1>2, ExchangeUpstreamStep, DeliveryQuiet DEF CodeStep, ExchangeStep, records
<1>3. ASSUME NEW c \in Code, codeInfo[c] = None, codeInfo'[c].txn = req[r].txn,
             \A d \in Code : d # c => codeInfo'[d] = codeInfo[d],
             req'[r].step = "saveCode", req'[r].code = c, req'[r].txn = req[r].txn
      PROVE  DeliveryInv'
  <2>1. \A s \in Slot : s # r => req'[s] = req[s]
    BY ExchangeUpstreamStep
  <2>2. /\ delivered[c] = None /\ ~(redeemed[c] > 0)
        /\ \A s \in Slot : req[s].step \in CodeStep => req[s].code \in Code /\ req[s].code # c
    BY <1>3, SlotFields DEF TypeInv, Drawn, DeliveryInv, RightlyRedeemed
  <2>3. /\ \A t \in Txn : txnInfo'[t] # None
                              => txnInfo'[t].uri \in Redirects[txnInfo'[t].client]
        /\ \A d \in Code : delivered'[d] # None
                              => delivered'[d] = txnInfo'[codeInfo'[d].txn].uri
    BY <1>1, <1>3, <2>2 DEF DeliveryInv
  <2>4. /\ \A s \in Slot : req'[s].step = "saveCode"
                              => codeInfo'[req'[s].code].txn = req'[s].txn
        /\ \A s \in Slot : req'[s].step \in ExchangeStep => delivered'[req'[s].code] # None
    BY <1>1, <1>3, <2>1, <2>2 DEF DeliveryInv, CodeStep, ExchangeStep
  <2>5. \A s \in Slot : Checked(s)'
    BY <1>1, <1>3, <2>1, <2>2 DEF DeliveryInv, Checked, SameClient, ProofOk, CodeStep,
       ExchangeStep
  <2>6. \A d \in Code : RightlyRedeemed(d)'
    BY <1>1, <1>3, <2>2 DEF DeliveryInv, Checked, RightlyRedeemed, SameClient, ProofOk
  <2> QED
    BY <2>3, <2>4, <2>5, <2>6 DEF DeliveryInv
<1> QED
  BY <1>2, <1>3, ExchangeUpstreamStep

\* The callback redirects to the URI of the code's transaction.
LEMMA DeliverySaveCode ==
    ASSUME TypeInv, DeliveryInv, NEW r \in Slot, SaveCode(r)
    PROVE  DeliveryInv'
<1> DEFINE c == req[r].code
<1>1. c \in Code /\ codeInfo[c].txn = req[r].txn
  BY SlotFields DEF SaveCode, CodeStep, TypeInv, DeliveryInv
<1>2. \A s \in Slot : req'[s].step # "idle" => req'[s] = req[s]
  BY ReplyFacts DEF SaveCode, TypeInv, TypeOK
<1>3. /\ UNCHANGED <<records, redeemed, redeemer>>
      /\ \A d \in Code : d # c => delivered'[d] = delivered[d]
      /\ \/ delivered'[c] = delivered[c]
         \/ delivered'[c] = txnInfo[req[r].txn].uri
      /\ txnInfo[req[r].txn].uri # None
  <2>1. req[r].txn \in Txn /\ txnInfo[req[r].txn] # None
    BY SlotFields DEF SaveCode, TxnStep, TypeInv, Drawn
  <2>2. txnInfo[req[r].txn].uri \in Uri
    BY <2>1, RecordFields DEF TypeInv
  <2> QED
    BY <1>1, <2>2, OAuthFlowAssumption DEF SaveCode, outcome, TypeInv, TypeOK
<1>4. UNCHANGED <<txnInfo, codeInfo>>
  BY <1>3 DEF records
<1>5. \A d \in Code : delivered[d] # None => delivered'[d] # None
  BY <1>3
<1>6. \A d \in Code : delivered'[d] # None
                          => delivered'[d] = txnInfo'[codeInfo'[d].txn].uri
  BY <1>1, <1>3, <1>4 DEF DeliveryInv
<1>7. \A s \in Slot : req'[s].step \in ExchangeStep => delivered'[req'[s].code] # None
  <2>1. \A s \in Slot : req'[s].step \in ExchangeStep =>
           req'[s] = req[s] /\ req[s].code \in Code /\ delivered[req[s].code] # None
    BY <1>2, SlotFields DEF ExchangeStep, CodeStep, TypeInv, DeliveryInv
  <2> QED
    BY <1>5, <2>1
<1>8. /\ \A t \in Txn : txnInfo'[t] # None
                            => txnInfo'[t].uri \in Redirects[txnInfo'[t].client]
      /\ \A s \in Slot : req'[s].step = "saveCode"
                            => codeInfo'[req'[s].code].txn = req'[s].txn
      /\ \A s \in Slot : Checked(s)'
  BY <1>2, <1>4 DEF DeliveryInv, Checked, RightlyRedeemed, SameClient, ProofOk
<1>9. \A d \in Code : RightlyRedeemed(d)'
  BY <1>3, <1>4, <1>5 DEF DeliveryInv, Checked, RightlyRedeemed, SameClient, ProofOk
<1> QED
  BY <1>6, <1>7, <1>8, <1>9 DEF DeliveryInv

\* An exchange starts from a code that was delivered.
LEMMA DeliveryTakeCode ==
    ASSUME TypeInv, DeliveryInv, NEW r \in Slot, NEW q \in Request,
           q.step = "takeCode", delivered[q.code] # None,
           TakeCode(r, q) \/ (~env.atomicTake /\ Begin(r, q)),
           UNCHANGED <<records, delivered, redeemed, redeemer>>
    PROVE  DeliveryInv'
<1>1. /\ \A s \in Slot : s # r => req'[s] = req[s]
      /\ \/ req'[r].step = "idle"
         \/ req'[r].code = q.code /\ req'[r].step \in {"markSpent", "takeCode"}
  BY TakeCodeStep
<1>2. UNCHANGED <<txnInfo, codeInfo>>
  BY DEF records
<1>3. \A s \in Slot : req'[s].step \in ExchangeStep => delivered'[req'[s].code] # None
  BY <1>1 DEF DeliveryInv, ExchangeStep
<1>4. /\ \A s \in Slot : req'[s].step = "saveCode"
                            => codeInfo'[req'[s].code].txn = req'[s].txn
      /\ \A s \in Slot : Checked(s)'
  BY <1>1, <1>2 DEF DeliveryInv, Checked, RightlyRedeemed, SameClient, ProofOk
<1>5. /\ \A t \in Txn : txnInfo'[t] # None
                            => txnInfo'[t].uri \in Redirects[txnInfo'[t].client]
      /\ \A c \in Code : delivered'[c] # None
                            => delivered'[c] = txnInfo'[codeInfo'[c].txn].uri
      /\ \A c \in Code : RightlyRedeemed(c)'
  BY <1>2 DEF DeliveryInv, Checked, RightlyRedeemed, SameClient, ProofOk
<1> QED
  BY <1>3, <1>4, <1>5 DEF DeliveryInv

\* Tokens are issued only after the client and verifier checks.
LEMMA DeliveryMarkSpent ==
    ASSUME TypeInv, DeliveryInv, NEW r \in Slot, MarkSpent(r)
    PROVE  DeliveryInv'
<1>1. /\ \A s \in Slot : s # r => req'[s] = req[s]
      /\ \/ req'[r].step = "idle"
         \/ /\ req'[r].step = "issue" /\ req'[r].code = req[r].code
            /\ req'[r].client = req[r].client /\ req'[r].proof = req[r].proof
            /\ SameClient(req[r].client, req[r].code)
            /\ ProofOk(req[r].code, req[r].proof)
  BY MarkSpentStep
<1>2. UNCHANGED <<txnInfo, codeInfo, delivered, redeemed, redeemer>>
  BY DEF MarkSpent, records, userAgent, outcome
<1>3. delivered[req[r].code] # None
  BY DEF MarkSpent, ExchangeStep, DeliveryInv
<1>4. \A s \in Slot : req'[s].step \in ExchangeStep => delivered'[req'[s].code] # None
  BY <1>1, <1>2, <1>3 DEF DeliveryInv, ExchangeStep
<1>5. /\ \A s \in Slot : req'[s].step = "saveCode"
                            => codeInfo'[req'[s].code].txn = req'[s].txn
      /\ \A s \in Slot : Checked(s)'
  BY <1>1, <1>2 DEF DeliveryInv, Checked, RightlyRedeemed, SameClient, ProofOk
<1>6. /\ \A t \in Txn : txnInfo'[t] # None
                            => txnInfo'[t].uri \in Redirects[txnInfo'[t].client]
      /\ \A c \in Code : delivered'[c] # None
                            => delivered'[c] = txnInfo'[codeInfo'[c].txn].uri
      /\ \A c \in Code : RightlyRedeemed(c)'
  BY <1>2 DEF DeliveryInv, Checked, RightlyRedeemed, SameClient, ProofOk
<1> QED
  BY <1>4, <1>5, <1>6 DEF DeliveryInv

LEMMA DeliveryIssue ==
    ASSUME TypeInv, DeliveryInv, NEW r \in Slot, Issue(r)
    PROVE  DeliveryInv'
<1> DEFINE c == req[r].code
           who == [client |-> req[r].client, proof |-> req[r].proof]
<1>1. /\ c \in Code /\ delivered[c] # None
      /\ SameClient(req[r].client, c) /\ ProofOk(c, req[r].proof)
  BY SlotFields DEF Issue, CodeStep, ExchangeStep, TypeInv, DeliveryInv, Checked
<1>2. \A s \in Slot : req'[s].step # "idle" => req'[s] = req[s]
  BY ReplyFacts DEF Issue, TypeInv, TypeOK
<1>3. UNCHANGED <<txnInfo, codeInfo, delivered>>
  BY DEF Issue, records, userAgent
<1>4. who \in Redeemer /\ who # None /\ who.client = req[r].client /\ who.proof = req[r].proof
  BY RequestFields, OAuthFlowAssumption DEF Redeemer, TypeInv, TypeOK
<1>5. redeemer' = [redeemer EXCEPT ![c] = who] /\ redeemed' = [redeemed EXCEPT ![c] = @ + 1]
  BY DEF Issue
<1> HIDE DEF who
<1>6. /\ redeemer'[c] = who
      /\ \A d \in Code : d # c => redeemer'[d] = redeemer[d] /\ redeemed'[d] = redeemed[d]
  BY <1>1, <1>5 DEF TypeInv, TypeOK
<1>7. \A d \in Code : RightlyRedeemed(d)'
  BY <1>1, <1>3, <1>4, <1>6 DEF DeliveryInv, Checked, RightlyRedeemed, SameClient, ProofOk
<1>8. /\ \A s \in Slot : req'[s].step = "saveCode"
                            => codeInfo'[req'[s].code].txn = req'[s].txn
      /\ \A s \in Slot : req'[s].step \in ExchangeStep => delivered'[req'[s].code] # None
      /\ \A s \in Slot : Checked(s)'
  BY <1>2, <1>3 DEF DeliveryInv, Checked, RightlyRedeemed, SameClient, ProofOk, ExchangeStep
<1>9. /\ \A t \in Txn : txnInfo'[t] # None
                            => txnInfo'[t].uri \in Redirects[txnInfo'[t].client]
      /\ \A d \in Code : delivered'[d] # None
                            => delivered'[d] = txnInfo'[codeInfo'[d].txn].uri
  BY <1>3 DEF DeliveryInv
<1> QED
  BY <1>7, <1>8, <1>9 DEF DeliveryInv

LEMMA DeliveryNext == TypeInv /\ DeliveryInv /\ [Next]_vars => DeliveryInv'
<1> SUFFICES ASSUME TypeInv, DeliveryInv, [Next]_vars PROVE DeliveryInv'
  OBVIOUS
<1>1. ASSUME NEW r \in Slot, NEW i \in Instance, NEW t \in Txn,
             NEW action \in {"approve", "deny"}, Consent(r, i, t, action)
      PROVE  DeliveryInv'
  <2>1. UNCHANGED <<records, delivered, redeemed, redeemer>>
    BY <1>1 DEF Consent, outcome
  <2> QED
    BY <1>1, <2>1, ConsentStep, DeliveryQuiet DEF CodeStep, ExchangeStep
<1>2. ASSUME NEW r \in Slot, NEW i \in Instance, NEW t \in Txn, Callback(r, i, t)
      PROVE  DeliveryInv'
  <2>1. UNCHANGED <<records, delivered, redeemed, redeemer>>
    BY <1>2 DEF Callback, userAgent, outcome
  <2>2. TakeTxn(r, i, t) \/ (~env.atomicTake /\ Begin(r, OnTxn("takeTxn", i, t)))
    BY <1>2 DEF Callback
  <2>3. /\ \A s \in Slot : s # r => req'[s] = req[s]
        /\ req'[r].step \in {"idle", "takeTxn", "exchangeUpstream"}
    BY <2>2, TakeTxnStep
  <2> QED
    BY <2>1, <2>3, DeliveryQuiet DEF CodeStep, ExchangeStep
<1>3. ASSUME NEW r \in Slot, FinishTakeTxn(r) PROVE DeliveryInv'
  <2>1. UNCHANGED <<records, delivered, redeemed, redeemer>>
    BY <1>3 DEF FinishTakeTxn, userAgent, outcome
  <2>2. req[r].txn \in Txn /\ req[r].at \in Instance \cup {None}
    BY <1>3, SlotFields, RequestFields DEF FinishTakeTxn, TxnStep, TypeInv
  <2>3. /\ \A s \in Slot : s # r => req'[s] = req[s]
        /\ req'[r].step \in {"idle", "takeTxn", "exchangeUpstream"}
    BY <1>3, <2>2, TakeTxnStep DEF FinishTakeTxn
  <2> QED
    BY <2>1, <2>3, DeliveryQuiet DEF CodeStep, ExchangeStep
<1>4. ASSUME NEW r \in Slot, NEW i \in Instance, NEW c \in Code, NEW cl \in Client,
             NEW p \in Proof, Exchange(r, i, c, cl, p)
      PROVE  DeliveryInv'
  <2>1. UNCHANGED <<records, delivered, redeemed, redeemer>> /\ delivered[c] # None
    BY <1>4 DEF Exchange, userAgent, outcome
  <2> QED
    BY <1>4, <2>1, ExchangeStepFacts, DeliveryTakeCode
<1>5. ASSUME NEW r \in Slot, FinishTakeCode(r) PROVE DeliveryInv'
  <2>1. /\ UNCHANGED <<records, delivered, redeemed, redeemer>>
        /\ req[r] \in Request /\ delivered[req[r].code] # None
    BY <1>5 DEF FinishTakeCode, userAgent, outcome, TypeInv, TypeOK, DeliveryInv,
       ExchangeStep
  <2> QED
    BY <1>5, <2>1, DeliveryTakeCode DEF FinishTakeCode
<1>6. ASSUME NEW r \in Slot, SaveTxn(r) \/ DeleteTxn(r) \/ SaveApproval(r) \/ Throw(r)
      PROVE  DeliveryInv'
  <2>1. UNCHANGED <<records, delivered, redeemed, redeemer>>
    BY <1>6 DEF SaveTxn, DeleteTxn, SaveApproval, Throw, userAgent, outcome
  <2>2. \A s \in Slot : req'[s].step # "idle" => req'[s] = req[s]
    BY <1>6, ReplyFacts DEF SaveTxn, DeleteTxn, SaveApproval, Throw, TypeInv, TypeOK
  <2> QED
    BY <2>1, <2>2, DeliveryQuiet DEF CodeStep, ExchangeStep
<1>7. CASE \/ \E i \in env.instances : Crash(i)
           \/ \E i \in env.instances, c \in Client : Register(i, c)
           \/ Sweep \/ Tick \/ UNCHANGED vars
  <2>1. UNCHANGED <<records, delivered, redeemed, redeemer>>
    BY <1>7 DEF Crash, Register, Sweep, Tick, vars, records, userAgent, outcome
  <2>2. \A s \in Slot : req'[s].step # "idle" => req'[s] = req[s]
    BY <1>7, IdleFacts DEF Crash, Register, Sweep, Tick, vars
  <2> QED
    BY <2>1, <2>2, DeliveryQuiet DEF CodeStep, ExchangeStep
<1> QED
  BY <1>1, <1>2, <1>3, <1>4, <1>5, <1>6, <1>7, DeliveryAuthorize,
     DeliveryExchangeUpstream, DeliverySaveCode, DeliveryMarkSpent, DeliveryIssue,
     EnvFacts DEF Next, Arrival, HandlerStep, TypeInv

\* Tokens go to the client whose declared redirect URI carried the code, and, if
\* that client sent a code_challenge, to a holder of the verifier; with or
\* without take(), and whatever fails.
THEOREM TokensReachTheCodesClientHolds == Spec => []TokensReachTheCodesClient
<1>1. TypeInv /\ DeliveryInv => TokensReachTheCodesClient
  <2> SUFFICES ASSUME TypeInv, DeliveryInv, NEW c \in Code, redeemed[c] > 0
               PROVE  /\ delivered[c] \in Redirects[redeemer[c].client]
                      /\ txnInfo[codeInfo[c].txn].pkce => redeemer[c].proof = "matching"
    BY DEF TokensReachTheCodesClient
  <2>1. delivered[c] # None /\ SameClient(redeemer[c].client, c)
        /\ ProofOk(c, redeemer[c].proof)
    BY DEF DeliveryInv, RightlyRedeemed
  <2>2. codeInfo[c] # None /\ txnInfo[codeInfo[c].txn] # None /\ codeInfo[c].txn \in Txn
    BY <2>1, RecordFields DEF TypeInv, Drawn
  <2> QED
    BY <2>1, <2>2 DEF DeliveryInv, Checked, RightlyRedeemed, SameClient, ProofOk
<1> QED
  BY <1>1, TypeInit, TypeNext, DeliveryInit, DeliveryNext, PTL DEF Spec

--------------------------------------------------------------------------------
(* What authorize accepted, the callback accepts *)

LEMMA KnownInit == Init => KnownInv
BY DEF Init, KnownInv

\* Without metadata-document clients every accepted client is registered, and
\* registrations outlive every instance that cached them.
LEMMA KnownNext ==
    ASSUME CimdClient = {}
    PROVE  TypeInv /\ KnownInv /\ [Next]_vars => KnownInv'
<1> SUFFICES ASSUME TypeInv, KnownInv, [Next]_vars PROVE KnownInv'
  OBVIOUS
<1>1. ASSUME NEW r \in Slot, NEW i \in Instance, NEW c \in Client, NEW u \in Uri,
             NEW pkce \in BOOLEAN, Authorize(r, i, c, u, pkce)
      PROVE  KnownInv'
  <2>1. /\ UNCHANGED <<registered, clientKnows, rejected>>
        /\ c \in clientKnows /\ u \in Redirects[c]
    BY <1>1 DEF Authorize, DeclaredUris, storage, outcome
  <2>2. PICK t \in Txn : /\ txnInfo'[t].client = c /\ txnInfo'[t].uri = u
                         /\ \A x \in Txn : x # t => txnInfo'[x] = txnInfo[x]
    BY <1>1, AuthorizeStep
  <2> QED
    BY <2>1, <2>2 DEF KnownInv
<1>2. ASSUME NEW r \in Slot, ExchangeUpstream(r) PROVE KnownInv'
  <2>1. UNCHANGED <<registered, clientKnows, txnInfo>>
    BY <1>2 DEF ExchangeUpstream, storage
  <2>2. req[r].txn \in Txn /\ txnInfo[req[r].txn] # None
    BY <1>2, ExchangeUpstreamStep
  <2>3. UNCHANGED rejected
    BY <1>2, <2>2 DEF ExchangeUpstream, Known, KnownInv
  <2> QED
    BY <2>1, <2>3 DEF KnownInv
<1>3. ASSUME NEW i \in Instance, NEW c \in Client, Register(i, c) PROVE KnownInv'
  BY <1>3 DEF Register, records, outcome, KnownInv
<1>4. ASSUME UNCHANGED <<registered, clientKnows, txnInfo, rejected>> PROVE KnownInv'
  BY <1>4 DEF KnownInv
<1>5. ASSUME NEW r \in Slot, NEW i \in Instance, Arrival(r, i),
             \A c \in Client, u \in Uri, pkce \in BOOLEAN : ~Authorize(r, i, c, u, pkce)
      PROVE  UNCHANGED <<registered, clientKnows, txnInfo, rejected>>
  BY <1>5 DEF Arrival, Consent, Callback, Exchange, clients, records, outcome
<1>6. ASSUME NEW r \in Slot, HandlerStep(r), ~ExchangeUpstream(r)
      PROVE  UNCHANGED <<registered, clientKnows, txnInfo, rejected>>
  BY <1>6 DEF HandlerStep, SaveTxn, DeleteTxn, SaveApproval, FinishTakeTxn, SaveCode,
     FinishTakeCode, MarkSpent, Issue, Throw, clients, records, outcome
<1>7. ASSUME (\E i \in env.instances : Crash(i)) \/ Sweep \/ Tick \/ UNCHANGED vars
      PROVE  UNCHANGED <<registered, clientKnows, txnInfo, rejected>>
  BY <1>7 DEF Crash, Sweep, Tick, vars, clients, records, outcome
<1> QED
  BY <1>1, <1>2, <1>3, <1>4, <1>5, <1>6, <1>7, EnvFacts DEF Next, TypeInv

\* When every client registers through DCR, no callback refuses a transaction
\* that authorize accepted, on whichever instance it lands and whatever crashed.
THEOREM AcceptedClientCompletesHolds ==
    ASSUME CimdClient = {}
    PROVE  Spec => []AcceptedClientCompletes
<1>1. KnownInv => AcceptedClientCompletes
  BY DEF KnownInv, AcceptedClientCompletes
<1> QED
  BY <1>1, TypeInit, TypeNext, KnownInit, KnownNext, PTL DEF Spec

--------------------------------------------------------------------------------
(* OAuthFlow implements CodeGrant *)

LEMMA GrantInit == Init => G!Init
BY EnvFacts, TypeInit DEF Init, G!Init, TypeInv

\* Steps that no client sees.
LEMMA GrantQuiet ==
    ASSUME UNCHANGED <<env, txnInfo, codeInfo, revived, redeemed, redeemer>>
    PROVE  UNCHANGED G!grant
BY DEF G!grant

\* authorize asks for an authorization under a fresh id.
LEMMA GrantAuthorize ==
    ASSUME TypeInv, NEW r \in Slot, NEW i \in Instance, NEW c \in Client,
           NEW u \in Uri, NEW pkce \in BOOLEAN, Authorize(r, i, c, u, pkce)
    PROVE  G!Next
<1>1. PICK t \in Txn :
          /\ txnInfo[t] = None
          /\ txnInfo' = [txnInfo EXCEPT ![t] =
                 [client |-> c, uri |-> u, pkce |-> pkce, exp |-> now + TxnTtl]]
  BY EnvFacts DEF Authorize, TypeInv
<1> DEFINE info == [client |-> c, uri |-> u, pkce |-> pkce, exp |-> now + TxnTtl]
<1>2. info \in TxnInfo /\ info # None /\ info.client = c /\ info.pkce = pkce
  BY OAuthFlowAssumption DEF TypeInv, TypeOK, TxnInfo
<1>3. txnInfo' = [txnInfo EXCEPT ![t] = info]
  BY <1>1
<1> HIDE DEF info
<1>4. /\ txnInfo'[t] = info
      /\ \A x \in Txn : x # t => txnInfo'[x] = txnInfo[x]
  BY <1>3 DEF TypeInv, TypeOK
<1>5. UNCHANGED <<env, codeInfo, revived, redeemed, redeemer>>
  BY DEF Authorize, userAgent, outcome
<1>6. G!Ask(t, c, pkce)
  BY <1>1, <1>2, <1>4, <1>5 DEF G!Ask
<1> QED
  BY <1>6 DEF G!Next

\* An approval saved over no record reopens the authorization.
LEMMA GrantSaveApproval ==
    ASSUME TypeInv, NEW r \in Slot, SaveApproval(r)
    PROVE  G!Next \/ UNCHANGED G!grant
<1>1. UNCHANGED <<env, txnInfo, codeInfo, redeemed, redeemer>>
  BY DEF SaveApproval, records, outcome
<1>2. PICK t \in Txn : t = req[r].txn /\ txnInfo[t] # None
  BY SlotFields DEF SaveApproval, TxnStep, TypeInv, Drawn
<1>3. CASE revived' = revived \cup {t}
  <2>1. [client |-> txnInfo[t].client, pkce |-> txnInfo[t].pkce] # None
    BY <1>2, RecordFields, OAuthFlowAssumption DEF TypeInv
  <2>2. G!Reopen(t)
    BY <1>1, <1>2, <1>3, <2>1 DEF G!Reopen
  <2> QED
    BY <2>2 DEF G!Next
<1>4. CASE UNCHANGED revived
  BY <1>1, <1>4, GrantQuiet
<1> QED
  BY <1>2, <1>3, <1>4 DEF SaveApproval

\* The callback that took a transaction draws a code, its only one where
\* records are taken and the transaction was not reopened.
LEMMA GrantExchangeUpstream ==
    ASSUME TypeInv, env.atomicTake => TxnInv, NEW r \in Slot, ExchangeUpstream(r)
    PROVE  G!Next \/ UNCHANGED G!grant
<1> DEFINE t == req[r].txn
<1>1. UNCHANGED <<env, txnInfo, revived, redeemed, redeemer>>
  BY DEF ExchangeUpstream, userAgent
<1>2. t \in Txn /\ txnInfo[t] # None /\ Took(r, t)
  BY ExchangeUpstreamStep DEF ExchangeUpstream, Took
<1>3. [client |-> txnInfo[t].client, pkce |-> txnInfo[t].pkce] # None /\ t # None
  BY <1>2, RecordFields, OAuthFlowAssumption DEF TypeInv
<1>4. env.atomicTake /\ t \notin revived
          => \A d \in Code : codeInfo[d] # None => codeInfo[d].txn # t
  BY <1>2 DEF TxnInv, Once, Of
<1>5. ASSUME NEW c \in Code, codeInfo[c] = None, codeInfo'[c] # None,
             codeInfo'[c].txn = t, \A d \in Code : d # c => codeInfo'[d] = codeInfo[d]
      PROVE  G!Next
  <2>1. PICK x \in Txn : x = t
    BY <1>2
  <2>2. G!MakeCode(c, x)
    BY <1>1, <1>2, <1>3, <1>4, <1>5, <2>1 DEF G!MakeCode
  <2> QED
    BY <2>2 DEF G!Next
<1>6. CASE UNCHANGED codeInfo
  BY <1>1, <1>6, GrantQuiet
<1>7. CASE \E c \in Code :
               /\ codeInfo[c] = None /\ codeInfo'[c] # None /\ codeInfo'[c].txn = t
               /\ \A d \in Code : d # c => codeInfo'[d] = codeInfo[d]
  BY <1>5, <1>7
<1> QED
  BY <1>6, <1>7, ExchangeUpstreamStep

\* An exchange answers a code, for the first time where records are taken.
LEMMA GrantIssue ==
    ASSUME TypeInv, env.atomicTake => CodeInv, DeliveryInv, NEW r \in Slot, Issue(r)
    PROVE  G!Next
<1> DEFINE c == req[r].code
           t == codeInfo[req[r].code].txn
<1>1. /\ c \in Code /\ codeInfo[c] # None /\ t \in Txn /\ txnInfo[t] # None
      /\ req[r].proof \in Proof
  BY SlotFields, RecordFields, RequestFields
     DEF Issue, CodeStep, ExchangeStep, TypeInv, TypeOK, Drawn
<1>2. env.atomicTake => redeemed[c] = 0
  BY <1>1 DEF Issue, CodeInv, Holds
<1>3. txnInfo[t].client = req[r].client /\ (txnInfo[t].pkce => req[r].proof = "matching")
  BY <1>1 DEF Issue, DeliveryInv, Checked, SameClient, ProofOk
<1>4. /\ redeemed' = [redeemed EXCEPT ![c] = @ + 1]
      /\ redeemer' = [redeemer EXCEPT ![c] =
             [client |-> req[r].client, proof |-> req[r].proof]]
      /\ UNCHANGED <<env, txnInfo, codeInfo, revived>>
  BY DEF Issue, records, userAgent
<1>5. t # None
  BY <1>1, OAuthFlowAssumption
<1>6. G!Answer(c, req[r].proof)
  BY <1>1, <1>2, <1>3, <1>4, <1>5 DEF G!Answer
<1> QED
  BY <1>1, <1>6 DEF G!Next, Proof

\* Every step is a step of the grant, or none that a client sees.
LEMMA GrantNext ==
    ASSUME TypeInv, env.atomicTake => CodeInv, env.atomicTake => TxnInv, DeliveryInv,
           [Next]_vars
    PROVE  [G!Next]_G!grant
<1>1. ASSUME NEW r \in Slot, NEW i \in Instance, Arrival(r, i)
      PROVE  [G!Next]_G!grant
  <2>1. ASSUME NEW t \in Txn, Callback(r, i, t) PROVE UNCHANGED G!grant
    BY <2>1, GrantQuiet DEF Callback, records, userAgent, outcome
  <2>2. ASSUME NEW c \in Code, NEW cl \in Client, NEW p \in Proof, Exchange(r, i, c, cl, p)
        PROVE  UNCHANGED G!grant
    BY <2>2, GrantQuiet DEF Exchange, records, userAgent, outcome
  <2>3. ASSUME NEW t \in Txn, NEW action \in {"approve", "deny"}, Consent(r, i, t, action)
        PROVE  UNCHANGED G!grant
    BY <2>3, GrantQuiet DEF Consent, records, outcome
  <2> QED
    BY <1>1, <2>1, <2>2, <2>3, GrantAuthorize DEF Arrival
<1>2. ASSUME NEW r \in Slot, HandlerStep(r) PROVE [G!Next]_G!grant
  <2>1. CASE \/ SaveTxn(r) \/ DeleteTxn(r) \/ FinishTakeTxn(r)
             \/ SaveCode(r) \/ FinishTakeCode(r) \/ MarkSpent(r) \/ Throw(r)
    BY <2>1, GrantQuiet DEF SaveTxn, DeleteTxn, FinishTakeTxn, SaveCode,
         FinishTakeCode, MarkSpent, Throw, records, userAgent, outcome
  <2> QED
    BY <1>2, <2>1, GrantSaveApproval, GrantExchangeUpstream, GrantIssue DEF HandlerStep
<1>3. CASE \/ \E i \in env.instances : Crash(i)
           \/ \E i \in env.instances, c \in Client : Register(i, c)
           \/ Sweep \/ Tick \/ UNCHANGED vars
  BY <1>3, GrantQuiet DEF Crash, Register, Sweep, Tick, vars, records, userAgent, outcome
<1> QED
  BY <1>1, <1>2, <1>3, EnvFacts DEF Next, TypeInv

\* The handlers implement the authorization code grant, whatever is deployed
\* and whatever fails: tokens for the client that asked and a holder of its
\* verifier and, where the storage implements take(), one code for an
\* authorization that was not reopened and one token response for a code.
THEOREM ImplementsCodeGrantHolds == Spec => ImplementsCodeGrant
<1>1. TypeInv /\ (env.atomicTake => CodeInv) /\ (env.atomicTake => TxnInv)
          /\ DeliveryInv /\ [Next]_vars => [G!Next]_G!grant
  BY GrantNext
<1> QED
  BY <1>1, CodeInvariant, TxnInvariant, DeliveryInit, DeliveryNext, TypeInit, TypeNext,
     GrantInit, PTL DEF Spec, ImplementsCodeGrant, G!Spec
================================================================================
