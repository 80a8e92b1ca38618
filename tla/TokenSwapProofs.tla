----------------------------- MODULE TokenSwapProofs -----------------------------
(***************************************************************************)
(* Rotation of refresh tokens, for every number of grants, tokens,         *)
(* instances and requests, all lifetimes and every deployment: whatever    *)
(* fails, a token storage that implements take() keeps one refresh token   *)
(* per chain; and when only the upstream provider fails, the current       *)
(* access token finds its upstream tokens, whatever lifetimes a rotation   *)
(* brings, and the failure logs nobody out.                                *)
(***************************************************************************)
EXTENDS TokenSwap, TLAPS

--------------------------------------------------------------------------------
(* Types *)

LEMMA Numbers ==
    /\ MaxGrants \in Nat /\ MaxJwts \in Nat
    /\ \A ttl \in Lifetime : ttl \in Nat
BY TokenSwapAssumption

LEMMA Deployed ==
    ASSUME TypeOK
    PROVE  /\ \A ttl \in env.lifetimes : ttl \in Nat
           /\ env.jwts \in 0 .. MaxJwts
           /\ env.reliable \in BOOLEAN /\ env.prompt \in BOOLEAN
           /\ env.atomicTake \in BOOLEAN /\ env.rotates \in BOOLEAN
<1>1. env \in DeploymentRecord
  BY TokenSwapAssumption DEF TypeOK
<1> QED
  BY <1>1, Numbers DEF DeploymentRecord

LEMMA RequestFields ==
    ASSUME TypeOK, NEW r \in Slot
    PROVE  /\ req[r] \in Request
           /\ req[r].step \in Step /\ req[r].at \in Instance \cup {None}
           /\ req[r].grant \in Nat /\ req[r].chain \in Nat
           /\ req[r].from \in Jti \cup {None}
           /\ req[r].gen \in Nat /\ req[r].renewable \in BOOLEAN
           /\ req[r].aTtl \in Nat /\ req[r].rTtl \in Nat
           /\ req[r].access \in Jti \cup {None}
BY DEF TypeOK, Request

LEMMA IdleRequest ==
    /\ Idle \in Request
    /\ Idle.step = "idle" /\ Idle.from = None /\ Idle.grant = 0
    /\ Idle.chain = 0 /\ Idle.gen = 0
BY DEF Idle, Request, Step

\* A request that waits for another call.
LEMMA GotoType ==
    ASSUME TypeOK, NEW r \in Slot, NEW step \in Step, Goto(r, step)
    PROVE  req' \in [Slot -> Request]
BY DEF Goto, TypeOK, Request

LEMMA ReplyType ==
    ASSUME TypeOK, NEW r \in Slot, Reply(r)
    PROVE  req' \in [Slot -> Request]
BY IdleRequest DEF Reply, TypeOK

LEMMA FailType ==
    ASSUME TypeOK, NEW r \in Slot, Fail(r)
    PROVE  req' \in [Slot -> Request]
<1>1. "restore" \in Step
  BY DEF Step
<1> QED
  BY <1>1, GotoType, ReplyType DEF Fail

\* What IssueJwt does to the tokens issued so far.
LEMMA Issued ==
    ASSUME TypeOK, NEW kind \in {"access", "refresh"}, NEW r \in Slot,
           req[r].grant \in Grant, NEW ttl \in Nat, IssueJwt(kind, r, ttl)
    PROVE  /\ issued' = issued + 1 /\ issued' \in 0 .. MaxJwts
           /\ issued \in Nat /\ issued + 1 \in Jti
           /\ token' \in [1 .. issued' -> TokenInfo]
           /\ \A j \in 1 .. issued : j \in 1 .. issued' /\ token'[j] = token[j]
           /\ token'[issued'].kind = kind /\ token'[issued'].grant = req[r].grant
           /\ token'[issued'].chain = req[r].chain
           /\ token'[issued'].exp = now + ttl
           /\ mapped' = mapped \cup {issued'}
           /\ mapped' \subseteq 1 .. issued'
<1>1. issued' = issued + 1 /\ issued' \in 0 .. MaxJwts /\ issued \in Nat
      /\ issued + 1 \in Jti
  BY Numbers, Deployed DEF IssueJwt, TypeOK, Jti
<1>2. PICK t : t = [kind |-> kind, grant |-> req[r].grant, chain |-> req[r].chain,
                    exp |-> now + ttl]
  OBVIOUS
<1> /\ t \in TokenInfo /\ t.kind = kind /\ t.grant = req[r].grant
    /\ t.chain = req[r].chain /\ t.exp = now + ttl
  <2>1. req[r].chain \in Nat /\ now + ttl \in Nat
    BY RequestFields DEF TypeOK
  <2> QED
    BY <1>2, <2>1 DEF TokenInfo
<1>3. /\ token' = [j \in 1 .. issued' |-> IF j = issued' THEN t ELSE token[j]]
      /\ mapped' = mapped \cup {issued'}
  BY <1>1, <1>2 DEF IssueJwt
<1>4. \A j \in 1 .. issued' : j # issued' => j \in 1 .. issued
  BY <1>1
<1>5. token' \in [1 .. issued' -> TokenInfo]
  BY <1>3, <1>4 DEF TypeOK
<1>6. \A j \in 1 .. issued : j \in 1 .. issued' /\ j # issued' /\ token'[j] = token[j]
  BY <1>1, <1>3
<1>7. issued' \in 1 .. issued'
  BY <1>1
<1>8. token'[issued'] = t
  BY <1>3, <1>7
<1>9. mapped' \subseteq 1 .. issued'
  BY <1>3, <1>6, <1>7 DEF TypeOK
<1> QED
  BY <1>1, <1>3, <1>5, <1>6, <1>8, <1>9

\* A response adds tokens to those sent and counts an answer.
LEMMA Responded ==
    ASSUME TypeOK, NEW r \in Slot, NEW jwts \in SUBSET (1 .. issued'), Respond(r, jwts),
           \A j \in 1 .. issued : j \in 1 .. issued'
    PROVE  /\ sent' \subseteq 1 .. issued'
           /\ answers' \in [Jti -> Nat]
           /\ req' \in [Slot -> Request]
<1>1. sent' \subseteq 1 .. issued'
  BY DEF Respond, TypeOK
<1>2. answers' \in [Jti -> Nat]
  BY RequestFields DEF Respond, TypeOK
<1> QED
  BY <1>1, <1>2, ReplyType DEF Respond

--------------------------------------------------------------------------------
(* The chains of a grant *)

\* A refresh token that a client can redeem.
Live(j) == j \in sent /\ j \in mapped /\ token[j].kind = "refresh"

Busy(r) == req[r].step # "idle"

\* Tokens or requests of one chain.
SameChain(x, y) == x.grant = y.grant /\ x.chain = y.chain

\* A request holds the token it redeems, and works on its grant and chain.
Held ==
    \A r \in Slot :
        /\ Busy(r) => req[r].step # "take" /\ req[r].grant \in 1 .. grants
        /\ Busy(r) /\ req[r].from = None => req[r].chain = 0
        /\ req[r].from # None =>
               /\ Busy(r)
               /\ req[r].from \in sent /\ req[r].from \notin mapped
               /\ token[req[r].from].grant = req[r].grant
               /\ req[r].chain = ChainOf(req[r].from)
               /\ answers[req[r].from] = 0
        /\ req[r].step = "saveRefresh" =>
               /\ token[req[r].access].kind = "access"
               /\ token[req[r].access].grant = req[r].grant

\* A token that was answered is gone.
Spent ==
    \A j \in Jti : answers[j] # 0 =>
        answers[j] = 1 /\ j \in 1 .. issued /\ j \notin mapped

\* A chain started by an access token has tokens once that one was answered.
Started ==
    \A j \in sent : token[j].kind = "refresh" /\ token[j].chain # 0 =>
        token[j].chain \in Jti /\ answers[token[j].chain] # 0

\* One token or one request per chain.
OneChain ==
    /\ \A j \in 1 .. issued : token[j].grant \in 1 .. grants
    /\ \A r, s \in Slot : Busy(r) /\ Busy(s) /\ SameChain(req[r], req[s]) => r = s
    /\ \A r \in Slot, j \in 1 .. issued :
           Busy(r) /\ Live(j) => ~SameChain(token[j], req[r])
    /\ \A j, k \in 1 .. issued :
           Live(j) /\ Live(k) /\ SameChain(token[j], token[k]) => j = k

ChainInv == Held /\ Spent /\ Started /\ OneChain

\* In every deployment a request works on a grant, and on a token if it takes
\* one or puts it back.
Sound(q) ==
    /\ q.step \notin {"idle", "take"} => q.grant \in Grant
    /\ q.step \in {"take", "restore"} => q.from # None
    /\ q.from # None => q.from \in 1 .. issued
    /\ q.step = "saveRefresh" => q.access \in 1 .. issued

Granted == \A r \in Slot : Sound(req[r])

Typed == TypeOK /\ Granted

SwapInv == Typed /\ (env.atomicTake => ChainInv)

--------------------------------------------------------------------------------
LEMMA SwapInit == Init => SwapInv
<1> SUFFICES ASSUME Init PROVE SwapInv
  OBVIOUS
<1>1. \A r \in Slot : req[r] = Idle
  BY DEF Init
<1>2. 1 .. 0 = {} /\ issued = 0 /\ grants = 0
  BY DEF Init
<1>3. TypeOK
  BY <1>2, IdleRequest, Numbers DEF Init, TypeOK
<1>4. Granted
  BY <1>1, IdleRequest DEF Granted, Sound
<1>5. ChainInv
  BY <1>1, <1>2, IdleRequest DEF Init, ChainInv, Held, Spent, Started,
     OneChain, Busy, Live
<1> QED
  BY <1>3, <1>4, <1>5 DEF SwapInv, Typed

--------------------------------------------------------------------------------
(* Types are kept *)

\* A step that moves one request, and issues nothing.
LEMMA TypedMove ==
    ASSUME Typed, NEW r \in Slot, NEW q \in Request, req' = [req EXCEPT ![r] = q],
           UNCHANGED <<env, now, grants, token, issued, sent, answers>>,
           mapped' \subseteq 1 .. issued,
           record' \in [Grant -> RecordInfo \cup {None}],
           current' \in [Grant -> Nat],
           Sound(q)
    PROVE  Typed'
<1>1. TypeOK'
  BY DEF Typed, TypeOK
<1>2. req'[r] = q /\ \A s \in Slot : s # r => req'[s] = req[s]
  BY DEF Typed, TypeOK
<1>3. Granted'
  BY <1>2 DEF Typed, Granted, Sound
<1> QED
  BY <1>1, <1>3 DEF Typed

\* The request of slot r after Goto, Reply and Fail.
LEMMA Moved ==
    ASSUME Typed, NEW r \in Slot, req[r].step \notin {"idle", "take"},
           (\E step \in Step \ {"idle", "take", "restore", "saveRefresh"} : Goto(r, step))
               \/ Reply(r) \/ Fail(r)
    PROVE  \E q \in Request :
               /\ req' = [req EXCEPT ![r] = q]
               /\ Sound(q) /\ q.step # "saveRefresh"
               /\ \/ q = Idle
                  \/ q.from = req[r].from /\ SameChain(q, req[r])
                     /\ q.step \notin {"idle", "take"}
<1>1. CASE Reply(r)
  BY <1>1, IdleRequest DEF Reply, Sound
<1>2. ASSUME NEW step \in Step \ {"idle", "take", "saveRefresh"}, Goto(r, step),
             step = "restore" => req[r].from # None
      PROVE  \E q \in Request :
               /\ req' = [req EXCEPT ![r] = q]
               /\ Sound(q) /\ q.step # "saveRefresh"
               /\ q.from = req[r].from /\ SameChain(q, req[r])
               /\ q.step \notin {"idle", "take"}
  <2> DEFINE q == [req[r] EXCEPT !.step = step]
  <2>1. /\ q \in Request /\ q.step = step /\ q.from = req[r].from
        /\ q.grant = req[r].grant /\ q.chain = req[r].chain
    BY RequestFields DEF Typed, Request
  <2>2. req' = [req EXCEPT ![r] = q]
    BY <1>2 DEF Goto
  <2> HIDE DEF q
  <2> QED
    BY <1>2, <2>1, <2>2 DEF Typed, Granted, Sound, SameChain
<1>3. CASE \E step \in Step \ {"idle", "take", "restore", "saveRefresh"} : Goto(r, step)
  BY <1>2, <1>3
<1>4. CASE Fail(r)
  <2>1. "restore" \in Step \ {"idle", "take", "saveRefresh"}
    BY DEF Step
  <2> QED
    BY <1>1, <1>2, <1>4, <2>1 DEF Fail
<1> QED
  BY <1>1, <1>3, <1>4

LEMMA TypedCodeExchanged ==
    ASSUME Typed, NEW r \in Slot, NEW i \in Instance, NEW renewable \in BOOLEAN,
           NEW a \in env.lifetimes, NEW rt \in env.lifetimes,
           CodeExchanged(r, i, renewable, a, rt)
    PROVE  Typed'
<1> DEFINE ttl == IF renewable THEN rt ELSE 0
<1>1. grants + 1 \in Grant /\ grants' = grants + 1 /\ grants' \in 0 .. MaxGrants
  BY Numbers DEF CodeExchanged, Typed, TypeOK, Grant
<1>2. PICK q :
         q = [Idle EXCEPT !.step = "saveRecord", !.at = i, !.grant = grants + 1,
                          !.renewable = renewable, !.aTtl = a, !.rTtl = ttl]
  OBVIOUS
<1>3. req' = [req EXCEPT ![r] = q]
  BY <1>2 DEF CodeExchanged
<1>4. /\ q \in Request /\ q.step = "saveRecord" /\ q.grant = grants + 1
      /\ q.from = None
  <2>1. ttl \in Nat /\ a \in Nat /\ grants + 1 \in Nat
    BY <1>1, Deployed DEF Grant, Typed
  <2> HIDE DEF ttl
  <2>2. q = [step |-> "saveRecord", at |-> i, grant |-> grants + 1, chain |-> 0,
             from |-> None, gen |-> 0, renewable |-> renewable, aTtl |-> a, rTtl |-> ttl,
             access |-> None]
    BY <1>2 DEF Idle
  <2> QED
    BY <2>1, <2>2 DEF Request, Step
<1>5. TypeOK'
  BY <1>1, <1>3, <1>4 DEF CodeExchanged, Typed, TypeOK
<1>6. req'[r] = q /\ \A s \in Slot : s # r => req'[s] = req[s]
  BY <1>3 DEF Typed, TypeOK
<1>7. Granted'
  BY <1>1, <1>4, <1>6 DEF CodeExchanged, Typed, Granted, Sound
<1> QED
  BY <1>5, <1>7 DEF Typed

LEMMA TypedSaveRecord ==
    ASSUME Typed, NEW r \in Slot, SaveRecord(r)
    PROVE  Typed'
<1>1. "saveAccess" \in Step \ {"idle", "take", "restore", "saveRefresh"}
  BY DEF Step
<1>2. record' \in [Grant -> RecordInfo \cup {None}]
  <2>1. now + RecordTtl(req[r].aTtl, req[r].rTtl) \in Nat /\ req[r].gen \in Nat
        /\ req[r].renewable \in BOOLEAN
    BY RequestFields DEF Typed, TypeOK, RecordTtl
  <2> QED
    BY <2>1 DEF SaveRecord, Typed, TypeOK, RecordInfo
<1>3. PICK q \in Request :
               /\ req' = [req EXCEPT ![r] = q]
               /\ Sound(q) /\ q.step # "saveRefresh"
  BY <1>1, Moved DEF SaveRecord
<1> QED
  BY <1>2, <1>3, TypedMove DEF SaveRecord, Typed, TypeOK

\* Both steps that issue a token.
LEMMA TypedIssue ==
    ASSUME Typed, NEW r \in Slot, NEW kind \in {"access", "refresh"},
           req[r].step \notin {"idle", "take"},
           NEW ttl \in Nat, IssueJwt(kind, r, ttl),
           UNCHANGED <<env, now, grants, record, current>>,
           NEW q \in Request, req' = [req EXCEPT ![r] = q],
           Sound(q)',
           sent' \subseteq 1 .. issued', answers' \in [Jti -> Nat]
    PROVE  Typed'
<1>1. req[r].grant \in Grant
  BY DEF Typed, Granted, Sound
<1>2. /\ issued' \in 0 .. MaxJwts
      /\ token' \in [1 .. issued' -> TokenInfo]
      /\ mapped' \subseteq 1 .. issued'
      /\ \A j \in 1 .. issued : j \in 1 .. issued'
  BY <1>1, Issued DEF Typed
<1>3. TypeOK'
  BY <1>2 DEF Typed, TypeOK
<1>4. req'[r] = q /\ \A s \in Slot : s # r => req'[s] = req[s]
  BY DEF Typed, TypeOK
<1>5. Granted'
  BY <1>2, <1>4 DEF Typed, Granted, Sound
<1> QED
  BY <1>3, <1>5 DEF Typed

\* The request after its refresh token was saved or not, answered or not.
LEMMA TypedSaveAccess ==
    ASSUME Typed, NEW r \in Slot, SaveAccess(r)
    PROVE  Typed'
<1>1. /\ req[r].step \notin {"idle", "take"} /\ req[r].aTtl \in Nat
      /\ IssueJwt("access", r, req[r].aTtl)
      /\ UNCHANGED <<env, now, grants, record, current>>
  BY RequestFields DEF SaveAccess, Typed
<1>2. /\ issued' = issued + 1 /\ issued + 1 \in Jti /\ issued' \in 1 .. issued'
      /\ \A j \in 1 .. issued : j \in 1 .. issued'
  BY <1>1, Issued DEF Typed, Granted, Sound, Jti
<1>3. CASE /\ req' = [req EXCEPT ![r].step = "saveRefresh", ![r].access = issued + 1]
           /\ UNCHANGED <<sent, answers>>
  <2>1. PICK q : q = [req[r] EXCEPT !.step = "saveRefresh", !.access = issued + 1]
    OBVIOUS
  <2>2. /\ q \in Request /\ q.step = "saveRefresh" /\ q.grant = req[r].grant
        /\ q.from = req[r].from /\ q.access = issued'
    BY <1>2, <2>1, RequestFields DEF Typed, Request, Step
  <2>3. req' = [req EXCEPT ![r] = q]
    BY <1>3, <2>1
  <2>4. sent' \subseteq 1 .. issued' /\ answers' \in [Jti -> Nat]
    BY <1>2, <1>3 DEF Typed, TypeOK
  <2>5. Sound(q)'
    BY <1>1, <1>2, <2>2 DEF Typed, Granted, Sound
  <2> QED
    BY <1>1, <2>2, <2>3, <2>4, <2>5, TypedIssue
<1>4. CASE Respond(r, {issued + 1})
  <2>1. sent' \subseteq 1 .. issued' /\ answers' \in [Jti -> Nat]
    BY <1>2, <1>4, Responded DEF Typed
  <2> QED
    BY <1>1, <1>4, <2>1, IdleRequest, TypedIssue DEF Respond, Reply, Sound
<1> QED
  BY <1>3, <1>4 DEF SaveAccess

LEMMA TypedSaveRefresh ==
    ASSUME Typed, NEW r \in Slot, SaveRefresh(r)
    PROVE  Typed'
<1>1. /\ req[r].step \notin {"idle", "take"} /\ req[r].rTtl \in Nat
      /\ IssueJwt("refresh", r, req[r].rTtl)
      /\ UNCHANGED <<env, now, grants, record, current>>
  BY RequestFields DEF SaveRefresh, Typed
<1>2. /\ issued' = issued + 1 /\ issued' \in 1 .. issued'
      /\ \A j \in 1 .. issued : j \in 1 .. issued'
  BY <1>1, Issued DEF Typed, Granted, Sound, Jti
<1>3. CASE Respond(r, {req[r].access, issued + 1})
  <2>1. sent' \subseteq 1 .. issued' /\ answers' \in [Jti -> Nat]
    BY <1>2, <1>3, Responded DEF SaveRefresh, Typed, Granted, Sound
  <2> QED
    BY <1>1, <1>3, <2>1, IdleRequest, TypedIssue DEF Respond, Reply, Sound
<1>4. CASE Fail(r) /\ UNCHANGED <<sent, answers>>
  <2>1. PICK q \in Request :
               /\ req' = [req EXCEPT ![r] = q]
               /\ Sound(q) /\ q.step # "saveRefresh"
    BY <1>1, <1>4, Moved
  <2>2. sent' \subseteq 1 .. issued' /\ answers' \in [Jti -> Nat]
    BY <1>2, <1>4 DEF Typed, TypeOK
  <2>3. Sound(q)'
    BY <1>2, <2>1 DEF Sound
  <2> QED
    BY <1>1, <2>1, <2>2, <2>3, TypedIssue
<1> QED
  BY <1>3, <1>4 DEF SaveRefresh

\* The request that has claimed refresh token j.
LEMMA NewClaim ==
    ASSUME Typed, NEW r \in Slot, NEW i \in Instance \cup {None},
           NEW j \in 1 .. issued, Claimed(r, i, j)
    PROVE  \E q \in Request :
               /\ req' = [req EXCEPT ![r] = q]
               /\ q.step = "load" /\ q.grant = token[j].grant /\ q.from = j
               /\ q.chain = ChainOf(j) /\ q.gen = 0
               /\ Sound(q)
               /\ mapped' = mapped \ {j}
<1>1. PICK q : q = [Idle EXCEPT !.step = "load", !.at = i, !.grant = token[j].grant,
                                !.chain = ChainOf(j), !.from = j]
  OBVIOUS
<1>2. /\ token[j].grant \in Grant /\ token[j].grant \in Nat /\ j \in Jti
      /\ ChainOf(j) \in Nat
  BY Numbers DEF Typed, TypeOK, TokenInfo, Grant, Jti, ChainOf
<1>3. q = [step |-> "load", at |-> i, grant |-> token[j].grant, chain |-> ChainOf(j),
           from |-> j, gen |-> 0, renewable |-> FALSE, aTtl |-> 0, rTtl |-> 0, access |-> None]
  BY <1>1 DEF Idle
<1>4. q \in Request
  BY <1>2, <1>3 DEF Request, Step
<1>5. req' = [req EXCEPT ![r] = q] /\ mapped' = mapped \ {j}
  BY <1>1 DEF Claimed, MappingTaken
<1> QED
  BY <1>2, <1>3, <1>4, <1>5 DEF Sound

LEMMA TypedRefresh ==
    ASSUME Typed, NEW r \in Slot, NEW i \in Instance, NEW j \in sent, Refresh(r, i, j)
    PROVE  Typed'
<1>1. /\ j \in 1 .. issued
      /\ UNCHANGED <<env, now, grants, token, issued, record, current, sent, answers>>
  BY DEF Refresh, Typed, TypeOK
<1> j \in Jti /\ mapped' \subseteq 1 .. issued
  <2>1. mapped' \subseteq mapped
    BY DEF Refresh, Claimed, MappingTaken
  <2> QED
    BY <1>1, <2>1, Numbers DEF Typed, TypeOK, Jti
<1>2. CASE Claimed(r, i, j)
  BY <1>1, <1>2, NewClaim, TypedMove DEF Typed, TypeOK
<1>3. CASE /\ req' = [req EXCEPT ![r] =
                  [Idle EXCEPT !.step = "take", !.at = i, !.from = j]]
           /\ UNCHANGED mapped
  <2>1. PICK q : q = [Idle EXCEPT !.step = "take", !.at = i, !.from = j]
    OBVIOUS
  <2>2. q = [step |-> "take", at |-> i, grant |-> 0, chain |-> 0, from |-> j, gen |-> 0,
             renewable |-> FALSE, aTtl |-> 0, rTtl |-> 0, access |-> None]
    BY <2>1 DEF Idle
  <2>3. q \in Request /\ Sound(q)
    BY <1>1, <2>2, TokenSwapAssumption DEF Request, Step, Sound, Jti
  <2> QED
    BY <1>1, <1>3, <2>1, <2>3, TypedMove DEF Typed, TypeOK
<1> QED
  BY <1>2, <1>3 DEF Refresh

LEMMA TypedFinishTake ==
    ASSUME Typed, NEW r \in Slot, FinishTake(r)
    PROVE  Typed'
<1>1. req[r].from \in 1 .. issued /\ req[r].at \in Instance \cup {None}
  BY RequestFields DEF FinishTake, Typed, Granted, Sound
<1>2. UNCHANGED <<env, now, grants, token, issued, record, current, sent, answers>>
      /\ mapped' \subseteq 1 .. issued
  BY DEF FinishTake, Claimed, MappingTaken, Typed, TypeOK
<1>3. PICK q \in Request : /\ req' = [req EXCEPT ![r] = q]
                           /\ q.step = "load" /\ Sound(q)
  BY <1>1, NewClaim DEF FinishTake
<1> QED
  BY <1>2, <1>3, TypedMove DEF Typed, TypeOK

LEMMA TypedLoad ==
    ASSUME Typed, NEW r \in Slot, Load(r)
    PROVE  Typed'
<1>1. UNCHANGED <<env, now, grants, token, issued, mapped, record, current, sent, answers>>
  BY DEF Load
<1>2. CASE Fail(r)
  BY <1>1, <1>2, Moved, TypedMove DEF Load, Typed, TypeOK
<1>3. CASE /\ RecordFound(req[r].grant)
           /\ req' = [req EXCEPT ![r].step = "callUpstream",
                                 ![r].gen = record[req[r].grant].gen]
  <2> DEFINE g == req[r].grant
  <2>1. g \in Grant /\ record[g].gen \in Nat
    BY <1>3 DEF Load, Typed, Granted, Sound, RecordFound, TypeOK, RecordInfo
  <2>2. PICK q : q = [req[r] EXCEPT !.step = "callUpstream", !.gen = record[g].gen]
    OBVIOUS
  <2>3. q \in Request /\ q.step = "callUpstream" /\ q.grant = g /\ q.from = req[r].from
    BY <2>1, <2>2, RequestFields DEF Typed, Request, Step
  <2>4. Sound(q)
    BY <2>1, <2>3 DEF Load, Typed, Granted, Sound
  <2>5. req' = [req EXCEPT ![r] = q]
    BY <1>3, <2>2
  <2> QED
    BY <1>1, <2>3, <2>4, <2>5, TypedMove DEF Typed, TypeOK
<1> QED
  BY <1>2, <1>3 DEF Load

LEMMA TypedCallUpstream ==
    ASSUME Typed, NEW r \in Slot, CallUpstream(r)
    PROVE  Typed'
<1> DEFINE g == req[r].grant
           next == IF env.rotates THEN current[g] + 1 ELSE current[g]
<1>1. UNCHANGED <<env, now, grants, token, issued, mapped, record, sent, answers>>
  BY DEF CallUpstream
<1>2. g \in Grant /\ next \in Nat /\ current' \in [Grant -> Nat]
  <2>1. g \in Grant
    BY DEF CallUpstream, Typed, Granted, Sound
  <2>2. current[g] \in Nat /\ current' = [current EXCEPT ![g] = next]
    BY <2>1 DEF CallUpstream, Typed, TypeOK
  <2>3. next \in Nat
    BY <2>2
  <2> QED
    BY <2>1, <2>2, <2>3 DEF Typed, TypeOK
<1>3. CASE Fail(r)
  BY <1>1, <1>2, <1>3, Moved, TypedMove DEF CallUpstream, Typed, TypeOK
<1>4. ASSUME NEW a \in env.lifetimes, NEW rt \in env.lifetimes,
             req' = [req EXCEPT ![r] =
                 [@ EXCEPT !.step = "saveRecord", !.gen = next,
                           !.renewable = TRUE, !.aTtl = a, !.rTtl = rt]]
      PROVE  Typed'
  <2> HIDE DEF next
  <2>1. PICK q : q = [req[r] EXCEPT !.step = "saveRecord", !.gen = next,
                          !.renewable = TRUE, !.aTtl = a, !.rTtl = rt]
    OBVIOUS
  <2>2. q \in Request /\ q.step = "saveRecord" /\ q.grant = g /\ q.from = req[r].from
    BY <1>2, <2>1, RequestFields, Deployed DEF Typed, Request, Step
  <2>3. Sound(q)
    BY <1>2, <2>2 DEF Typed, Granted, Sound
  <2>4. req' = [req EXCEPT ![r] = q]
    BY <1>4, <2>1 DEF Typed, TypeOK
  <2> QED
    BY <1>1, <1>2, <2>2, <2>3, <2>4, TypedMove DEF Typed, TypeOK
<1> QED
  BY <1>3, <1>4 DEF CallUpstream

LEMMA TypedRestore ==
    ASSUME Typed, NEW r \in Slot, Restore(r)
    PROVE  Typed'
<1>1. req[r].from \in 1 .. issued
  BY DEF Restore, Typed, Granted, Sound
<1>2. mapped' \subseteq 1 .. issued
  BY <1>1 DEF Restore, MappingRestored, Typed, TypeOK
<1> QED
  BY <1>2, IdleRequest, TypedMove DEF Restore, Reply, Typed, TypeOK, Sound

LEMMA TypedCallFails ==
    ASSUME Typed, NEW r \in Slot, CallFails(r)
    PROVE  Typed'
<1>1. CASE Reply(r)
  BY <1>1, IdleRequest, TypedMove DEF CallFails, Reply, Typed, TypeOK, Sound
<1>2. CASE Fail(r) /\ req[r].step \notin {"take", "restore"}
  BY <1>2, Moved, TypedMove DEF CallFails, Typed, TypeOK
<1> QED
  BY <1>1, <1>2 DEF CallFails

\* Nothing but requests that end, tokens and records that expire, and time.
LEMMA TypedQuiet ==
    ASSUME Typed, (\E i \in Instance : Crash(i)) \/ Sweep \/ Tick \/ UNCHANGED vars
    PROVE  Typed'
<1>1. CASE \E i \in Instance : Crash(i)
  <2>1. \A r \in Slot : req'[r] \in {req[r], Idle}
    BY <1>1 DEF Crash
  <2>2. req' \in [Slot -> Request]
    BY <1>1, IdleRequest DEF Crash, Typed, TypeOK
  <2>3. TypeOK'
    BY <1>1, <2>2 DEF Crash, Typed, TypeOK
  <2>4. Granted'
    BY <1>1, <2>1, IdleRequest DEF Crash, Typed, Granted, Sound
  <2> QED
    BY <2>3, <2>4 DEF Typed
<1>2. CASE Sweep
  BY <1>2 DEF Sweep, Typed, TypeOK, Granted, Sound
<1>3. CASE Tick
  BY <1>3 DEF Tick, Typed, TypeOK, Granted, Sound
<1>4. CASE UNCHANGED vars
  BY <1>4 DEF vars, Typed, TypeOK, Granted, Sound
<1> QED
  BY <1>1, <1>2, <1>3, <1>4

LEMMA TypedNext == Typed /\ [Next]_vars => Typed'
<1> SUFFICES ASSUME Typed, [Next]_vars PROVE Typed'
  OBVIOUS
<1>1. ASSUME NEW r \in Slot, HandlerStep(r) PROVE Typed'
  BY <1>1, TypedSaveRecord, TypedSaveAccess, TypedSaveRefresh, TypedFinishTake,
     TypedLoad, TypedCallUpstream, TypedRestore, TypedCallFails DEF HandlerStep
<1> QED
  BY <1>1, TypedCodeExchanged, TypedRefresh, TypedQuiet DEF Next

--------------------------------------------------------------------------------
(* The chain is kept *)

\* Requests that go on with what they hold, or end; tokens that expire.
LEMMA ChainCalm ==
    ASSUME Typed, ChainInv, UNCHANGED <<grants, token, issued, sent, answers>>,
           mapped' \subseteq mapped,
           \A r \in Slot :
               \/ req'[r] = req[r]
               \/ req'[r] = Idle
               \/ /\ Busy(r) /\ req'[r].from = req[r].from
                  /\ req'[r].grant = req[r].grant /\ req'[r].chain = req[r].chain
                  /\ req'[r].step \notin {"idle", "take", "saveRefresh"}
    PROVE  ChainInv'
<1>1. \A r \in Slot :
         /\ Busy(r)' => /\ Busy(r) /\ req'[r].step # "take"
                        /\ req'[r].grant = req[r].grant /\ req'[r].chain = req[r].chain
                        /\ req'[r].from = req[r].from
         /\ req'[r].from # None => Busy(r)'
         /\ req'[r].step = "saveRefresh" => req'[r] = req[r]
  BY IdleRequest DEF Busy, ChainInv, Held
<1>2. Held'
  BY <1>1 DEF ChainInv, Held, ChainOf
<1>3. Spent' /\ Started'
  BY DEF ChainInv, Spent, Started
<1>4. \A j \in 1 .. issued : Live(j)' => Live(j)
  BY DEF Live
<1>5. OneChain'
  BY <1>1, <1>4 DEF ChainInv, OneChain, SameChain
<1> QED
  BY <1>2, <1>3, <1>5 DEF ChainInv

LEMMA ChainCodeExchanged ==
    ASSUME Typed, ChainInv, NEW r \in Slot, NEW i \in Instance,
           NEW renewable \in BOOLEAN, NEW a \in env.lifetimes, NEW rt \in env.lifetimes,
           CodeExchanged(r, i, renewable, a, rt)
    PROVE  ChainInv'
<1>1. PICK q :
         /\ req' = [req EXCEPT ![r] = q]
         /\ q = [Idle EXCEPT !.step = "saveRecord", !.at = i, !.grant = grants + 1,
                             !.renewable = renewable, !.aTtl = a,
                             !.rTtl = IF renewable THEN rt ELSE 0]
  BY DEF CodeExchanged
<1>2. q.step = "saveRecord" /\ q.grant = grants + 1 /\ q.from = None /\ q.chain = 0
  BY <1>1 DEF Idle
<1>3. /\ req'[r] = q /\ ~Busy(r)
      /\ \A s \in Slot : s # r => req'[s] = req[s]
  BY <1>1, IdleRequest DEF CodeExchanged, Typed, TypeOK, Busy
<1>4. /\ grants' = grants + 1 /\ grants \in Nat
      /\ UNCHANGED <<token, mapped, issued, sent, answers>>
  BY DEF CodeExchanged, Typed, TypeOK
<1>5. \A g \in 1 .. grants : g \in 1 .. grants' /\ g # grants + 1
  BY <1>4
<1>6. Held'
  BY <1>2, <1>3, <1>4, <1>5 DEF ChainInv, Held, Busy, ChainOf
<1>7. Spent' /\ Started'
  BY <1>4 DEF ChainInv, Spent, Started
<1>8. OneChain'
  <2>1. \A s \in Slot : s # r => Busy(s)' = Busy(s) /\ (Busy(s) => req'[s].grant \in 1 .. grants)
    BY <1>3 DEF Busy, ChainInv, Held
  <2>2. \A j \in 1 .. issued : Live(j)' = Live(j) /\ token'[j].grant \in 1 .. grants
    BY <1>4 DEF Live, ChainInv, OneChain
  <2> QED
    BY <1>2, <1>3, <1>4, <1>5, <2>1, <2>2 DEF ChainInv, OneChain, SameChain
<1> QED
  BY <1>6, <1>7, <1>8 DEF ChainInv

\* Nobody else works on the chain of a token that is in the storage.
LEMMA Unclaimed ==
    ASSUME Typed, ChainInv, NEW j \in sent, j \in mapped,
           NEW x, x.grant = token[j].grant, x.chain = ChainOf(j)
    PROVE  /\ \A s \in Slot : Busy(s) => ~SameChain(req[s], x)
           /\ \A k \in 1 .. issued : Live(k) /\ SameChain(token[k], x) => k = j
<1>1. j \in 1 .. issued /\ j \in Jti /\ j # 0 /\ answers[j] = 0
      /\ token[j].kind \in {"access", "refresh"}
  BY Numbers DEF Typed, TypeOK, TokenInfo, Jti, ChainInv, Spent
<1>2. CASE token[j].kind = "refresh"
  <2>1. Live(j) /\ SameChain(token[j], x) /\ x.chain = token[j].chain
    BY <1>1, <1>2 DEF Live, SameChain, ChainOf
  <2> QED
    BY <1>1, <2>1 DEF ChainInv, OneChain, SameChain
<1>3. CASE token[j].kind = "access"
  <2>1. x.chain = j
    BY <1>3 DEF ChainOf
  <2>2. ASSUME NEW k \in sent, token[k].kind = "refresh", token[k].chain = j PROVE FALSE
    BY <1>1, <2>2 DEF ChainInv, Started
  <2>3. ASSUME NEW s \in Slot, Busy(s), SameChain(req[s], x) PROVE FALSE
    <3>1. req[s].chain = j /\ req[s].from # None
      BY <1>1, <2>1, <2>3 DEF SameChain, ChainInv, Held
    <3>2. req[s].from \in sent /\ req[s].from \notin mapped /\ ChainOf(req[s].from) = j
      BY <3>1 DEF ChainInv, Held
    <3>3. token[req[s].from].kind \in {"access", "refresh"}
      BY <3>2 DEF Typed, TypeOK, TokenInfo
    <3> QED
      BY <2>2, <3>2, <3>3 DEF ChainOf
  <2>4. ASSUME NEW k \in 1 .. issued, Live(k), SameChain(token[k], x) PROVE FALSE
    BY <2>1, <2>2, <2>4 DEF Live, SameChain
  <2> QED
    BY <2>3, <2>4
<1> QED
  BY <1>1, <1>2, <1>3

\* The token passes from the storage to the request.
LEMMA ChainRefresh ==
    ASSUME Typed, ChainInv, env.atomicTake,
           NEW r \in Slot, NEW i \in Instance, NEW j \in sent, Refresh(r, i, j)
    PROVE  ChainInv'
<1>1. /\ j \in 1 .. issued /\ j \in mapped /\ Claimed(r, i, j) /\ ~Busy(r)
      /\ UNCHANGED <<grants, token, issued, sent, answers>>
  BY IdleRequest DEF Refresh, Typed, TypeOK, Busy
<1>2. PICK q \in Request :
         /\ req' = [req EXCEPT ![r] = q]
         /\ q.step = "load" /\ q.grant = token[j].grant /\ q.from = j
         /\ q.chain = ChainOf(j)
         /\ mapped' = mapped \ {j}
  BY <1>1, NewClaim
<1>3. req'[r] = q /\ \A s \in Slot : s # r => req'[s] = req[s]
  BY <1>2 DEF Typed, TypeOK
<1>4. answers[j] = 0 /\ token[j].grant \in 1 .. grants /\ j # None
  <2>1. j \in Jti
    BY <1>1, Numbers DEF Typed, TypeOK, Jti
  <2> QED
    BY <1>1, <2>1, TokenSwapAssumption DEF ChainInv, Spent, OneChain
<1>5. Held'
  BY <1>1, <1>2, <1>3, <1>4 DEF ChainInv, Held, Busy, ChainOf
<1>6. Spent' /\ Started'
  BY <1>1, <1>2 DEF ChainInv, Spent, Started
<1>7. OneChain'
  <2>1. \A k \in 1 .. issued : Live(k)' => Live(k) /\ k # j
    BY <1>1, <1>2 DEF Live
  <2>2. /\ \A s \in Slot : Busy(s) => ~SameChain(req[s], q)
        /\ \A k \in 1 .. issued : Live(k)' => ~SameChain(token[k], q)
    BY <1>1, <1>2, <2>1, Unclaimed
  <2>3. \A s \in Slot : s # r => Busy(s)' = Busy(s)
    BY <1>1, <1>3 DEF Busy
  <2> QED
    BY <1>1, <1>2, <1>3, <2>1, <2>2, <2>3 DEF ChainInv, OneChain, SameChain
<1> QED
  BY <1>5, <1>6, <1>7 DEF ChainInv

\* The token passes from the request back to the storage.
LEMMA ChainRestore ==
    ASSUME Typed, ChainInv, NEW r \in Slot, Restore(r)
    PROVE  ChainInv'
<1> DEFINE j == req[r].from
<1>1. /\ Busy(r) /\ j \in 1 .. issued /\ j \in Jti
      /\ j \in sent /\ token[j].grant = req[r].grant /\ answers[j] = 0
      /\ req[r].chain = ChainOf(j)
  <2>1. j # None /\ j \in 1 .. issued
    BY DEF Restore, Typed, Granted, Sound
  <2> QED
    BY <2>1, RequestFields DEF Restore, Typed, Busy, ChainInv, Held
<1>2. /\ req'[r] = Idle /\ \A s \in Slot : s # r => req'[s] = req[s]
      /\ UNCHANGED <<grants, token, issued, sent, answers>>
      /\ mapped' \subseteq mapped \cup {j}
  BY DEF Restore, Reply, MappingRestored, Typed, TypeOK
<1>3. \A s \in Slot : Busy(s)' => s # r /\ Busy(s) /\ req'[s] = req[s]
                                    /\ ~SameChain(req[s], req[r])
  BY <1>1, <1>2, IdleRequest DEF Busy, ChainInv, OneChain
<1>4. \A s \in Slot : s # r => req[s].from # j
  <2> SUFFICES ASSUME NEW s \in Slot, s # r, req[s].from = j PROVE FALSE
    OBVIOUS
  <2>1. j # None
    BY DEF Restore, Typed, Granted, Sound
  <2>2. Busy(s) /\ SameChain(req[s], req[r])
    BY <1>1, <2>1 DEF ChainInv, Held, SameChain
  <2> QED
    BY <1>1, <2>2 DEF ChainInv, OneChain
<1>5. Held'
  BY <1>1, <1>2, <1>3, <1>4, IdleRequest DEF ChainInv, Held, Busy, ChainOf
<1>6. Spent' /\ Started'
  BY <1>1, <1>2 DEF ChainInv, Spent, Started
<1>7. OneChain'
  <2>1. \A k \in 1 .. issued :
           Live(k)' => Live(k) \/ (k = j /\ SameChain(token[j], req[r]))
    BY <1>1, <1>2 DEF Live, ChainOf, SameChain
  <2>2. \A k \in 1 .. issued : Live(k) => ~SameChain(token[k], req[r])
    BY <1>1 DEF ChainInv, OneChain
  <2> QED
    BY <1>1, <1>2, <1>3, <2>1, <2>2 DEF ChainInv, OneChain, SameChain
<1> QED
  BY <1>5, <1>6, <1>7 DEF ChainInv

\* A token is issued, and the request goes on or gives up without sending it.
LEMMA ChainIssueUnsent ==
    ASSUME Typed, ChainInv, NEW r \in Slot, Busy(r),
           NEW kind \in {"access", "refresh"}, NEW ttl \in Nat,
           IssueJwt(kind, r, ttl),
           UNCHANGED <<grants, sent, answers>>,
           NEW q \in Request, req' = [req EXCEPT ![r] = q],
           \/ q = Idle
           \/ /\ q.from = req[r].from /\ SameChain(q, req[r])
              /\ q.step \notin {"idle", "take"}
              /\ q.step = "saveRefresh" => kind = "access" /\ q.access = issued'
    PROVE  ChainInv'
<1>1. req[r].grant \in Grant /\ req[r].grant \in 1 .. grants
  BY DEF Typed, Granted, Sound, Busy, ChainInv, Held
<1>2. /\ issued' = issued + 1 /\ issued \in Nat /\ issued' \notin 1 .. issued
      /\ \A j \in 1 .. issued : j \in 1 .. issued' /\ token'[j] = token[j]
      /\ token'[issued'].kind = kind /\ token'[issued'].grant = req[r].grant
      /\ mapped' = mapped \cup {issued'}
  BY <1>1, Issued DEF Typed
<1>3. req'[r] = q /\ \A s \in Slot : s # r => req'[s] = req[s]
  BY DEF Typed, TypeOK
<1>4. sent \subseteq 1 .. issued
  BY DEF Typed, TypeOK
<1>5. \A s \in Slot :
         /\ Busy(s)' => /\ Busy(s) /\ req'[s].step # "take"
                        /\ req'[s].grant = req[s].grant /\ req'[s].chain = req[s].chain
                        /\ req'[s].from = req[s].from
         /\ req'[s].from # None => Busy(s)'
         /\ s # r => req'[s] = req[s]
  BY <1>3, IdleRequest DEF Busy, ChainInv, Held, SameChain
<1> \A s \in Slot : Busy(s)' /\ req'[s].from = None => req'[s].chain = 0
  BY <1>5 DEF ChainInv, Held
<1>6. \A s \in Slot : req'[s].step = "saveRefresh" =>
         /\ token'[req'[s].access].kind = "access"
         /\ token'[req'[s].access].grant = req'[s].grant
  BY <1>2, <1>3, IdleRequest DEF ChainInv, Held, Typed, Granted, Sound, SameChain
<1>7. Held'
  <2> SUFFICES ASSUME NEW s \in Slot, req'[s].from # None
               PROVE  /\ Busy(s)'
                      /\ req'[s].from \in sent /\ req'[s].from \notin mapped'
                      /\ token'[req'[s].from].grant = req'[s].grant
                      /\ req'[s].chain = ChainOf(req[s].from)'
                      /\ answers[req'[s].from] = 0
    BY <1>5, <1>6 DEF ChainInv, Held
  <2>1. /\ req'[s].from = req[s].from /\ Busy(s)'
        /\ req'[s].grant = req[s].grant /\ req'[s].chain = req[s].chain
    BY <1>5
  <2>2. req[s].from \in 1 .. issued
    BY <1>4, <2>1 DEF ChainInv, Held
  <2> QED
    BY <1>2, <2>1, <2>2 DEF ChainInv, Held, ChainOf
<1>8. Spent' /\ Started'
  BY <1>2, <1>4 DEF ChainInv, Spent, Started
<1>9. \A j \in 1 .. issued' :
         \/ j = issued' /\ ~Live(j)'
         \/ j \in 1 .. issued /\ token'[j] = token[j] /\ Live(j)' = Live(j)
  BY <1>2, <1>4 DEF Live
<1>10. OneChain'
  BY <1>1, <1>2, <1>5, <1>9 DEF ChainInv, OneChain, SameChain
<1> QED
  BY <1>7, <1>8, <1>10 DEF ChainInv

\* The last token of a response is issued, and all of them are sent.  One of
\* them at most is a refresh token, and the request holds none any more.
LEMMA ChainRespond ==
    ASSUME Typed, ChainInv, NEW r \in Slot, Busy(r),
           NEW kind \in {"access", "refresh"}, NEW ttl \in Nat,
           IssueJwt(kind, r, ttl),
           UNCHANGED grants,
           NEW jwts, Respond(r, jwts),
           \A j \in jwts : j = issued' \/ (j \in 1 .. issued /\ token[j].kind = "access")
    PROVE  ChainInv'
<1>1. req[r].grant \in Grant /\ req[r].grant \in 1 .. grants
  BY DEF Typed, Granted, Sound, Busy, ChainInv, Held
<1>2. /\ issued' = issued + 1 /\ issued \in Nat /\ issued' \notin 1 .. issued
      /\ \A j \in 1 .. issued : j \in 1 .. issued' /\ token'[j] = token[j]
      /\ SameChain(token'[issued'], req[r])
      /\ mapped' = mapped \cup {issued'}
  BY <1>1, Issued DEF Typed, SameChain
<1>3. req'[r] = Idle /\ \A s \in Slot : s # r => req'[s] = req[s]
  BY DEF Respond, Reply, Typed, TypeOK
<1>4. sent \subseteq sent'
  BY DEF Respond
<1>5. \A s \in Slot : Busy(s)' => /\ s # r /\ Busy(s) /\ req'[s] = req[s]
                                  /\ ~SameChain(req[s], req[r])
  BY <1>3, IdleRequest DEF Busy, ChainInv, OneChain
<1>6. \A j \in Jti :
         \/ answers'[j] = answers[j]
         \/ /\ j = req[r].from /\ req[r].from # None
            /\ answers[j] = 0 /\ answers'[j] = 1
            /\ j \in 1 .. issued /\ j \notin mapped
  BY DEF Respond, Typed, TypeOK, Granted, Sound, ChainInv, Held
<1>7. Spent'
  BY <1>2, <1>6 DEF ChainInv, Spent
<1> Started'
  <2> SUFFICES ASSUME NEW j \in sent', token'[j].kind = "refresh", token'[j].chain # 0
               PROVE  token'[j].chain \in Jti /\ answers'[token'[j].chain] # 0
    BY DEF Started
  <2>1. CASE j \in 1 .. issued
    <3>1. j \in sent /\ token'[j] = token[j]
      BY <1>2, <2>1 DEF Respond
    <3> QED
      BY <1>6, <3>1 DEF ChainInv, Started
  <2>2. CASE j \notin 1 .. issued
    <3>1. j = issued' /\ token'[j].chain = req[r].chain
      BY <1>2, <2>2 DEF Respond, SameChain, Typed, TypeOK
    <3>2. req[r].from # None /\ req[r].chain = ChainOf(req[r].from) /\ req[r].from \in sent
      BY <3>1 DEF ChainInv, Held
    <3>3. req[r].from \in Jti /\ answers'[req[r].from] # 0
      BY <3>2, RequestFields DEF Respond, Typed, TypeOK
    <3>4. CASE token[req[r].from].kind = "access"
      BY <3>1, <3>2, <3>3, <3>4 DEF ChainOf
    <3>5. CASE token[req[r].from].kind # "access"
      <4>1. token[req[r].from].kind = "refresh" /\ req[r].chain = token[req[r].from].chain
        BY <3>2, <3>5 DEF ChainOf, Typed, TypeOK, TokenInfo
      <4>2. req[r].chain \in Jti /\ answers[req[r].chain] # 0
        BY <3>1, <3>2, <4>1 DEF ChainInv, Started
      <4> QED
        BY <1>6, <3>1, <4>2
    <3> QED
      BY <3>4, <3>5
  <2> QED
    BY <2>1, <2>2
<1>8. Held'
  <2> SUFFICES ASSUME NEW s \in Slot, Busy(s)'
               PROVE  /\ req[s].step # "take" /\ req[s].grant \in 1 .. grants
                      /\ req[s].from = None => req[s].chain = 0
                      /\ req[s].from # None =>
                             /\ req[s].from \in sent' /\ req[s].from \notin mapped'
                             /\ token'[req[s].from].grant = req[s].grant
                             /\ req[s].chain = ChainOf(req[s].from)'
                             /\ answers'[req[s].from] = 0
                      /\ req[s].step = "saveRefresh" =>
                             /\ token'[req[s].access].kind = "access"
                             /\ token'[req[s].access].grant = req[s].grant
    BY <1>3, <1>5, IdleRequest DEF ChainInv, Held, Busy
  <2>1. s # r /\ Busy(s) /\ req'[s] = req[s] /\ ~SameChain(req[s], req[r])
    BY <1>5
  <2>2. /\ req[s].step # "take" /\ req[s].grant \in 1 .. grants
        /\ req[s].from = None => req[s].chain = 0
    BY <2>1 DEF ChainInv, Held
  <2>3. req[s].step = "saveRefresh" => /\ token'[req[s].access].kind = "access"
                                       /\ token'[req[s].access].grant = req[s].grant
    BY <1>2 DEF ChainInv, Held, Typed, Granted, Sound
  <2>4. ASSUME req[s].from # None
        PROVE  /\ req[s].from \in sent' /\ req[s].from \notin mapped'
               /\ token'[req[s].from].grant = req[s].grant
               /\ req[s].chain = ChainOf(req[s].from)'
               /\ answers'[req[s].from] = 0
    <3>1. req[s].from \in 1 .. issued /\ req[s].from \in Jti
      BY <2>4, RequestFields DEF Typed, Granted, Sound
    <3>2. /\ req[s].from \in sent /\ req[s].from \notin mapped
          /\ token[req[s].from].grant = req[s].grant
          /\ req[s].chain = ChainOf(req[s].from)
          /\ answers[req[s].from] = 0
      BY <2>4 DEF ChainInv, Held
    <3>3. req[s].from # req[r].from
      BY <2>1, <2>4, <3>2 DEF ChainInv, Held, SameChain
    <3> QED
      BY <1>2, <1>4, <1>6, <2>1, <3>1, <3>2, <3>3 DEF ChainOf
  <2> QED
    BY <2>2, <2>3, <2>4
<1>9. \A j \in 1 .. issued' :
         \/ j = issued'
         \/ /\ j \in 1 .. issued /\ token'[j] = token[j] /\ Live(j)' => Live(j)
            /\ Live(j) => ~SameChain(token[j], req[r])
  <2>1. \A j \in 1 .. issued : Live(j) => ~SameChain(token[j], req[r])
    BY DEF ChainInv, OneChain
  <2> QED
    BY <1>2, <2>1 DEF Live, Respond
<1>10. OneChain'
  BY <1>1, <1>2, <1>5, <1>9 DEF ChainInv, OneChain, SameChain
<1> QED
  BY <1>7, <1>8, <1>10 DEF ChainInv

LEMMA ChainSaveAccess ==
    ASSUME Typed, ChainInv, NEW r \in Slot, SaveAccess(r)
    PROVE  ChainInv'
<1>1. /\ Busy(r) /\ req[r].aTtl \in Nat
      /\ IssueJwt("access", r, req[r].aTtl) /\ issued' = issued + 1
      /\ UNCHANGED grants
  BY RequestFields DEF SaveAccess, Typed, Busy, IssueJwt
<1>2. CASE Respond(r, {issued + 1})
  BY <1>1, <1>2, ChainRespond
<1>3. CASE /\ req' = [req EXCEPT ![r].step = "saveRefresh", ![r].access = issued + 1]
           /\ UNCHANGED <<sent, answers>>
  <2>1. PICK q : q = [req[r] EXCEPT !.step = "saveRefresh", !.access = issued + 1]
    OBVIOUS
  <2>2. issued + 1 \in Jti
    BY <1>1, Issued DEF SaveAccess, Typed, Granted, Sound
  <2>3. /\ q \in Request /\ q.step = "saveRefresh" /\ q.grant = req[r].grant
        /\ q.from = req[r].from /\ q.access = issued' /\ q.chain = req[r].chain
    BY <1>1, <2>1, <2>2, RequestFields DEF Typed, Request, Step
  <2>4. req' = [req EXCEPT ![r] = q]
    BY <1>3, <2>1
  <2> QED
    BY <1>1, <1>3, <2>3, <2>4, ChainIssueUnsent DEF SameChain
<1> QED
  BY <1>2, <1>3 DEF SaveAccess

LEMMA ChainSaveRefresh ==
    ASSUME Typed, ChainInv, NEW r \in Slot, SaveRefresh(r)
    PROVE  ChainInv'
<1>1. /\ Busy(r) /\ req[r].rTtl \in Nat
      /\ IssueJwt("refresh", r, req[r].rTtl) /\ issued' = issued + 1
      /\ UNCHANGED grants
      /\ req[r].step \notin {"idle", "take"}
  BY RequestFields DEF SaveRefresh, Typed, Busy, IssueJwt
<1>2. req[r].access \in 1 .. issued /\ token[req[r].access].kind = "access"
  BY DEF SaveRefresh, Typed, Granted, Sound, ChainInv, Held
<1>3. CASE Respond(r, {req[r].access, issued + 1})
  BY <1>1, <1>2, <1>3, ChainRespond
<1>4. CASE Fail(r) /\ UNCHANGED <<sent, answers>>
  <2>1. PICK q \in Request :
               /\ req' = [req EXCEPT ![r] = q] /\ q.step # "saveRefresh"
               /\ \/ q = Idle
                  \/ q.from = req[r].from /\ SameChain(q, req[r])
                     /\ q.step \notin {"idle", "take"}
    BY <1>1, <1>4, Moved
  <2> QED
    BY <1>1, <1>4, <2>1, ChainIssueUnsent
<1> QED
  BY <1>3, <1>4 DEF SaveRefresh

\* The steps that only move a request: what it becomes.
LEMMA MovesOn ==
    ASSUME Typed, NEW r \in Slot, req[r].step \notin {"idle", "take"},
           SaveRecord(r) \/ Load(r) \/ CallUpstream(r) \/ CallFails(r)
    PROVE  \E q : /\ req' = [req EXCEPT ![r] = q]
                  /\ \/ q = Idle /\ (req[r].from = None \/ req[r].step = "restore")
                     \/ /\ q.from = req[r].from /\ SameChain(q, req[r])
                        /\ q.step \in {"restore", "callUpstream", "saveRecord", "saveAccess"}
                        /\ q.step = "saveAccess" => SaveRecord(r)
                        /\ SaveRecord(r) => /\ q.aTtl = req[r].aTtl /\ q.rTtl = req[r].rTtl
                                            /\ q.step = "saveAccess"
                        /\ \/ q.gen = req[r].gen
                           \/ Load(r) /\ RecordFound(req[r].grant)
                              /\ q.gen = record[req[r].grant].gen
                           \/ CallUpstream(r) /\ q.gen = current'[req[r].grant]
<1>1. req[r].grant \in Grant
  BY DEF Typed, Granted, Sound
<1>2. CASE Reply(r) /\ (req[r].from = None \/ req[r].step = "restore")
  BY <1>2 DEF Reply
<1>3. ASSUME NEW step \in {"restore", "saveAccess"}, Goto(r, step),
             step = "saveAccess" <=> SaveRecord(r)
      PROVE  \E q : /\ req' = [req EXCEPT ![r] = q]
                    /\ q.from = req[r].from /\ SameChain(q, req[r])
                    /\ q.step = step
                    /\ q.aTtl = req[r].aTtl /\ q.rTtl = req[r].rTtl /\ q.gen = req[r].gen
  <2>1. PICK q : q = [req[r] EXCEPT !.step = step]
    OBVIOUS
  <2>2. req' = [req EXCEPT ![r] = q]
    BY <1>3, <2>1 DEF Goto
  <2>3. /\ q.from = req[r].from /\ q.grant = req[r].grant /\ q.chain = req[r].chain
        /\ q.step = step
        /\ q.aTtl = req[r].aTtl /\ q.rTtl = req[r].rTtl /\ q.gen = req[r].gen
    BY <2>1, RequestFields DEF Typed, Request
  <2> QED
    BY <2>2, <2>3 DEF SameChain
<1>4. CASE SaveRecord(r)
  <2>1. Goto(r, "saveAccess")
    BY <1>4 DEF SaveRecord
  <2> QED
    BY <1>3, <1>4, <2>1
<1>5. CASE Fail(r) /\ ~SaveRecord(r)
  <2>1. CASE req[r].from = None
    BY <1>2, <1>5, <2>1 DEF Fail
  <2>2. CASE req[r].from # None
    <3>1. Goto(r, "restore")
      BY <1>5, <2>2 DEF Fail
    <3> QED
      BY <1>3, <1>5, <3>1
  <2> QED
    BY <2>1, <2>2
<1>6. CASE Load(r) /\ ~Fail(r)
  <2>1. PICK q : q = [req[r] EXCEPT !.step = "callUpstream",
                                    !.gen = record[req[r].grant].gen]
    OBVIOUS
  <2>2. req' = [req EXCEPT ![r] = q] /\ RecordFound(req[r].grant) /\ ~SaveRecord(r)
    BY <1>6, <2>1 DEF Load, SaveRecord
  <2>3. /\ q.from = req[r].from /\ q.grant = req[r].grant /\ q.chain = req[r].chain
        /\ q.step = "callUpstream" /\ q.gen = record[req[r].grant].gen
    BY <2>1, RequestFields DEF Typed, Request
  <2> QED
    BY <1>6, <2>2, <2>3 DEF SameChain
<1>7. CASE CallUpstream(r) /\ ~Fail(r)
  <2> DEFINE next == IF env.rotates THEN current[req[r].grant] + 1
                     ELSE current[req[r].grant]
  <2>1. PICK a \in env.lifetimes, rt \in env.lifetimes :
           req' = [req EXCEPT ![r] =
               [@ EXCEPT !.step = "saveRecord", !.gen = next,
                         !.renewable = TRUE, !.aTtl = a, !.rTtl = rt]]
    BY <1>7 DEF CallUpstream
  <2>2. next = current'[req[r].grant] /\ ~SaveRecord(r)
    BY <1>1, <1>7 DEF CallUpstream, Typed, TypeOK, SaveRecord
  <2> HIDE DEF next
  <2>3. PICK q : q = [req[r] EXCEPT !.step = "saveRecord", !.gen = next,
                                    !.renewable = TRUE, !.aTtl = a, !.rTtl = rt]
    OBVIOUS
  <2>4. req' = [req EXCEPT ![r] = q]
    BY <2>1, <2>3 DEF Typed, TypeOK
  <2>5. /\ q.from = req[r].from /\ q.grant = req[r].grant /\ q.chain = req[r].chain
        /\ q.step = "saveRecord" /\ q.gen = next
    BY <2>3, RequestFields DEF Typed, Request
  <2> QED
    BY <1>7, <2>2, <2>4, <2>5 DEF SameChain
<1>8. CASE CallFails(r)
  <2>1. CASE Fail(r) /\ ~SaveRecord(r)
    BY <1>5, <2>1
  <2>2. CASE Fail(r) /\ SaveRecord(r)
    BY <1>4, <2>2
  <2>3. CASE Reply(r) /\ req[r].step = "restore"
    BY <1>2, <2>3
  <2> QED
    BY <1>8, <2>1, <2>2, <2>3 DEF CallFails
<1>9. (Load(r) \/ CallUpstream(r)) => ~SaveRecord(r)
  BY DEF Load, CallUpstream, SaveRecord
<1> QED
  BY <1>4, <1>5, <1>6, <1>7, <1>8, <1>9

LEMMA ChainMove ==
    ASSUME Typed, ChainInv, NEW r \in Slot,
           SaveRecord(r) \/ Load(r) \/ CallUpstream(r) \/ CallFails(r)
    PROVE  ChainInv'
<1>1. Busy(r) /\ req[r].step \notin {"idle", "take"}
  BY DEF SaveRecord, Load, CallUpstream, CallFails, Busy, ChainInv, Held
<1>2. UNCHANGED <<grants, token, issued, mapped, sent, answers>>
  BY DEF SaveRecord, Load, CallUpstream, CallFails
<1>3. PICK q : /\ req' = [req EXCEPT ![r] = q]
               /\ \/ q = Idle
                  \/ /\ q.from = req[r].from /\ SameChain(q, req[r])
                     /\ q.step \in {"restore", "callUpstream", "saveRecord", "saveAccess"}
  BY <1>1, MovesOn
<1>4. req'[r] = q /\ \A s \in Slot : s # r => req'[s] = req[s]
  BY <1>3 DEF Typed, TypeOK
<1> QED
  BY <1>1, <1>2, <1>3, <1>4, ChainCalm DEF SameChain

LEMMA ChainQuiet ==
    ASSUME Typed, ChainInv,
           (\E i \in Instance : Crash(i)) \/ Sweep \/ Tick \/ UNCHANGED vars
    PROVE  ChainInv'
<1>1. UNCHANGED <<grants, token, issued, sent, answers>> /\ mapped' \subseteq mapped
  BY DEF Crash, Sweep, Tick, vars
<1>2. \A r \in Slot : req'[r] = req[r] \/ req'[r] = Idle
  BY DEF Crash, Sweep, Tick, vars
<1> QED
  BY <1>1, <1>2, ChainCalm

\* No request is between the get() and the delete() of a take.
LEMMA ChainFinishTake ==
    ASSUME ChainInv, NEW r \in Slot, FinishTake(r)
    PROVE  FALSE
BY DEF ChainInv, Held, Busy, FinishTake

LEMMA ChainNext ==
    ASSUME Typed, ChainInv, env.atomicTake, [Next]_vars
    PROVE  ChainInv'
<1>1. ASSUME NEW r \in Slot, HandlerStep(r) PROVE ChainInv'
  BY <1>1, ChainSaveAccess, ChainSaveRefresh, ChainFinishTake, ChainRestore, ChainMove
     DEF HandlerStep
<1> QED
  BY <1>1, ChainCodeExchanged, ChainRefresh, ChainQuiet DEF Next

LEMMA DeploymentFixed == [Next]_vars => env' = env
BY DEF Next, vars, CodeExchanged, Refresh, HandlerStep, SaveRecord, SaveAccess,
       SaveRefresh, FinishTake, Load, CallUpstream, Restore, CallFails, Crash, Sweep, Tick

LEMMA SwapNext == SwapInv /\ [Next]_vars => SwapInv'
<1> SUFFICES ASSUME SwapInv, [Next]_vars PROVE SwapInv'
  OBVIOUS
<1>1. Typed'
  BY TypedNext DEF SwapInv
<1>2. env.atomicTake => ChainInv'
  BY ChainNext DEF SwapInv
<1>3. env' = env
  BY DeploymentFixed
<1> QED
  BY <1>1, <1>2, <1>3 DEF SwapInv

--------------------------------------------------------------------------------
\* The state keeps its types, in every deployment.
THEOREM SwapTypesHold == Spec => []TypeOK
<1>1. SwapInv => TypeOK
  BY DEF SwapInv, Typed
<1> QED
  BY <1>1, SwapInit, SwapNext, PTL DEF Spec

\* With a take() that is atomic a token is answered at most once,
\* whatever fails, is retried or is handed back (handleSwapModeRefresh).
THEOREM RefreshRedeemedOnceHolds == Spec => []RefreshRedeemedOnce
<1>1. SwapInv => RefreshRedeemedOnce
  <2> SUFFICES ASSUME SwapInv, env.atomicTake, NEW j \in Jti PROVE answers[j] <= 1
    BY DEF RefreshRedeemedOnce
  <2>1. answers[j] \in Nat /\ (answers[j] # 0 => answers[j] = 1)
    BY DEF SwapInv, Typed, TypeOK, ChainInv, Spent
  <2> QED
    BY <2>1
<1> QED
  BY <1>1, SwapInit, SwapNext, PTL DEF Spec

\* ... and no client ever holds two refresh tokens of one chain that both work.
THEOREM OneRefreshTokenPerChainHolds == Spec => []OneRefreshTokenPerChain
<1>1. SwapInv => OneRefreshTokenPerChain
  <2> SUFFICES ASSUME SwapInv, env.atomicTake, NEW g \in Grant, NEW c \in 0 .. issued,
                      NEW j \in Redeemable(g, c), NEW k \in Redeemable(g, c)
               PROVE  j = k
    BY DEF OneRefreshTokenPerChain
  <2>1. /\ j \in 1 .. issued /\ token[j].kind = "refresh" /\ j # None
        /\ k \in 1 .. issued /\ token[k].kind = "refresh" /\ k # None
        /\ SameChain(token[j], token[k])
        /\ Live(j) \/ \E r \in Slot : req[r].from = j
        /\ Live(k) \/ \E r \in Slot : req[r].from = k
    BY TokenSwapAssumption DEF Redeemable, Live, SwapInv, Typed, TypeOK, SameChain
  <2>2. \A r \in Slot, n \in 1 .. issued :
            req[r].from = n /\ n # None /\ token[n].kind = "refresh"
                => Busy(r) /\ SameChain(req[r], token[n])
    BY DEF SwapInv, ChainInv, Held, SameChain, ChainOf
  <2> QED
    BY <2>1, <2>2 DEF SwapInv, ChainInv, OneChain, SameChain
<1> QED
  BY <1>1, SwapInit, SwapNext, PTL DEF Spec

--------------------------------------------------------------------------------
(* What a client is left with when only the upstream provider fails *)

\* No second chain of grant g is issuing, or has issued, tokens.  Once it is, it
\* is for good: nothing fails after the upstream answered.
NoFork(g) ==
    /\ \A j \in 1 .. issued : token[j].grant = g => token[j].chain = 0
    /\ \A r \in Slot : req[r].step \in Issuing /\ req[r].grant = g => req[r].chain = 0

Kept(g, exp) == record[g] # None /\ record[g].exp >= exp

\* The response whose record is saved, and whose tokens are not sent yet.
Writing(r) == req[r].step \in {"saveAccess", "saveRefresh"}

LatestAccess(j) ==
    token[j].kind = "access"
    /\ \A k \in sent : token[k].kind = "access" /\ token[k].grant = token[j].grant => k <= j

Unspent(j) == token[j].kind = "refresh" /\ answers[j] = 0

\* The access token of a response is the newest of its grant.
Fresh(q) ==
    /\ q.access \in 1 .. issued /\ token[q.access].exp <= now + q.aTtl
    /\ \A k \in sent : token[k].kind = "access" /\ token[k].grant = q.grant => k < q.access

\* The record of a grant outlives the tokens the client works with, and those
\* about to be sent to it.
RecordOf(g) ==
    /\ (\A r \in Slot : Writing(r) => req[r].grant # g) =>
           \A j \in sent :
               token[j].grant = g /\ JwtValid(j) /\ (LatestAccess(j) \/ Unspent(j))
                   => Kept(g, token[j].exp)
    /\ \A r \in Slot : Writing(r) /\ req[r].grant = g =>
           /\ Kept(g, now + req[r].aTtl) /\ Kept(g, now + req[r].rTtl)
           /\ req[r].step = "saveRefresh" => Fresh(req[r])

RecordInv == \A g \in Grant : NoFork(g) => RecordOf(g)

\* A valid token not answered yet is in the storage or in a request's hands.
Somewhere(j) == j \in mapped \/ \E r \in Slot : req[r].from = j

KeptInv == \A j \in 1 .. issued : JwtValid(j) /\ answers[j] = 0 => Somewhere(j)

\* An access token that was answered has started a chain.
ForkInv ==
    \A j \in 1 .. issued : token[j].kind = "access" /\ answers[j] # 0 =>
        \E k \in 1 .. issued : token[k].grant = token[j].grant /\ token[k].chain = j

\* Without rotation every generation stays the first.
SteadyInv ==
    ~env.rotates =>
        /\ \A g \in Grant : current[g] = 0 /\ (record[g] # None => record[g].gen = 0)
        /\ \A r \in Slot : req[r].gen = 0

LastingInv == RecordInv /\ KeptInv /\ ForkInv /\ SteadyInv

SteadfastInv == SwapInv /\ (Steadfast => LastingInv)

LEMMA SteadfastInit == Init => SteadfastInv
<1> SUFFICES ASSUME Init PROVE SteadfastInv
  OBVIOUS
<1>1. /\ \A r \in Slot : req[r] = Idle
      /\ issued = 0 /\ 1 .. 0 = {} /\ sent = {}
      /\ \A g \in Grant : current[g] = 0 /\ record[g] = None
  BY DEF Init
<1>2. RecordInv
  BY <1>1, IdleRequest DEF RecordInv, RecordOf, Writing
<1>3. KeptInv /\ ForkInv /\ SteadyInv
  BY <1>1, IdleRequest DEF KeptInv, ForkInv, SteadyInv
<1> QED
  BY <1>2, <1>3, SwapInit DEF SteadfastInv, LastingInv

--------------------------------------------------------------------------------
(* The kinds of steps *)

\* Requests that are not issuing tokens go on, start or end.
Turns ==
    /\ UNCHANGED <<now, token, issued, record, sent, answers>>
    /\ \A s \in Slot : \/ req'[s] = req[s]
                       \/ req[s].step \notin Issuing /\ ~Writing(s)'

\* A token is issued for request r ...
Goes(r) ==
    /\ req[r].step = "saveAccess" /\ req'[r].step = "saveRefresh"
    /\ SameChain(req'[r], req[r]) /\ req'[r].from = req[r].from /\ req'[r].gen = req[r].gen
    /\ req'[r].aTtl = req[r].aTtl /\ req'[r].rTtl = req[r].rTtl
    /\ req'[r].access = issued'
    /\ token'[issued'].kind = "access" /\ token'[issued'].exp = now + req[r].aTtl
    /\ UNCHANGED <<sent, answers>>

\* ... which ends with it.
Ends(r) ==
    /\ req'[r] = Idle
    /\ \/ /\ req[r].step = "saveAccess" /\ sent' = sent \cup {issued'}
          /\ token'[issued'].kind = "access" /\ token'[issued'].exp = now + req[r].aTtl
       \/ /\ req[r].step = "saveRefresh" /\ sent' = sent \cup {req[r].access, issued'}
          /\ token'[issued'].kind = "refresh" /\ token'[issued'].exp = now + req[r].rTtl
    /\ \A j \in Jti : answers'[j] = IF j = req[r].from THEN answers[j] + 1 ELSE answers[j]

Gives(r) ==
    /\ Writing(r)
    /\ issued' = issued + 1 /\ issued \in Nat /\ issued' \in Jti
    /\ \A j \in 1 .. issued : j \in 1 .. issued' /\ token'[j] = token[j]
    /\ \A j \in 1 .. issued' : j \in 1 .. issued \/ j = issued'
    /\ issued' \in 1 .. issued' /\ SameChain(token'[issued'], req[r])
    /\ mapped' = mapped \cup {issued'}
    /\ UNCHANGED <<now, record, current>>
    /\ \A s \in Slot : s # r => req'[s] = req[s]
    /\ Goes(r) \/ Ends(r)

LEMMA GivesAccess ==
    ASSUME Typed, NEW r \in Slot, SaveAccess(r)
    PROVE  Gives(r)
<1>1. /\ req[r].aTtl \in Nat /\ req[r].step = "saveAccess"
      /\ IssueJwt("access", r, req[r].aTtl) /\ req[r].grant \in Grant
      /\ UNCHANGED <<now, record, current>>
  BY RequestFields DEF SaveAccess, Typed, Granted, Sound
<1>2. /\ issued' = issued + 1 /\ issued \in Nat /\ issued' \in Jti
      /\ \A j \in 1 .. issued : j \in 1 .. issued' /\ token'[j] = token[j]
      /\ SameChain(token'[issued'], req[r])
      /\ token'[issued'].kind = "access" /\ token'[issued'].exp = now + req[r].aTtl
      /\ mapped' = mapped \cup {issued'}
  BY <1>1, Issued DEF Typed, SameChain
<1>3. issued' \in 1 .. issued' /\ \A j \in 1 .. issued' : j \in 1 .. issued \/ j = issued'
  BY <1>2
<1>4. CASE Respond(r, {issued + 1})
  <2>1. /\ req'[r] = Idle /\ sent' = sent \cup {issued'}
        /\ \A s \in Slot : s # r => req'[s] = req[s]
    BY <1>2, <1>4 DEF Respond, Reply, Typed, TypeOK
  <2>2. \A j \in Jti : answers'[j] = IF j = req[r].from THEN answers[j] + 1 ELSE answers[j]
    BY <1>4, TokenSwapAssumption DEF Respond, Typed, TypeOK, Jti
  <2>3. Ends(r)
    BY <1>1, <1>2, <2>1, <2>2 DEF Ends
  <2> QED
    BY <1>1, <1>2, <1>3, <2>1, <2>3 DEF Gives, Writing
<1>5. CASE /\ req' = [req EXCEPT ![r].step = "saveRefresh", ![r].access = issued + 1]
           /\ UNCHANGED <<sent, answers>>
  <2>1. PICK q : q = [req[r] EXCEPT !.step = "saveRefresh", !.access = issued + 1]
    OBVIOUS
  <2>2. /\ q.step = "saveRefresh" /\ q.grant = req[r].grant /\ q.chain = req[r].chain
        /\ q.from = req[r].from /\ q.gen = req[r].gen /\ q.access = issued + 1
        /\ q.aTtl = req[r].aTtl /\ q.rTtl = req[r].rTtl
    BY <2>1, RequestFields DEF Typed, Request
  <2>3. req' = [req EXCEPT ![r] = q]
    BY <1>5, <2>1
  <2>4. req'[r] = q /\ \A s \in Slot : s # r => req'[s] = req[s]
    BY <2>3 DEF Typed, TypeOK
  <2>5. Goes(r)
    BY <1>1, <1>2, <1>5, <2>2, <2>4 DEF Goes, SameChain
  <2> QED
    BY <1>1, <1>2, <1>3, <2>4, <2>5 DEF Gives, Writing
<1> QED
  BY <1>4, <1>5 DEF SaveAccess

LEMMA GivesRefresh ==
    ASSUME Typed, env.reliable, NEW r \in Slot, SaveRefresh(r)
    PROVE  Gives(r)
<1>1. /\ req[r].rTtl \in Nat /\ req[r].step = "saveRefresh"
      /\ IssueJwt("refresh", r, req[r].rTtl) /\ req[r].grant \in Grant
      /\ UNCHANGED <<now, record, current>>
      /\ Respond(r, {req[r].access, issued + 1})
  BY RequestFields DEF SaveRefresh, Typed, Granted, Sound
<1>2. /\ issued' = issued + 1 /\ issued \in Nat /\ issued' \in Jti
      /\ \A j \in 1 .. issued : j \in 1 .. issued' /\ token'[j] = token[j]
      /\ SameChain(token'[issued'], req[r])
      /\ token'[issued'].kind = "refresh" /\ token'[issued'].exp = now + req[r].rTtl
      /\ mapped' = mapped \cup {issued'}
  BY <1>1, Issued DEF Typed, SameChain
<1>3. issued' \in 1 .. issued' /\ \A j \in 1 .. issued' : j \in 1 .. issued \/ j = issued'
  BY <1>2
<1>4. /\ req'[r] = Idle /\ sent' = sent \cup {req[r].access, issued'}
      /\ \A s \in Slot : s # r => req'[s] = req[s]
  BY <1>1, <1>2 DEF Respond, Reply, Typed, TypeOK
<1>5. \A j \in Jti : answers'[j] = IF j = req[r].from THEN answers[j] + 1 ELSE answers[j]
  BY <1>1, TokenSwapAssumption DEF Respond, Typed, TypeOK, Jti
<1>6. Ends(r)
  BY <1>1, <1>2, <1>4, <1>5 DEF Ends
<1> QED
  BY <1>1, <1>2, <1>3, <1>4, <1>6 DEF Gives, Writing

LEMMA TurnsMove ==
    ASSUME Typed, ChainInv, env.reliable, NEW r \in Slot,
           Load(r) \/ CallUpstream(r) \/ Restore(r) \/ CallFails(r)
    PROVE  Turns
<1>1. UNCHANGED <<now, token, issued, record, sent, answers>>
  BY DEF Load, CallUpstream, Restore, CallFails
<1>2. /\ req[r].step \notin Issuing \cup {"idle", "take"}
      /\ ~SaveRecord(r)
  BY DEF Load, CallUpstream, Restore, CallFails, SaveRecord, Issuing
<1>3. CASE Restore(r)
  <2>1. req'[r] = Idle /\ \A s \in Slot : s # r => req'[s] = req[s]
    BY <1>3 DEF Restore, Reply, Typed, TypeOK
  <2> QED
    BY <1>1, <1>2, <2>1, IdleRequest DEF Turns, Writing
<1>4. CASE Load(r) \/ CallUpstream(r) \/ CallFails(r)
  <2>1. PICK q : /\ req' = [req EXCEPT ![r] = q]
                 /\ q = Idle \/ q.step \in {"restore", "callUpstream", "saveRecord"}
    BY <1>2, <1>4, MovesOn
  <2>2. req'[r] = q /\ \A s \in Slot : s # r => req'[s] = req[s]
    BY <2>1 DEF Typed, TypeOK
  <2> QED
    BY <1>1, <1>2, <2>1, <2>2, IdleRequest DEF Turns, Writing
<1> QED
  BY <1>3, <1>4

LEMMA TurnsEnter ==
    ASSUME Typed, env.atomicTake, NEW r \in Slot, NEW i \in Instance,
           \/ \E renewable \in BOOLEAN, a, rt \in env.lifetimes :
                  CodeExchanged(r, i, renewable, a, rt)
           \/ \E j \in sent : Refresh(r, i, j)
    PROVE  Turns
<1>1. /\ UNCHANGED <<now, token, issued, record, sent, answers>>
      /\ req[r] = Idle
  BY DEF CodeExchanged, Refresh
<1>2. CASE \E renewable \in BOOLEAN, a, rt \in env.lifetimes :
               CodeExchanged(r, i, renewable, a, rt)
  <2>1. PICK renewable \in BOOLEAN, a \in env.lifetimes, rt \in env.lifetimes :
           CodeExchanged(r, i, renewable, a, rt)
    BY <1>2
  <2>2. PICK q : q = [Idle EXCEPT !.step = "saveRecord", !.at = i, !.grant = grants + 1,
                                  !.renewable = renewable, !.aTtl = a,
                                  !.rTtl = IF renewable THEN rt ELSE 0]
    OBVIOUS
  <2>3. q.step = "saveRecord"
    BY <2>2 DEF Idle
  <2>4. req'[r] = q /\ \A s \in Slot : s # r => req'[s] = req[s]
    BY <2>1, <2>2 DEF CodeExchanged, Typed, TypeOK
  <2> QED
    BY <1>1, <2>3, <2>4, IdleRequest DEF Turns, Writing, Issuing
<1>3. CASE \E j \in sent : Refresh(r, i, j)
  <2>1. PICK j \in sent : Claimed(r, i, j)
    BY <1>3 DEF Refresh
  <2>2. j \in 1 .. issued
    BY DEF Typed, TypeOK
  <2>3. PICK q : req' = [req EXCEPT ![r] = q] /\ q.step = "load"
    BY <2>1, <2>2, NewClaim
  <2>4. req'[r] = q /\ \A s \in Slot : s # r => req'[s] = req[s]
    BY <2>3 DEF Typed, TypeOK
  <2> QED
    BY <1>1, <2>3, <2>4, IdleRequest DEF Turns, Writing, Issuing
<1> QED
  BY <1>2, <1>3

\* Every step is one of these.
LEMMA Kinds ==
    ASSUME Typed, ChainInv, Steadfast, [Next]_vars
    PROVE  \/ Turns \/ Sweep \/ Tick
           \/ \E r \in Slot : SaveRecord(r) \/ Gives(r)
<1>1. ASSUME NEW r \in Slot, HandlerStep(r)
      PROVE  Turns \/ SaveRecord(r) \/ Gives(r)
  BY <1>1, GivesAccess, GivesRefresh, TurnsMove, ChainFinishTake
     DEF HandlerStep, Steadfast
<1>2. ~\E i \in Instance : Crash(i)
  BY DEF Crash, Steadfast
<1>3. CASE UNCHANGED vars
  BY <1>3 DEF vars, Turns
<1>4. ASSUME NEW r \in Slot, NEW i \in Instance, NEW renewable \in BOOLEAN,
             NEW a \in env.lifetimes, NEW rt \in env.lifetimes,
             CodeExchanged(r, i, renewable, a, rt)
      PROVE  Turns
  BY <1>4, TurnsEnter DEF Steadfast
<1>5. ASSUME NEW r \in Slot, NEW i \in Instance, NEW j \in sent, Refresh(r, i, j)
      PROVE  Turns
  BY <1>5, TurnsEnter DEF Steadfast
<1> QED
  BY <1>1, <1>2, <1>3, <1>4, <1>5 DEF Next

\* What SaveRecord leaves alone, and what it writes.
LEMMA Recorded ==
    ASSUME Typed, NEW r \in Slot, SaveRecord(r)
    PROVE  /\ UNCHANGED <<now, token, issued, mapped, current, sent, answers>>
           /\ \A s \in Slot : s # r => req'[s] = req[s]
           /\ req'[r].step = "saveAccess" /\ req[r].step = "saveRecord"
           /\ SameChain(req'[r], req[r]) /\ req'[r].from = req[r].from
           /\ req'[r].gen = req[r].gen
           /\ req[r].grant \in Grant
           /\ \A g \in Grant : g # req[r].grant => record'[g] = record[g]
           /\ record'[req[r].grant] # None /\ record'[req[r].grant].gen = req[r].gen
           /\ record'[req[r].grant].exp >= now + req'[r].aTtl
           /\ record'[req[r].grant].exp >= now + req'[r].rTtl
<1>1. /\ UNCHANGED <<now, token, issued, mapped, current, sent, answers>>
      /\ req[r].step = "saveRecord" /\ Goto(r, "saveAccess")
      /\ req[r].grant \in Grant
      /\ req[r].aTtl \in Nat /\ req[r].rTtl \in Nat /\ now \in Nat
  BY RequestFields DEF SaveRecord, Typed, TypeOK, Granted, Sound
<1>2. PICK q : q = [req[r] EXCEPT !.step = "saveAccess"]
  OBVIOUS
<1>3. /\ q.step = "saveAccess" /\ q.from = req[r].from /\ q.gen = req[r].gen
      /\ q.grant = req[r].grant /\ q.chain = req[r].chain
      /\ q.aTtl = req[r].aTtl /\ q.rTtl = req[r].rTtl
  BY <1>2, RequestFields DEF Typed, Request
<1>4. req'[r] = q /\ \A s \in Slot : s # r => req'[s] = req[s]
  BY <1>1, <1>2 DEF Goto, Typed, TypeOK
<1>5. PICK ttl \in Nat : /\ ttl = RecordTtl(req[r].aTtl, req[r].rTtl)
                         /\ req[r].aTtl <= ttl /\ req[r].rTtl <= ttl
  BY <1>1 DEF RecordTtl
<1>6. PICK rec : rec = [gen |-> req[r].gen, renewable |-> req[r].renewable, exp |-> now + ttl]
  OBVIOUS
<1>7. rec.gen = req[r].gen /\ rec.exp = now + ttl /\ rec # None
  <2>1. rec \in RecordInfo
    BY <1>1, <1>6, RequestFields DEF RecordInfo, Typed
  <2> QED
    BY <1>6, <2>1, TokenSwapAssumption
<1>8. record'[req[r].grant] = rec /\ \A g \in Grant : g # req[r].grant => record'[g] = record[g]
  BY <1>1, <1>5, <1>6 DEF SaveRecord, Typed, TypeOK
<1>9. /\ record'[req[r].grant].exp >= now + req[r].aTtl
      /\ record'[req[r].grant].exp >= now + req[r].rTtl
  BY <1>1, <1>5, <1>7, <1>8
<1> QED
  BY <1>1, <1>3, <1>4, <1>7, <1>8, <1>9 DEF SameChain

--------------------------------------------------------------------------------
(* The invariants are kept *)

LEMMA NoForkBefore ==
    ASSUME Typed, ChainInv, Steadfast, [Next]_vars, NEW g \in Grant, NoFork(g)'
    PROVE  NoFork(g)
<1>1. CASE Turns
  <2>1. \A s \in Slot : req[s].step \in Issuing => req'[s] = req[s]
    BY <1>1 DEF Turns
  <2> QED
    BY <1>1, <2>1 DEF Turns, NoFork
<1>2. CASE Sweep \/ Tick
  BY <1>2 DEF Sweep, Tick, NoFork
<1>3. ASSUME NEW r \in Slot, SaveRecord(r) PROVE NoFork(g)
  <2>1. \A s \in Slot : req[s].step \in Issuing =>
            req'[s].step \in Issuing /\ SameChain(req'[s], req[s])
    BY <1>3, Recorded DEF Issuing, SameChain
  <2> QED
    BY <1>3, <2>1, Recorded DEF NoFork, SameChain
<1>4. ASSUME NEW r \in Slot, Gives(r) PROVE NoFork(g)
  <2>1. \A j \in 1 .. issued : token[j].grant = g => token[j].chain = 0
    BY <1>4 DEF Gives, NoFork
  <2>2. req[r].grant = g => req[r].chain = 0
    BY <1>4 DEF Gives, NoFork, SameChain
  <2>3. \A s \in Slot : s # r /\ req[s].step \in Issuing /\ req[s].grant = g
                        => req[s].chain = 0
    BY <1>4 DEF Gives, NoFork
  <2> QED
    BY <2>1, <2>2, <2>3 DEF NoFork
<1> QED
  BY <1>1, <1>2, <1>3, <1>4, Kinds

\* Only one response of a grant without a second chain is under way.
LEMMA OneWriter ==
    ASSUME Typed, ChainInv, NEW r \in Slot, NEW s \in Slot, NoFork(req[r].grant),
           req[r].step \in Issuing, req[s].step \in Issuing, req[s].grant = req[r].grant
    PROVE  s = r
<1>1. Busy(r) /\ Busy(s) /\ SameChain(req[s], req[r])
  BY DEF NoFork, Busy, Issuing, SameChain
<1> QED
  BY <1>1 DEF ChainInv, OneChain

LEMMA RecordTurns ==
    ASSUME RecordInv, Turns, NEW g \in Grant, NoFork(g)
    PROVE  RecordOf(g)'
<1>1. /\ UNCHANGED <<now, token, issued, record, sent, answers>>
      /\ \A s \in Slot : Writing(s)' => req'[s] = req[s]
      /\ \A s \in Slot : Writing(s) => req'[s] = req[s]
  BY DEF Turns, Writing, Issuing
<1>2. \A s \in Slot : Writing(s)' <=> Writing(s)
  BY <1>1 DEF Writing
<1>3. RecordOf(g)
  BY DEF RecordInv
<1>4. (\A r \in Slot : Writing(r) => req[r].grant # g)
         <=> (\A r \in Slot : Writing(r)' => req'[r].grant # g)
  BY <1>1, <1>2
<1> QED
  BY <1>1, <1>2, <1>3, <1>4
     DEF RecordOf, JwtValid, LatestAccess, Unspent, Kept, Fresh

LEMMA RecordSweep ==
    ASSUME Typed, RecordInv, Sweep, NEW g \in Grant, NoFork(g)
    PROVE  RecordOf(g)'
<1>1. UNCHANGED <<env, now, grants, token, issued, current, req, sent, answers>>
  BY DEF Sweep
<1>2. ASSUME NEW exp \in Nat, exp >= now, Kept(g, exp) PROVE Kept(g, exp)'
  <2>1. record[g].exp \in Nat /\ now \in Nat
    BY <1>2 DEF Kept, Typed, TypeOK, RecordInfo
  <2>2. record'[g] = record[g]
    BY <1>2, <2>1 DEF Sweep, RecordFound, Kept
  <2> QED
    BY <1>2, <2>2 DEF Kept
<1>3. ASSUME NEW j \in sent, JwtValid(j), Kept(g, token[j].exp)
      PROVE  Kept(g, token[j].exp)'
  <2>1. token[j].exp \in Nat /\ now \in Nat
    BY DEF Typed, TypeOK, TokenInfo
  <2>2. PICK exp \in Nat : exp = token[j].exp
    BY <2>1
  <2>3. exp >= now /\ Kept(g, exp)
    BY <1>3, <2>1, <2>2 DEF JwtValid
  <2> QED
    BY <1>1, <1>2, <2>2, <2>3 DEF Kept
<1>4. ASSUME NEW r \in Slot
      PROVE  /\ Kept(g, now + req[r].aTtl) => Kept(g, now + req[r].aTtl)'
             /\ Kept(g, now + req[r].rTtl) => Kept(g, now + req[r].rTtl)'
  <2>1. req[r].aTtl \in Nat /\ req[r].rTtl \in Nat /\ now \in Nat
    BY RequestFields DEF Typed, TypeOK
  <2>2. PICK a \in Nat, b \in Nat : a = now + req[r].aTtl /\ b = now + req[r].rTtl
    BY <2>1
  <2>3. a >= now /\ b >= now
    BY <2>1, <2>2
  <2> QED
    BY <1>1, <1>2, <2>2, <2>3 DEF Kept
<1>5. RecordOf(g)
  BY DEF RecordInv
<1> QED
  BY <1>1, <1>3, <1>4, <1>5
     DEF RecordOf, JwtValid, LatestAccess, Unspent, Writing, Fresh

\* While a response is under way the clock stands still.
LEMMA RecordTick ==
    ASSUME Typed, Steadfast, RecordInv, Tick, NEW g \in Grant, NoFork(g)
    PROVE  RecordOf(g)'
<1>1. /\ UNCHANGED <<token, issued, record, req, sent, answers>>
      /\ now \in Nat /\ now' = now + 1
      /\ \A r \in Slot : ~Writing(r)
  BY DEF Tick, Steadfast, Writing, Issuing, Typed, TypeOK
<1>2. ASSUME NEW j \in sent, JwtValid(j)' PROVE JwtValid(j)
  <2>1. token[j].exp \in Nat
    BY DEF Typed, TypeOK, TokenInfo
  <2> QED
    BY <1>1, <1>2, <2>1 DEF JwtValid
<1>3. RecordOf(g)
  BY DEF RecordInv
<1> QED
  BY <1>1, <1>2, <1>3 DEF RecordOf, LatestAccess, Unspent, Kept, Writing

LEMMA RecordSaved ==
    ASSUME Typed, ChainInv, RecordInv, NEW r \in Slot, SaveRecord(r),
           NEW g \in Grant, NoFork(g)
    PROVE  RecordOf(g)'
<1>1. /\ UNCHANGED <<now, token, issued, mapped, current, sent, answers>>
      /\ \A s \in Slot : s # r => req'[s] = req[s]
      /\ req'[r].step = "saveAccess" /\ req[r].step = "saveRecord"
      /\ req'[r].grant = req[r].grant
      /\ Writing(r)' /\ ~Writing(r)
  BY Recorded DEF SameChain, Writing
<1>2. CASE req[r].grant = g
  <2>1. ASSUME NEW s \in Slot, Writing(s)', req'[s].grant = g PROVE s = r
    <3> SUFFICES ASSUME s # r PROVE FALSE
      OBVIOUS
    <3>1. req[s].step \in Issuing /\ req[s].grant = g /\ req[r].step \in Issuing
      BY <1>1, <2>1 DEF Writing, Issuing
    <3> QED
      BY <1>2, <3>1, OneWriter
  <2>2. Kept(g, now + req[r].aTtl)' /\ Kept(g, now + req[r].rTtl)'
    BY <1>1, <1>2, Recorded DEF Kept
  <2>3. ~(\A s \in Slot : Writing(s)' => req'[s].grant # g)
    BY <1>1, <1>2
  <2> QED
    BY <1>1, <2>1, <2>2, <2>3 DEF RecordOf
<1>3. CASE req[r].grant # g
  <2>1. record'[g] = record[g]
    BY <1>3, Recorded
  <2>2. \A s \in Slot :
            Writing(s)' /\ req'[s].grant = g <=> Writing(s) /\ req[s].grant = g
    BY <1>1, <1>3 DEF Writing
  <2>3. \A s \in Slot : Writing(s) /\ req[s].grant = g => req'[s] = req[s]
    BY <1>1
  <2>4. RecordOf(g)
    BY DEF RecordInv
  <2> QED
    BY <1>1, <2>1, <2>2, <2>3, <2>4
       DEF RecordOf, JwtValid, LatestAccess, Unspent, Kept, Fresh
<1> QED
  BY <1>2, <1>3

\* The tokens of a grant, when one of another grant is issued and sent.
LEMMA RecordElsewhere ==
    ASSUME Typed, ChainInv, RecordInv, NEW r \in Slot, Gives(r),
           NEW g \in Grant, NoFork(g), req[r].grant # g
    PROVE  RecordOf(g)'
<1>1. /\ \A j \in 1 .. issued : token'[j] = token[j]
      /\ token'[issued'].grant # g
      /\ UNCHANGED <<now, record>>
      /\ \A s \in Slot : s # r => req'[s] = req[s]
      /\ req'[r].grant # g
      /\ sent \subseteq 1 .. issued
  <2>1. /\ \A j \in 1 .. issued : token'[j] = token[j]
        /\ token'[issued'].grant # g
        /\ UNCHANGED <<now, record>>
        /\ \A s \in Slot : s # r => req'[s] = req[s]
    BY DEF Gives, SameChain
  <2>2. req'[r].grant = req[r].grant \/ req'[r].grant = 0
    BY IdleRequest DEF Gives, Goes, Ends, SameChain
  <2>3. g # 0
    BY Numbers DEF Grant
  <2>4. sent \subseteq 1 .. issued
    BY DEF Typed, TypeOK
  <2> QED
    BY <2>1, <2>2, <2>3, <2>4
<1>2. req[r].step = "saveRefresh" =>
         /\ req[r].access \in 1 .. issued /\ token[req[r].access].grant # g
  BY DEF Typed, Granted, Sound, ChainInv, Held
<1>3. /\ sent \subseteq sent'
      /\ \A j \in sent' : token'[j].grant = g => j \in sent
  BY <1>1, <1>2 DEF Gives, Goes, Ends
<1>4. \A j \in sent : token'[j] = token[j]
  BY <1>1
<1>5. ASSUME NEW j \in sent, token[j].grant = g PROVE answers'[j] = 0 => answers[j] = 0
  <2>1. j \in 1 .. issued /\ issued \in 0 .. MaxJwts
    BY <1>1 DEF Typed, TypeOK
  <2>2. j \in Jti
    BY <2>1, Numbers DEF Jti
  <2>3. answers[j] \in Nat
    BY <2>2 DEF Typed, TypeOK
  <2>4. Goes(r) \/ Ends(r)
    BY DEF Gives
  <2>5. CASE Goes(r)
    BY <2>5 DEF Goes
  <2>6. CASE Ends(r)
    <3>1. answers'[j] = answers[j] \/ answers'[j] = answers[j] + 1
      BY <2>2, <2>6 DEF Ends
    <3> QED
      BY <2>3, <3>1
  <2> QED
    BY <2>4, <2>5, <2>6
<1>6. \A j \in sent : token[j].grant = g /\ LatestAccess(j)' => LatestAccess(j)
  BY <1>3, <1>4 DEF LatestAccess
<1>7. \A s \in Slot :
          Writing(s)' /\ req'[s].grant = g <=> Writing(s) /\ req[s].grant = g
  BY <1>1 DEF Writing
<1>8. ASSUME NEW s \in Slot, Writing(s), req[s].grant = g, req[s].step = "saveRefresh",
             Fresh(req[s])
      PROVE  Fresh(req[s])'
  <2>1. s # r /\ req'[s] = req[s] /\ req[s].access \in 1 .. issued'
    BY <1>1, <1>8 DEF Fresh, Gives
  <2>2. token'[req[s].access] = token[req[s].access]
    BY <1>1, <1>8 DEF Fresh
  <2> QED
    BY <1>1, <1>3, <1>4, <1>8, <2>1, <2>2 DEF Fresh
<1>9. RecordOf(g)
  BY DEF RecordInv
<1>10. ASSUME NEW s \in Slot, Writing(s)', req'[s].grant = g
       PROVE  /\ Kept(g, now + req[s].aTtl)' /\ Kept(g, now + req[s].rTtl)'
              /\ req'[s].step = "saveRefresh" => Fresh(req[s])'
  <2>1. s # r /\ req'[s] = req[s] /\ Writing(s) /\ req[s].grant = g
    BY <1>1, <1>7, <1>10
  <2> QED
    BY <1>1, <1>8, <1>9, <2>1 DEF RecordOf, Kept
<1>11. ASSUME \A s \in Slot : Writing(s)' => req'[s].grant # g,
              NEW j \in sent', token'[j].grant = g, JwtValid(j)',
              LatestAccess(j)' \/ Unspent(j)'
       PROVE  Kept(g, token[j].exp)'
  <2>1. /\ j \in sent /\ token'[j] = token[j] /\ JwtValid(j)
        /\ LatestAccess(j) \/ Unspent(j)
    BY <1>1, <1>3, <1>4, <1>5, <1>6, <1>11 DEF JwtValid, Unspent
  <2>2. Kept(g, token[j].exp)
    BY <1>7, <1>9, <1>11, <2>1 DEF RecordOf
  <2> QED
    BY <1>1, <2>1, <2>2 DEF Kept
<1> QED
  BY <1>10, <1>11 DEF RecordOf

\* The tokens of the response itself.
LEMMA RecordGives ==
    ASSUME Typed, ChainInv, KeptInv, RecordInv, NEW r \in Slot, Gives(r),
           NEW g \in Grant, NoFork(g), req[r].grant = g
    PROVE  RecordOf(g)'
<1>1. /\ \A j \in 1 .. issued : token'[j] = token[j]
      /\ token'[issued'].grant = g
      /\ UNCHANGED <<now, record>>
      /\ \A s \in Slot : s # r => req'[s] = req[s]
      /\ sent \subseteq 1 .. issued /\ issued \in Nat /\ issued' = issued + 1
      /\ now \in Nat /\ req[r].aTtl \in Nat /\ req[r].rTtl \in Nat
  BY RequestFields DEF Gives, SameChain, Typed, TypeOK
<1>2. RecordOf(g)
  BY DEF RecordInv
<1>3. /\ Kept(g, now + req[r].aTtl) /\ Kept(g, now + req[r].rTtl)
      /\ req[r].step = "saveRefresh" => Fresh(req[r])
      /\ Writing(r)
  BY <1>2 DEF RecordOf, Gives
<1>4. ASSUME NEW s \in Slot, s # r, Writing(s)', req'[s].grant = g PROVE FALSE
  <2>1. req[s].step \in Issuing /\ req[s].grant = g /\ req[r].step \in Issuing
    BY <1>1, <1>3, <1>4 DEF Writing, Issuing
  <2> QED
    BY <1>4, <2>1, OneWriter
<1>5. CASE Goes(r)
  <2>1. Writing(r)' /\ req'[r].grant = g
    BY <1>5 DEF Goes, Writing, SameChain
  <2>2. Kept(g, now + req[r].aTtl)' /\ Kept(g, now + req[r].rTtl)'
    BY <1>1, <1>3, <1>5 DEF Goes, Kept
  <2>3. Fresh(req[r])'
    <3>1. req'[r].access = issued' /\ token'[issued'].exp <= now + req'[r].aTtl /\ sent' = sent
      BY <1>1, <1>5 DEF Goes
    <3>2. \A k \in sent' : k < issued'
      BY <1>1, <3>1
    <3>3. issued' \in 1 .. issued'
      BY DEF Gives
    <3> QED
      BY <1>1, <3>1, <3>2, <3>3 DEF Fresh
  <2> QED
    BY <1>4, <2>1, <2>2, <2>3 DEF RecordOf
<1>6. CASE Ends(r)
  <2>1. ~Writing(r)'
    BY <1>6, IdleRequest DEF Ends, Writing
  <2>2. record[g].exp \in Nat /\ record[g] # None
    BY <1>3 DEF Kept, Typed, TypeOK, RecordInfo
  <2>3. ASSUME NEW j \in sent', token'[j].grant = g, JwtValid(j)',
               LatestAccess(j)' \/ Unspent(j)'
        PROVE  Kept(g, token[j].exp)'
    <3>1. CASE j = issued'
      BY <1>1, <1>3, <1>6, <3>1 DEF Ends, Kept
    <3>2. CASE req[r].step = "saveRefresh" /\ j = req[r].access
      <4>1. token'[j] = token[j] /\ token[j].exp <= now + req[r].aTtl /\ token[j].exp \in Nat
        BY <1>1, <1>3, <3>2 DEF Fresh, Typed, TypeOK, TokenInfo
      <4> QED
        BY <1>1, <1>3, <2>2, <4>1 DEF Kept
    <3>3. CASE j \in sent /\ j # issued' /\ ~(req[r].step = "saveRefresh" /\ j = req[r].access)
      <4>1. j \in 1 .. issued /\ j \in Jti /\ token'[j] = token[j] /\ JwtValid(j)
        BY <1>1, <2>3, <3>3, Numbers DEF JwtValid, Jti, Typed, TypeOK
      <4>2. CASE LatestAccess(j)'
        <5>1. token[j].kind = "access" /\ token[j].grant = g
          BY <2>3, <4>1, <4>2 DEF LatestAccess
        <5>2. CASE req[r].step = "saveAccess"
          <6>1. issued' \in sent' /\ token'[issued'].kind = "access" /\ issued' > j
            BY <1>1, <1>6, <4>1, <5>2 DEF Ends
          <6>2. issued' <= j
            BY <1>1, <2>3, <4>2, <6>1 DEF LatestAccess
          <6> QED
            BY <1>1, <4>1, <6>1, <6>2
        <5>3. CASE req[r].step = "saveRefresh"
          <6>1. /\ req[r].access \in sent' /\ req[r].access \in 1 .. issued
                /\ token'[req[r].access] = token[req[r].access]
                /\ token[req[r].access].kind = "access"
                /\ token[req[r].access].grant = g
            BY <1>1, <1>6, <5>3 DEF Ends, Typed, Granted, Sound, ChainInv, Held
          <6>2. req[r].access <= j
            BY <2>3, <4>2, <6>1 DEF LatestAccess
          <6>3. j < req[r].access
            BY <1>3, <3>3, <5>1, <5>3 DEF Fresh
          <6> QED
            BY <4>1, <6>1, <6>2, <6>3
        <5> QED
          BY <1>3, <5>2, <5>3 DEF Writing
      <4>3. CASE Unspent(j)'
        <5>1. /\ token[j].kind = "refresh" /\ token[j].grant = g /\ token[j].chain = 0
              /\ answers'[j] = 0 /\ answers[j] \in Nat
          BY <2>3, <4>1, <4>3 DEF Unspent, NoFork, Typed, TypeOK
        <5>2. answers[j] = 0 /\ req[r].from # j
          BY <1>6, <4>1, <5>1 DEF Ends
        <5>3. req[r].chain = 0 /\ Busy(r)
          BY <1>3 DEF NoFork, Writing, Issuing, Busy
        <5>4. ~(j \in mapped)
          BY <3>3, <4>1, <5>1, <5>3 DEF ChainInv, OneChain, Live, SameChain
        <5>5. PICK s \in Slot : req[s].from = j
          BY <4>1, <5>2, <5>4 DEF KeptInv, Somewhere
        <5>6. j # None
          BY <4>1, TokenSwapAssumption
        <5>7. Busy(s) /\ req[s].grant = g /\ req[s].chain = 0
          BY <5>1, <5>5, <5>6 DEF ChainInv, Held, ChainOf
        <5>8. s = r
          BY <5>3, <5>7 DEF ChainInv, OneChain, SameChain
        <5> QED
          BY <5>2, <5>5, <5>8
      <4> QED
        BY <2>3, <4>2, <4>3
    <3> QED
      BY <1>6, <3>1, <3>2, <3>3 DEF Ends
  <2>4. \A s \in Slot : ~(Writing(s)' /\ req'[s].grant = g)
    BY <1>4, <2>1
  <2> QED
    BY <2>3, <2>4 DEF RecordOf
<1> QED
  BY <1>5, <1>6 DEF Gives

LEMMA RecordInvNext ==
    ASSUME Typed, ChainInv, Steadfast, LastingInv, [Next]_vars
    PROVE  RecordInv'
<1> SUFFICES ASSUME NEW g \in Grant, NoFork(g)' PROVE RecordOf(g)'
  BY DEF RecordInv
<1>1. NoFork(g) /\ RecordInv /\ KeptInv
  BY NoForkBefore DEF LastingInv
<1> QED
  BY <1>1, Kinds, RecordTurns, RecordSweep, RecordTick, RecordSaved, RecordElsewhere,
     RecordGives

\* A token that a request holds, or nobody answered, stays somewhere.
LEMMA KeptInvNext ==
    ASSUME Typed, ChainInv, Steadfast, LastingInv, [Next]_vars
    PROVE  KeptInv'
<1> SUFFICES ASSUME NEW j \in 1 .. issued', JwtValid(j)', answers'[j] = 0
             PROVE  Somewhere(j)'
  BY DEF KeptInv
<1>1. KeptInv /\ j # None
  BY TokenSwapAssumption DEF LastingInv
<1>2. ASSUME NEW r \in Slot, Gives(r) PROVE Somewhere(j)'
  <2>1. CASE j = issued'
    BY <1>2, <2>1 DEF Gives, Somewhere
  <2>2. CASE j # issued'
    <3>1. j \in 1 .. issued /\ token'[j] = token[j] /\ now' = now /\ j \in Jti
      <4>1. j \in 1 .. issued /\ token'[j] = token[j] /\ now' = now
        BY <1>2, <2>2 DEF Gives
      <4>2. issued \in 0 .. MaxJwts
        BY DEF Typed, TypeOK
      <4> QED
        BY <4>1, <4>2, Numbers DEF Jti
    <3>2. answers[j] = 0 /\ (Ends(r) => req[r].from # j)
      <4>1. answers[j] \in Nat
        BY <3>1 DEF Typed, TypeOK
      <4> QED
        BY <1>2, <3>1, <4>1 DEF Gives, Goes, Ends
    <3>3. Somewhere(j)
      BY <1>1, <3>1, <3>2 DEF KeptInv, JwtValid
    <3>4. CASE j \in mapped
      BY <1>2, <3>4 DEF Gives, Somewhere
    <3>5. CASE \E s \in Slot : req[s].from = j
      <4>1. PICK s \in Slot : req[s].from = j
        BY <3>5
      <4>2. req'[s].from = j
        BY <1>2, <3>2, <4>1 DEF Gives, Goes
      <4> QED
        BY <4>2 DEF Somewhere
    <3> QED
      BY <3>3, <3>4, <3>5 DEF Somewhere
  <2> QED
    BY <2>1, <2>2
<1>3. ASSUME UNCHANGED <<token, issued, answers>>, now' = now \/ Tick
      PROVE  Somewhere(j)
  <2>1. j \in 1 .. issued /\ token[j].exp \in Nat /\ now \in Nat
    BY <1>3 DEF Typed, TypeOK, TokenInfo
  <2>2. JwtValid(j)
    BY <1>3, <2>1 DEF JwtValid, Tick
  <2> QED
    BY <1>1, <1>3, <2>1, <2>2 DEF KeptInv
<1>4. ASSUME UNCHANGED <<token, issued, answers>>, now' = now \/ Tick,
             j \in mapped => j \in mapped',
             \A s \in Slot : req[s].from = j => req'[s].from = j
      PROVE  Somewhere(j)'
  BY <1>3, <1>4 DEF Somewhere
<1>5. CASE Sweep
  <2>1. token[j].exp \in Nat /\ now \in Nat /\ token[j].exp > now
    BY <1>5 DEF Sweep, JwtValid, Typed, TypeOK, TokenInfo
  <2> QED
    BY <1>4, <1>5, <2>1 DEF Sweep, MappingSwept
<1>6. CASE Tick \/ UNCHANGED vars
  BY <1>4, <1>6 DEF Tick, vars
<1>7. ASSUME NEW r \in Slot, NEW i \in Instance, NEW renewable \in BOOLEAN,
             NEW a \in env.lifetimes, NEW rt \in env.lifetimes,
             CodeExchanged(r, i, renewable, a, rt)
      PROVE  Somewhere(j)'
  <2>1. /\ UNCHANGED <<now, token, issued, mapped, answers>> /\ req[r].from = None
        /\ \A s \in Slot : s # r => req'[s] = req[s]
    BY <1>7, IdleRequest DEF CodeExchanged, Typed, TypeOK
  <2> QED
    BY <1>1, <1>4, <2>1
<1>8. ASSUME NEW r \in Slot, NEW i \in Instance, NEW k \in sent, Refresh(r, i, k)
      PROVE  Somewhere(j)'
  <2>1. /\ UNCHANGED <<now, token, issued, answers>> /\ req[r].from = None
        /\ Claimed(r, i, k) /\ k \in 1 .. issued
    BY <1>8, IdleRequest DEF Refresh, Steadfast, Typed, TypeOK
  <2>2. PICK q \in Request : /\ req' = [req EXCEPT ![r] = q] /\ q.from = k
                             /\ mapped' = mapped \ {k}
    BY <2>1, NewClaim
  <2>3. req'[r].from = k /\ \A s \in Slot : s # r => req'[s] = req[s]
    BY <2>2 DEF Typed, TypeOK
  <2>4. CASE j = k
    BY <2>3, <2>4 DEF Somewhere
  <2>5. CASE j # k
    BY <1>1, <1>4, <2>1, <2>2, <2>3, <2>5
  <2> QED
    BY <2>4, <2>5
<1>9. ASSUME NEW r \in Slot, Restore(r) PROVE Somewhere(j)'
  <2>1. /\ UNCHANGED <<now, token, issued, answers>>
        /\ \A s \in Slot : s # r => req'[s] = req[s]
        /\ mapped' = IF token[req[r].from].exp > now THEN mapped \cup {req[r].from} ELSE mapped
    BY <1>9 DEF Restore, Reply, MappingRestored, Typed, TypeOK
  <2>2. CASE req[r].from = j
    <3>1. token[j].exp > now
      BY <2>1 DEF JwtValid
    <3> QED
      BY <2>1, <2>2, <3>1 DEF Somewhere
  <2>3. CASE req[r].from # j
    BY <1>4, <2>1, <2>3
  <2> QED
    BY <2>2, <2>3
<1>10. ASSUME NEW r \in Slot,
              SaveRecord(r) \/ Load(r) \/ CallUpstream(r) \/ CallFails(r)
       PROVE  Somewhere(j)'
  <2>1. /\ UNCHANGED <<now, token, issued, mapped, answers>>
        /\ req[r].step \notin {"idle", "take", "restore"}
    BY <1>10 DEF SaveRecord, Load, CallUpstream, CallFails, Steadfast
  <2>2. PICK q : /\ req' = [req EXCEPT ![r] = q]
                 /\ q.from = req[r].from \/ req[r].from = None
    BY <1>10, <2>1, MovesOn
  <2>3. req'[r] = q /\ \A s \in Slot : s # r => req'[s] = req[s]
    BY <2>2 DEF Typed, TypeOK
  <2> QED
    BY <1>1, <1>4, <2>1, <2>2, <2>3
<1>11. ~\E i \in Instance : Crash(i)
  BY DEF Crash, Steadfast
<1> QED
  BY <1>2, <1>5, <1>6, <1>7, <1>8, <1>9, <1>10, <1>11, GivesAccess, GivesRefresh,
     ChainFinishTake DEF Next, HandlerStep, Steadfast

LEMMA ForkInvNext ==
    ASSUME Typed, ChainInv, Steadfast, LastingInv, [Next]_vars
    PROVE  ForkInv'
<1>1. ForkInv
  BY DEF LastingInv
<1>2. CASE UNCHANGED <<token, issued, answers>>
  BY <1>1, <1>2 DEF ForkInv
<1>3. ASSUME NEW r \in Slot, Gives(r) PROVE ForkInv'
  <2> SUFFICES ASSUME NEW j \in 1 .. issued', token'[j].kind = "access", answers'[j] # 0
               PROVE  \E k \in 1 .. issued' :
                          token'[k].grant = token'[j].grant /\ token'[k].chain = j
    BY DEF ForkInv
  <2>1. /\ issued \in 0 .. MaxJwts /\ issued' = issued + 1 /\ j \in Jti
        /\ j \in 1 .. issued => token'[j] = token[j]
        /\ j \in 1 .. issued \/ j = issued'
    <3>1. /\ issued \in 0 .. MaxJwts /\ issued' = issued + 1 /\ issued' \in Jti
          /\ j \in 1 .. issued => token'[j] = token[j]
          /\ j \in 1 .. issued \/ j = issued'
      BY <1>3 DEF Gives, Typed, TypeOK
    <3> QED
      BY <3>1, Numbers DEF Jti
  <2>2. CASE answers[j] # 0
    <3>1. j \in 1 .. issued
      BY <2>1, <2>2 DEF ChainInv, Spent
    <3>2. PICK k \in 1 .. issued : token[k].grant = token[j].grant /\ token[k].chain = j
      BY <1>1, <2>1, <2>2, <3>1 DEF ForkInv
    <3>3. k \in 1 .. issued' /\ token'[k] = token[k]
      BY <1>3 DEF Gives
    <3> QED
      BY <2>1, <3>1, <3>2, <3>3
  <2>3. CASE answers[j] = 0
    <3>1. req[r].from = j /\ j # None
      BY <1>3, <2>1, <2>3, TokenSwapAssumption DEF Gives, Goes, Ends, Jti
    <3>2. j \in sent /\ token[j].grant = req[r].grant /\ req[r].chain = ChainOf(j)
      BY <3>1 DEF ChainInv, Held
    <3>3. j \in 1 .. issued /\ token[j].kind = "access"
      BY <2>1, <3>2 DEF Typed, TypeOK
    <3>4. token'[issued'].grant = token'[j].grant /\ token'[issued'].chain = j
      BY <1>3, <2>1, <3>2, <3>3 DEF Gives, SameChain, ChainOf
    <3> QED
      BY <1>3, <3>4 DEF Gives
  <2> QED
    BY <2>2, <2>3
<1> QED
  BY <1>2, <1>3, Kinds, Recorded DEF Turns, Sweep, Tick

\* Generations are only copied.
LEMMA SteadyInvNext ==
    ASSUME Typed, ChainInv, Steadfast, LastingInv, [Next]_vars
    PROVE  SteadyInv'
<1> SUFFICES ASSUME ~env.rotates
             PROVE  /\ \A g \in Grant :
                           current'[g] = 0 /\ (record'[g] # None => record'[g].gen = 0)
                    /\ \A r \in Slot : req'[r].gen = 0
  BY DeploymentFixed DEF SteadyInv
<1>1. /\ \A g \in Grant : current[g] = 0 /\ (record[g] # None => record[g].gen = 0)
      /\ \A r \in Slot : req[r].gen = 0
  BY DEF LastingInv, SteadyInv
<1>2. ASSUME NEW r \in Slot, Gives(r)
      PROVE  UNCHANGED <<current, record>> /\ \A s \in Slot : req'[s].gen = 0
  BY <1>1, <1>2, IdleRequest DEF Gives, Goes, Ends
<1>3. ASSUME NEW r \in Slot, SaveRecord(r) \/ Load(r) \/ CallUpstream(r) \/ CallFails(r)
      PROVE  /\ current' = current /\ \A s \in Slot : req'[s].gen = 0
             /\ \A g \in Grant : record'[g] # None => record'[g].gen = 0
  <2>1. req[r].step \notin {"idle", "take"} /\ req[r].grant \in Grant
    BY <1>3, ChainFinishTake DEF SaveRecord, Load, CallUpstream, CallFails, ChainInv, Held,
       Busy, Typed, Granted, Sound
  <2>2. current' = current
    BY <1>3, <2>1 DEF SaveRecord, Load, CallUpstream, CallFails, Typed, TypeOK
  <2>3. PICK q : /\ req' = [req EXCEPT ![r] = q]
                 /\ q.gen = 0
    BY <1>1, <1>3, <2>1, <2>2, MovesOn, IdleRequest DEF RecordFound
  <2>4. req'[r] = q /\ \A s \in Slot : s # r => req'[s] = req[s]
    BY <2>3 DEF Typed, TypeOK
  <2>5. SaveRecord(r) \/ record' = record
    BY <1>3 DEF Load, CallUpstream, CallFails
  <2>6. \A g \in Grant : record'[g] # None => record'[g].gen = 0
    BY <1>1, <2>5, Recorded
  <2> QED
    BY <1>1, <2>2, <2>3, <2>4, <2>6
<1>4. ASSUME NEW r \in Slot, Restore(r)
      PROVE  UNCHANGED <<current, record>> /\ \A s \in Slot : req'[s].gen = 0
  BY <1>1, <1>4, IdleRequest DEF Restore, Reply, Typed, TypeOK
<1>5. ASSUME NEW r \in Slot, NEW i \in Instance, NEW renewable \in BOOLEAN,
             NEW a \in env.lifetimes, NEW rt \in env.lifetimes,
             CodeExchanged(r, i, renewable, a, rt)
      PROVE  UNCHANGED <<current, record>> /\ \A s \in Slot : req'[s].gen = 0
  <2>1. PICK q : q = [Idle EXCEPT !.step = "saveRecord", !.at = i, !.grant = grants + 1,
                                  !.renewable = renewable, !.aTtl = a,
                                  !.rTtl = IF renewable THEN rt ELSE 0]
    OBVIOUS
  <2>2. q.gen = 0
    BY <2>1 DEF Idle
  <2> QED
    BY <1>1, <1>5, <2>1, <2>2 DEF CodeExchanged, Typed, TypeOK
<1>6. ASSUME NEW r \in Slot, NEW i \in Instance, NEW j \in sent, Refresh(r, i, j)
      PROVE  UNCHANGED <<current, record>> /\ \A s \in Slot : req'[s].gen = 0
  <2>1. UNCHANGED <<current, record>> /\ Claimed(r, i, j) /\ j \in 1 .. issued
    BY <1>6 DEF Refresh, Steadfast, Typed, TypeOK
  <2>2. PICK q : req' = [req EXCEPT ![r] = q] /\ q.gen = 0
    BY <2>1, NewClaim
  <2> QED
    BY <1>1, <2>1, <2>2 DEF Typed, TypeOK
<1>7. CASE Sweep \/ Tick \/ UNCHANGED vars
  BY <1>1, <1>7 DEF Sweep, Tick, vars
<1>8. ~\E i \in Instance : Crash(i)
  BY DEF Crash, Steadfast
<1> QED
  BY <1>1, <1>2, <1>3, <1>4, <1>5, <1>6, <1>7, <1>8, GivesAccess, GivesRefresh,
     ChainFinishTake DEF Next, HandlerStep, Steadfast

LEMMA SteadfastNext == SteadfastInv /\ [Next]_vars => SteadfastInv'
<1> SUFFICES ASSUME SteadfastInv, [Next]_vars PROVE SteadfastInv'
  OBVIOUS
<1>1. SwapInv' /\ env' = env
  BY SwapNext, DeploymentFixed DEF SteadfastInv
<1>2. ASSUME Steadfast PROVE LastingInv'
  <2>1. Typed /\ ChainInv /\ LastingInv
    BY <1>2 DEF SteadfastInv, SwapInv, Steadfast
  <2> QED
    BY <1>2, <2>1, RecordInvNext, KeptInvNext, ForkInvNext, SteadyInvNext DEF LastingInv
<1> QED
  BY <1>1, <1>2 DEF SteadfastInv, Steadfast

LEMMA SteadfastHolds == Spec => []SteadfastInv
BY SteadfastInit, SteadfastNext, PTL DEF Spec

--------------------------------------------------------------------------------
\* The upstream tokens behind what the client works with are there.
LEMMA FoundWhileValid ==
    ASSUME Typed, LastingInv, NEW j \in sent, JwtValid(j), Unforked(token[j].grant),
           LatestAccess(j) \/ Unspent(j)
    PROVE  token[j].grant \in Grant /\ RecordFound(token[j].grant)
<1>1. PICK g : g = token[j].grant
  OBVIOUS
<1>2. /\ j \in 1 .. issued /\ token[j].exp \in Nat /\ now \in Nat /\ token[j].exp > now
      /\ g \in Grant
  BY <1>1 DEF Typed, TypeOK, TokenInfo, JwtValid
<1>3. RecordOf(g)
  BY <1>1, <1>2 DEF Unforked, NoFork, LastingInv, RecordInv
<1>4. record[g] # None => record[g].exp \in Nat
  BY <1>2 DEF Typed, TypeOK, RecordInfo
<1>5. CASE \A r \in Slot : Writing(r) => req[r].grant # g
  BY <1>1, <1>2, <1>3, <1>4, <1>5 DEF RecordOf, Kept, RecordFound
<1>6. ASSUME NEW r \in Slot, Writing(r), req[r].grant = g PROVE RecordFound(g)
  <2>1. Kept(g, now + req[r].aTtl) /\ req[r].aTtl \in Nat
    BY <1>3, <1>6, RequestFields DEF RecordOf, Typed
  <2> QED
    BY <1>2, <1>4, <2>1 DEF Kept, RecordFound
<1> QED
  BY <1>1, <1>2, <1>5, <1>6

\* While no access token of a grant is redeemed as a refresh token, the access
\* token the client was last given resolves to its upstream tokens until it
\* expires, over any number of rotations with any lifetimes.
THEOREM CurrentAccessTokenResolvesHolds == Spec => []CurrentAccessTokenResolves
<1>1. SteadfastInv => CurrentAccessTokenResolves
  <2> SUFFICES ASSUME SteadfastInv, Steadfast, NEW j \in sent, token[j].kind = "access",
                      JwtValid(j), Unforked(token[j].grant), LatestAccess(j)
               PROVE  Resolves(j)
    BY DEF CurrentAccessTokenResolves, LatestAccess
  <2>1. Typed /\ ChainInv /\ LastingInv /\ j \in 1 .. issued /\ j # 0 /\ j # None
    BY TokenSwapAssumption DEF SteadfastInv, SwapInv, Steadfast, Typed, TypeOK
  <2>2. answers[j] = 0
    BY <2>1 DEF LastingInv, ForkInv, Unforked
  <2>3. \A r \in Slot : req[r].from # j
    BY <2>1 DEF ChainInv, Held, ChainOf, Unforked
  <2>4. j \in mapped
    BY <2>1, <2>2, <2>3 DEF LastingInv, KeptInv, Somewhere
  <2> QED
    BY <2>1, <2>4, FoundWhileValid DEF Resolves
<1> QED
  BY <1>1, SteadfastHolds, PTL

\* ... and an upstream failure does not log the user out: an unspent refresh
\* token is in a request's hands, or stored with upstream tokens the provider
\* accepts.
THEOREM StaysLoggedInHolds == Spec => []StaysLoggedIn
<1>1. SteadfastInv => StaysLoggedIn
  <2> SUFFICES ASSUME SteadfastInv, Steadfast, ~env.rotates, NEW j \in sent,
                      token[j].kind = "refresh", JwtValid(j), answers[j] = 0,
                      Unforked(token[j].grant), \A r \in Slot : req[r].from # j
               PROVE  /\ j \in mapped
                      /\ RecordFound(token[j].grant)
                      /\ record[token[j].grant].gen = current[token[j].grant]
    BY DEF StaysLoggedIn
  <2>1. Typed /\ LastingInv /\ j \in 1 .. issued
    BY DEF SteadfastInv, SwapInv, Typed, TypeOK
  <2>2. j \in mapped
    BY <2>1 DEF LastingInv, KeptInv, Somewhere
  <2>3. RecordFound(token[j].grant) /\ token[j].grant \in Grant
    BY <2>1, FoundWhileValid DEF Unspent
  <2> QED
    BY <2>1, <2>2, <2>3 DEF LastingInv, SteadyInv, RecordFound
<1> QED
  BY <1>1, SteadfastHolds, PTL
================================================================================
