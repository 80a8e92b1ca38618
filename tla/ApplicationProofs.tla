---------------------------- MODULE ApplicationProofs ----------------------------
(***************************************************************************)
(* Safety of the server, alone and with an authentication provider, for    *)
(* every number of requests, starts, connected servers and proxies, and    *)
(* for every order of the calls.                                           *)
(***************************************************************************)
EXTENDS Application, TLAPS

--------------------------------------------------------------------------------
(* One request *)

LEMMA Bounds ==
    /\ MaxStarts \in Nat /\ MaxConnected \in Nat
    /\ \A d \in Deadlines : d \in BOOLEAN
    /\ MaxProxies \in Nat
BY ServerAssumption, ApplicationAssumption

LEMMA RequestFields ==
    ASSUME TypeOK, NEW r \in Slot
    PROVE  /\ req[r] \in Request
           /\ req[r].via \in 0 .. MaxStarts
           /\ req[r].gone \in BOOLEAN /\ req[r].deadline \in BOOLEAN
BY DEF TypeOK, Request

LEMMA IdleRequest ==
    Idle \in Request /\ Idle.step = "idle" /\ Idle.answer = "none"
                     /\ Idle.signal = "quiet" /\ Idle.gone = FALSE
                     /\ Idle.missed = FALSE
<1>1. 0 \in 0 .. MaxStarts
  BY Bounds
<1> QED
  BY <1>1 DEF Idle, Request

\* The signal of a running tool is that of its request; what it was told last
\* is final.
Sane(q) ==
    /\ q.step \in {"idle", "authenticating", "building", "listening"} =>
           q.answer = "none" /\ q.signal = "quiet"
    /\ q.step = "running" =>
           q.answer = "none" /\ q.signal = IF q.gone THEN "aborted" ELSE "quiet"
    /\ q.answer = "result" => q.signal = "quiet"
    /\ q.answer = "timeout" => q.signal = "aborted"
    /\ q.missed => q.step = "listening"
    /\ q.step = "listening" => ~q.gone

\* A start() in progress has a number, and listens on the HTTP server it made.
InStart ==
    /\ control = "readCerts" => started # 0
    /\ control = "listen" => server # 0

SignalInv == TypeOK /\ InStart /\ \A r \in Slot : Sane(req[r])

LEMMA AbortedRequest ==
    ASSUME NEW q \in Request, Sane(q), q.step # "listening"
    PROVE  /\ RequestAborted(q) \in Request /\ Sane(RequestAborted(q))
           /\ RequestAborted(q).step = q.step /\ RequestAborted(q).via = q.via
           /\ RequestAborted(q).missed = q.missed /\ RequestAborted(q).gone
<1> DEFINE p == RequestAborted(q)
           signal == IF q.step = "running" THEN "aborted" ELSE q.signal
<1>1. PICK x : x = p
  OBVIOUS
<1>2. x = [q EXCEPT !.gone = TRUE, !.signal = signal]
  BY <1>1 DEF RequestAborted, Attached
<1>3. signal \in {"quiet", "aborted"}
  BY DEF Request
<1> HIDE DEF signal
<1>4. /\ x \in Request /\ x.step = q.step /\ x.via = q.via /\ x.missed = q.missed
      /\ x.gone = TRUE /\ x.signal = signal /\ x.answer = q.answer
  BY <1>2, <1>3 DEF Request
<1>5. Sane(x)
  BY <1>4 DEF Sane, signal
<1> QED
  BY <1>1, <1>4, <1>5

--------------------------------------------------------------------------------
(* What a step does to the request of slot r *)

\* The requests that a step of the framework, the tool or the client leaves.
Follows(r, q) ==
    /\ q \in Request /\ Sane(q)
    /\ q.step = "listening" => ~q.missed \/ (req[r].missed /\ req[r].step = "listening")
    /\ \/ q.step = "idle"
       \/ req[r].step = "idle" /\ q.via \in accepting
       \/ req[r].step # "idle" /\ q.via = req[r].via /\ (req[r].gone => q.gone)

LEMMA RequestStep ==
    ASSUME SignalInv, NEW r \in Slot, Arrive(r) \/ Framework(r) \/ Settle(r) \/ Disconnect(r)
    PROVE  /\ UNCHANGED lifecycle /\ sealed' \in BOOLEAN
           /\ \E q : Becomes(r, q) /\ Follows(r, q)
           /\ accepting = {} => req[r].step # "idle"
<1> DEFINE Goal == \E q : Becomes(r, q) /\ Follows(r, q)
<1>1. req[r] \in Request /\ Sane(req[r]) /\ req[r].via \in 0 .. MaxStarts
      /\ accepting \subseteq 0 .. MaxStarts
      /\ req[r].gone \in BOOLEAN /\ req[r].deadline \in BOOLEAN /\ req[r].missed \in BOOLEAN
  BY RequestFields, Bounds DEF SignalInv, TypeOK, Request, Handler
<1>2. UNCHANGED lifecycle /\ (accepting = {} => req[r].step # "idle")
  BY DEF Arrive, Framework, Refused, Authenticated, Call, Listen, Answer, Timeout,
         TearDown, EndExchange, StreamEnds, Settle, Disconnect
<1>3. sealed' \in BOOLEAN
  <2>1. CASE Arrive(r)
    BY <2>1, Zenon DEF Arrive
  <2>2. CASE ~Arrive(r)
    BY <2>2 DEF Framework, Refused, Authenticated, Call, Listen, Answer, Timeout,
       TearDown, EndExchange, StreamEnds, Settle, Disconnect, SignalInv, TypeOK
  <2> QED
    BY <2>1, <2>2
<1> SUFFICES Goal
  BY <1>2, <1>3
<1>4. ASSUME Becomes(r, Idle), req[r].step # "idle" PROVE Goal
  BY <1>4, IdleRequest DEF Follows, Sane
<1>13. ASSUME Becomes(r, RequestAborted(req[r])), req[r].step \notin {"idle", "listening"}
      PROVE  Goal
  BY <1>1, <1>13, AbortedRequest DEF Follows
<1>5. CASE Arrive(r)
  <2>1. PICK n \in accepting :
            Becomes(r, [Idle EXCEPT !.step = "authenticating", !.via = n])
    BY <1>5 DEF Arrive
  <2>2. PICK q : q = [Idle EXCEPT !.step = "authenticating", !.via = n]
    OBVIOUS
  <2>3. /\ q \in Request /\ q.step = "authenticating" /\ q.answer = "none"
        /\ q.signal = "quiet" /\ q.via = n /\ ~q.missed
    BY <1>1, <2>2 DEF Idle, Request
  <2> QED
    BY <1>5, <2>1, <2>2, <2>3 DEF Arrive, Follows, Sane
<1>6. CASE Authenticated(r)
  <2>1. PICK q : q = [req[r] EXCEPT !.step = "building"]
    OBVIOUS
  <2>2. /\ q \in Request /\ q.step = "building" /\ q.answer = req[r].answer
        /\ q.signal = req[r].signal /\ q.via = req[r].via /\ q.gone = req[r].gone
        /\ q.missed = req[r].missed
    BY <1>1, <2>1 DEF Request
  <2>3. ASSUME Becomes(r, q) PROVE Goal
    BY <1>1, <1>6, <2>2, <2>3 DEF Authenticated, Follows, Sane
  <2> QED
    BY <1>4, <1>6, <2>1, <2>3 DEF Authenticated
<1>7. ASSUME NEW deadline \in Deadlines, Call(r, deadline) PROVE Goal
  <2> DEFINE signal == InitialSignal(req[r])
  <2>1. signal \in {"quiet", "aborted"}
        /\ signal = IF req[r].gone THEN "aborted" ELSE "quiet"
    BY DEF InitialSignal
  <2>2. PICK q : q = [req[r] EXCEPT !.step = "running", !.deadline = deadline,
                                    !.signal = signal]
    OBVIOUS
  <2>3. Becomes(r, q) /\ req[r].step = "building"
    BY <1>7, <2>2 DEF Call
  <2> HIDE DEF signal
  <2>4. /\ q \in Request /\ q.step = "running" /\ q.answer = req[r].answer
        /\ q.signal = signal /\ q.gone = req[r].gone /\ q.via = req[r].via
        /\ q.missed = req[r].missed
    BY <1>1, <2>1, <2>2, Bounds DEF Request
  <2>5. Sane(q)
    BY <1>1, <2>1, <2>3, <2>4 DEF Sane
  <2> QED
    BY <2>3, <2>4, <2>5 DEF Follows
<1>8. CASE Listen(r)
  <2>1. PICK q : q = [req[r] EXCEPT !.step = "listening"]
    OBVIOUS
  <2>2. /\ q \in Request /\ q.step = "listening" /\ q.answer = req[r].answer
        /\ q.signal = req[r].signal /\ q.via = req[r].via /\ q.gone = req[r].gone
        /\ q.missed = req[r].missed
    BY <1>1, <2>1 DEF Request
  <2>3. ASSUME Becomes(r, q), ~req[r].gone PROVE Goal
    BY <1>1, <1>8, <2>2, <2>3 DEF Listen, Follows, Sane
  <2> QED
    BY <1>4, <1>8, <2>1, <2>3 DEF Listen
<1>9. CASE Settle(r)
  <2>1. PICK answer \in {"result", "error"} :
            Becomes(r, [req[r] EXCEPT !.step = "answered",
                                      !.answer = IF req[r].gone THEN "none" ELSE answer])
    BY <1>9 DEF Settle
  <2> DEFINE given == IF req[r].gone THEN "none" ELSE answer
  <2>2. PICK q : q = [req[r] EXCEPT !.step = "answered", !.answer = given]
    OBVIOUS
  <2>3. Becomes(r, q)
    BY <2>1, <2>2
  <2>4. given \in {"none", "result", "error"} /\ (given = "result" => ~req[r].gone)
    OBVIOUS
  <2> HIDE DEF given
  <2>5. /\ q \in Request /\ q.step = "answered" /\ q.answer = given
        /\ q.signal = req[r].signal /\ q.via = req[r].via /\ q.gone = req[r].gone
        /\ q.missed = req[r].missed
    BY <1>1, <2>2, <2>4 DEF Request
  <2>6. Sane(q)
    BY <1>1, <1>9, <2>4, <2>5 DEF Settle, Sane
  <2> QED
    BY <1>9, <2>3, <2>5, <2>6 DEF Settle, Follows
<1>10. CASE Timeout(r)
  <2>1. PICK q : q = TimedOut(req[r])
    OBVIOUS
  <2>2. /\ q \in Request /\ q.step = "answered" /\ q.answer = "timeout"
        /\ q.signal = "aborted" /\ q.via = req[r].via /\ q.gone = req[r].gone
        /\ q.missed = req[r].missed
    BY <1>1, <2>1 DEF TimedOut, Request
  <2> QED
    BY <1>1, <1>10, <2>1, <2>2 DEF Timeout, Follows, Sane
<1>11. CASE Refused(r) \/ Answer(r) \/ EndExchange(r) \/ StreamEnds(r)
  BY <1>4, <1>11 DEF Refused, Answer, EndExchange, StreamEnds
<1>12. CASE TearDown(r) \/ Disconnect(r)
  BY <1>4, <1>12, <1>13 DEF TearDown, Disconnect
<1> QED
  BY <1>5, <1>6, <1>7, <1>8, <1>9, <1>10, <1>11, <1>12 DEF Framework

--------------------------------------------------------------------------------
(* Signals *)

LifecycleStep ==
    \/ \E tls \in BOOLEAN : Start(tls)
    \/ StartRefused \/ StartStdio \/ Connect \/ Stop
    \/ CertsRead \/ StartFails \/ Listening
    \/ CloseTransports \/ StdioCloseFails \/ CloseHandler \/ HttpClosed

LEMMA NextSteps ==
    ASSUME [Next]_vars
    PROVE  \/ LifecycleStep
           \/ \E r \in Slot : Arrive(r) \/ Framework(r) \/ Settle(r) \/ Disconnect(r)
           \/ Change
           \/ UNCHANGED vars
BY DEF Next, Resume, LifecycleStep

LEMMA SignalInit == Init => SignalInv
<1> SUFFICES ASSUME Init PROVE SignalInv
  OBVIOUS
<1>1. req = [r \in Slot |-> Idle] /\ \A r \in Slot : req[r] = Idle
  BY DEF Init
<1>2. req \in [Slot -> Request] /\ \A r \in Slot : Sane(req[r])
  BY <1>1, IdleRequest DEF Sane
<1>3. stdio \in BOOLEAN /\ sealed \in BOOLEAN /\ overlap \in BOOLEAN
  BY Zenon DEF Init
<1>4. TypeOK
  BY <1>2, <1>3, Bounds DEF Init, TypeOK, State, Control
<1> QED
  BY <1>2, <1>4 DEF SignalInv, InStart, Init

\* The lifecycle touches requests in one place: where the handler is closed.
LEMMA LifecycleRequests ==
    ASSUME SignalInv, LifecycleStep
    PROVE  /\ req' \in [Slot -> Request]
           /\ \A r \in Slot :
                  /\ Sane(req'[r]) /\ req'[r].step = req[r].step
                  /\ req'[r].via = req[r].via /\ req'[r].missed = req[r].missed
                  /\ req[r].gone => req'[r].gone
<1>1. CASE CloseHandler
  <2>1. PICK torn \in SUBSET {r \in Slot : req[r].step = "running" /\ On(req[r]) = handler} :
            req' = [r \in Slot |-> IF r \in torn THEN RequestAborted(req[r]) ELSE req[r]]
    BY <1>1 DEF CloseHandler
  <2>2. \A r \in Slot : req[r] \in Request /\ Sane(req[r])
    BY RequestFields DEF SignalInv
  <2>3. \A r \in Slot : \/ req'[r] = RequestAborted(req[r]) /\ req[r].step # "listening"
                        \/ req'[r] = req[r]
    BY <2>1
  <2>4. \A r \in Slot : /\ req'[r] \in Request
                        /\ Sane(req'[r]) /\ req'[r].step = req[r].step
                        /\ req'[r].via = req[r].via /\ req'[r].missed = req[r].missed
                        /\ req[r].gone => req'[r].gone
    BY <2>2, <2>3, AbortedRequest
  <2>5. req' \in [Slot -> Request]
    BY <2>1, <2>4
  <2> QED
    BY <2>4, <2>5
<1>2. CASE ~CloseHandler
  <2>1. UNCHANGED req
    BY <1>2 DEF LifecycleStep, Start, NewHandler, StartRefused, StartStdio, Connect, Stop,
         CertsRead, StartFails, Listening, CloseTransports, StdioCloseFails, HttpClosed
  <2> QED
    BY <2>1 DEF SignalInv, TypeOK
<1> QED
  BY <1>1, <1>2

LEMMA LifecycleTypes ==
    ASSUME SignalInv, LifecycleStep
    PROVE  TypeOK' /\ InStart'
<1>1. req' \in [Slot -> Request]
  BY LifecycleRequests
<1>2. stdio' \in BOOLEAN /\ sealed' \in BOOLEAN /\ overlap' \in BOOLEAN
  BY Zenon DEF LifecycleStep, Start, NewHandler, StartRefused, StartStdio, Connect, Stop,
     CertsRead, StartFails, Listening, CloseTransports, StdioCloseFails, CloseHandler,
     HttpClosed, transports, SignalInv, TypeOK
<1>3. CASE \E tls \in BOOLEAN : Start(tls)
  <2>1. PICK tls \in BOOLEAN : Start(tls)
    BY <1>3
  <2>2. started + 1 \in Handler /\ FirstRoute(started + 1) \in 0 .. MaxStarts
    BY <2>1, Bounds DEF Start, NewHandler, SignalInv, TypeOK, Handler, FirstRoute
  <2>3. /\ started' = started + 1 /\ handler' = started + 1
        /\ open' = open \cup {started + 1} /\ routed' = FirstRoute(started + 1)
        /\ state' = "Starting" /\ connected' = connected /\ accepting' = accepting
    BY <2>1 DEF Start, NewHandler, NewServer, transports, sockets
  <2>4. \/ /\ control' = "readCerts" /\ server' = server /\ app' = app
        \/ /\ control' = "listen" /\ server' = started + 1
           /\ app' = [app EXCEPT ![started + 1] = FirstRoute(started + 1)]
    BY <2>1 DEF Start, NewServer, sockets
  <2>5. started + 1 \in 0 .. MaxStarts /\ started + 1 # 0
    BY <2>2, Bounds DEF Handler
  <2>6. app' \in [Handler -> 0 .. MaxStarts] /\ server' \in 0 .. MaxStarts
    BY <2>2, <2>4, <2>5 DEF SignalInv, TypeOK
  <2>7. InStart'
    BY <2>3, <2>4, <2>5 DEF InStart
  <2> QED
    BY <1>1, <1>2, <2>2, <2>3, <2>4, <2>5, <2>6, <2>7
       DEF SignalInv, TypeOK, State, Control
<1>4. CASE StartRefused
  BY <1>1, <1>2, <1>4, Bounds
     DEF StartRefused, NewHandler, SignalInv, TypeOK, State, Handler, transports, sockets,
         InStart
<1>5. CASE Connect \/ StartStdio
  BY <1>1, <1>2, <1>5, Bounds DEF Connect, StartStdio, sockets, SignalInv, TypeOK, State,
     InStart
<1>6. CASE Stop \/ CloseTransports \/ StdioCloseFails
  BY <1>1, <1>2, <1>6, Bounds
     DEF Stop, CloseTransports, StdioCloseFails, SignalInv, TypeOK, Control, transports,
         sockets, FreshApp, ConnectedAfterStop, InStart
<1>7. CASE CertsRead \/ StartFails \/ Listening
  <2>1. UNCHANGED <<started, handler, open, routed, connected>>
    BY <1>7 DEF CertsRead, StartFails, Listening, transports
  <2>2. CASE CertsRead
    BY <1>1, <1>2, <2>1, <2>2 DEF CertsRead, NewServer, SignalInv, TypeOK, Control, InStart
  <2>3. CASE StartFails
    BY <1>1, <1>2, <2>1, <2>3
       DEF StartFails, sockets, SignalInv, TypeOK, State, Control, InStart
  <2>4. CASE Listening
    <3>1. server \in Handler
      BY <2>4 DEF Listening, SignalInv, TypeOK, InStart, Handler
    <3> QED
      BY <1>1, <1>2, <2>1, <2>4, <3>1
         DEF Listening, SignalInv, TypeOK, State, Control, InStart
  <2> QED
    BY <1>7, <2>2, <2>3, <2>4
<1>8. CASE CloseHandler \/ HttpClosed
  BY <1>1, <1>2, <1>8, Bounds
     DEF CloseHandler, HttpClosed, SignalInv, TypeOK, State, Control, transports,
         OpenAfterStop, InStart
<1> QED
  BY <1>3, <1>4, <1>5, <1>6, <1>7, <1>8 DEF LifecycleStep

\* A change tells the streams of the current handler; nothing else moves.
LEMMA ChangedRequests ==
    ASSUME SignalInv, Change
    PROVE  /\ req' \in [Slot -> Request]
           /\ \A r \in Slot :
                  /\ Sane(req'[r]) /\ req'[r].step = req[r].step
                  /\ req'[r].via = req[r].via /\ req'[r].gone = req[r].gone
                  /\ On(req[r]) = handler => req'[r].missed = req[r].missed
           /\ UNCHANGED <<lifecycle, sealed>>
<1>1. UNCHANGED <<lifecycle, sealed>>
  BY DEF Change
<1>2. \A r \in Slot :
          /\ req'[r] \in Request /\ Sane(req'[r]) /\ req'[r].step = req[r].step
          /\ req'[r].via = req[r].via /\ req'[r].gone = req[r].gone
          /\ On(req[r]) = handler => req'[r].missed = req[r].missed
  <2> TAKE r \in Slot
  <2>1. req[r] \in Request /\ Sane(req[r])
    BY RequestFields DEF SignalInv
  <2>2. req'[r] = IF req[r].step = "listening" /\ ~Notified(req[r])
                  THEN [req[r] EXCEPT !.missed = TRUE] ELSE req[r]
    BY DEF Change
  <2>3. CASE req[r].step = "listening" /\ ~Notified(req[r])
    <3>1. PICK q : q = [req[r] EXCEPT !.missed = TRUE]
      OBVIOUS
    <3>2. /\ q \in Request /\ q.step = req[r].step /\ q.via = req[r].via
          /\ q.gone = req[r].gone /\ q.answer = req[r].answer /\ q.signal = req[r].signal
      BY <2>1, <3>1 DEF Request
    <3> QED
      BY <2>1, <2>2, <2>3, <3>1, <3>2 DEF Sane, Notified
  <2>4. CASE ~(req[r].step = "listening" /\ ~Notified(req[r]))
    BY <2>1, <2>2, <2>4
  <2> QED
    BY <2>3, <2>4
<1>3. req' \in [Slot -> Request]
  BY <1>2 DEF Change
<1> QED
  BY <1>1, <1>2, <1>3

LEMMA SignalNext == SignalInv /\ [Next]_vars => SignalInv'
<1> SUFFICES ASSUME SignalInv, [Next]_vars PROVE SignalInv'
  OBVIOUS
<1>1. CASE LifecycleStep
  BY <1>1, LifecycleRequests, LifecycleTypes DEF SignalInv
<1>2. CASE \E r \in Slot : Arrive(r) \/ Framework(r) \/ Settle(r) \/ Disconnect(r)
  <2>1. PICK r \in Slot : Arrive(r) \/ Framework(r) \/ Settle(r) \/ Disconnect(r)
    BY <1>2
  <2>2. PICK q : Becomes(r, q) /\ Follows(r, q)
    BY <2>1, RequestStep
  <2>3. UNCHANGED lifecycle /\ sealed' \in BOOLEAN
    BY <2>1, RequestStep
  <2>4. /\ req' = [req EXCEPT ![r] = q] /\ q \in Request /\ Sane(q)
        /\ req \in [Slot -> Request]
    BY <2>2 DEF Becomes, Follows, SignalInv, TypeOK
  <2>5. TypeOK' /\ InStart'
    BY <2>3, <2>4 DEF SignalInv, TypeOK, InStart, lifecycle, transports, sockets
  <2>6. \A s \in Slot : Sane(req'[s])
    BY <2>4 DEF SignalInv
  <2> QED
    BY <2>5, <2>6 DEF SignalInv
<1>3. CASE Change
  BY <1>3, ChangedRequests DEF SignalInv, TypeOK, InStart, lifecycle, transports, sockets
<1>4. CASE UNCHANGED vars
  BY <1>4 DEF vars, lifecycle, transports, sockets, SignalInv, TypeOK, InStart
<1> QED
  BY <1>1, <1>2, <1>3, <1>4, NextSteps

\* A tool whose caller got the result is never told to roll back.
THEOREM NoRollbackOfSuccessHolds == Spec => []NoRollbackOfSuccess
<1>1. SignalInv => NoRollbackOfSuccess
  BY DEF SignalInv, Sane, NoRollbackOfSuccess
<1> QED
  BY <1>1, SignalInit, SignalNext, PTL DEF Spec

\* A tool whose caller has gone, or was told of a timeout, is told to stop.
THEOREM AbandonedToolIsToldHolds == Spec => []AbandonedToolIsTold
<1>1. SignalInv => AbandonedToolIsTold
  BY DEF SignalInv, Sane, AbandonedToolIsTold
<1> QED
  BY <1>1, SignalInit, SignalNext, PTL DEF Spec

--------------------------------------------------------------------------------
(* The life of the server *)

\* What holds whatever is called: handlers and HTTP servers are numbered by the
\* start() that made them, routes lead to earlier handlers, and those of a
\* listening socket to an open one.
Numbered ==
    /\ handler \in {0, started}
    /\ \A n \in open \cup accepting : n <= started
    /\ \A n \in Handler : app[n] <= n /\ (app[n] # 0 => n <= started)
    /\ started \in accepting => server = started

Routes ==
    /\ routed # 0 => routed \in open /\ routed <= started
    /\ \A n \in accepting : app[n] \in open

\* What each phase of start() and stop() has behind it.
Phases ==
    /\ handler # 0 => handler \in open
    /\ control \in {"none", "readCerts", "closeTransports", "closeHandler"} =>
           server \in accepting \/ server = 0
    /\ control \in {"none", "closeTransports"} =>
           /\ handler = 0 => server = 0 /\ routed = 0
           /\ state = "Stopped" => handler = 0 /\ ~stdio /\ connected = 0
    /\ control = "readCerts" => handler # 0 /\ routed # 0
    /\ control = "listen" => handler # 0 /\ server = handler /\ app[server] = routed /\ routed # 0
    /\ control \in {"closeTransports", "closeHandler"} => routed = 0
    /\ control = "closeHttp" => handler = 0 /\ routed = 0 /\ server # 0 /\ server \notin accepting
    /\ control \in {"closeHandler", "closeHttp"} => ~stdio /\ connected = 0

\* While no start() was called over another, there is one handler at most, one
\* HTTP server and its requests.
Single ==
    ~overlap =>
        /\ open = IF handler = 0 THEN {} ELSE {handler}
        /\ accepting \subseteq {server}
        /\ server # 0 /\ handler # 0 => server = handler /\ app[server] = handler
        /\ routed \in {0, handler}
        /\ control = "readCerts" => server = 0
        /\ control = "listen" => accepting = {}
        /\ \A r \in Slot : \/ req[r].step = "idle" \/ req[r].gone
                           \/ server # 0 /\ req[r].via = server /\ control # "listen"

LifeInv == SignalInv /\ Numbered /\ Routes /\ Phases /\ Single /\ ChangesReachListeners

LEMMA LifeInit == Init => LifeInv
<1> SUFFICES ASSUME Init PROVE LifeInv
  OBVIOUS
<1>1. SignalInv /\ \A r \in Slot : req[r].step = "idle"
  BY SignalInit, IdleRequest DEF Init
<1>2. /\ started = 0 /\ handler = 0 /\ open = {} /\ routed = 0 /\ server = 0
      /\ accepting = {} /\ \A n \in Handler : app[n] = 0 /\ app[n] <= n
      /\ control = "none" /\ ~stdio /\ connected = 0
  BY Bounds DEF Init, Handler
<1> QED
  BY <1>1, <1>2 DEF LifeInv, Numbered, Routes, Phases, Single, ChangesReachListeners

\* Without a client that waits there is no stream.
LEMMA NoStream ==
    ASSUME SignalInv, \A r \in Slot : req[r].step = "idle" \/ req[r].gone
    PROVE  \A r \in Slot : req[r].step # "listening"
BY DEF SignalInv, Sane

\* HTTP servers are numbered from 1.
LEMMA NoSocket ==
    ASSUME TypeOK
    PROVE  /\ accepting \subseteq {server} /\ server = 0 => accepting = {}
           /\ \A n \in accepting : n \in Handler /\ n # 0
BY DEF TypeOK, Handler

\* The calls of start() over HTTP, up to their first await.
LEMMA LifeStart ==
    ASSUME LifeInv, SignalInv', StartRefused \/ \E tls \in BOOLEAN : Start(tls)
    PROVE  LifeInv'
<1> DEFINE n == started + 1
<1>1. /\ control = "none" /\ started' = n /\ handler' = n /\ open' = open \cup {n}
      /\ UNCHANGED <<stdio, connected, req>>
      /\ n \in Handler /\ started \in Nat
      /\ accepting' = accepting
  BY Bounds DEF StartRefused, Start, NewHandler, NewServer, transports, sockets, LifeInv,
     SignalInv, TypeOK, Handler
<1>2. /\ \A m \in open \cup accepting : m <= started
      /\ \A m \in Handler : app[m] <= m /\ (app[m] # 0 => app[m] \in Nat /\ m <= started)
      /\ started \in accepting => server = started
      /\ accepting \subseteq Nat /\ open \subseteq Nat /\ routed \in Nat
      /\ routed # 0 => routed \in open /\ routed <= started
      /\ \A m \in accepting : m \in Handler /\ app[m] \in open
      /\ app \in [Handler -> 0 .. MaxStarts] /\ Handler \subseteq Nat
      /\ \A m \in Handler : app[m] \in Nat
  BY Bounds DEF LifeInv, SignalInv, TypeOK, Numbered, Routes, Handler
<1>13. ~overlap' => ~overlap /\ handler = 0
  BY Zenon DEF StartRefused, Start, NewHandler
<1>3. n \notin accepting /\ n \notin open
  BY <1>1, <1>2
<1>4. \/ /\ routed' = routed /\ app' = app /\ server' = server
         /\ control' = "none" /\ state' = "Error"
      \/ /\ routed' = FirstRoute(n) /\ app' = app /\ server' = server
         /\ control' = "readCerts" /\ state' = "Starting"
      \/ /\ routed' = FirstRoute(n) /\ app' = [app EXCEPT ![n] = FirstRoute(n)]
         /\ server' = n /\ control' = "listen" /\ state' = "Starting"
  BY <1>1 DEF StartRefused, Start, NewHandler, NewServer, sockets
<1>5. FirstRoute(n) = (IF routed = 0 THEN n ELSE routed)
  BY DEF FirstRoute
<1>6. FirstRoute(n) \in open' /\ FirstRoute(n) <= n /\ FirstRoute(n) # 0
  BY <1>1, <1>2, <1>5
<1>7. Numbered'
  <2>1. /\ handler' = started'
        /\ started \notin accepting \/ server = started
        /\ \A m \in open' \cup accepting' : m <= started'
    BY <1>1, <1>2
  <2>2. \A m \in Handler : app'[m] <= m /\ (app'[m] # 0 => m <= started')
    BY <1>1, <1>2, <1>4, <1>6
  <2>3. started' \notin accepting'
    BY <1>1, <1>3
  <2> QED
    BY <1>1, <2>1, <2>2, <2>3 DEF Numbered
<1>8. Routes'
  <2>1. \A m \in accepting : app'[m] = app[m]
    BY <1>2, <1>3, <1>4
  <2> QED
    BY <1>1, <1>2, <1>4, <1>6, <2>1 DEF Routes
<1>9. Phases'
  <2>1. control = "none" /\ handler' # 0 /\ (server \notin accepting => server = 0)
    BY <1>1 DEF LifeInv, Phases
  <2> QED
    BY <1>1, <1>2, <1>4, <1>6, <2>1 DEF Phases
<1>10. ASSUME ~overlap'
       PROVE  /\ open = {} /\ accepting = {} /\ routed = 0 /\ server = 0
              /\ \A r \in Slot : req[r].step = "idle" \/ req[r].gone
  BY <1>1, <1>10, <1>13, NoSocket DEF LifeInv, Single, Phases, SignalInv
<1>11. Single'
  <2> SUFFICES ASSUME ~overlap' PROVE Single'
    BY DEF Single
  <2>1. req' = req /\ n # 0 /\ open' = open \cup {n} /\ accepting' = accepting
    BY <1>1
  <2>2. \A r \in Slot : req'[r].step = "idle" \/ req'[r].gone
    BY <1>10, <2>1
  <2>3. /\ open' = {n} /\ accepting' = {} /\ FirstRoute(n) = n /\ n # 0
    BY <1>5, <1>10, <2>1
  <2>4. \/ server' = 0 /\ routed' \in {0, n} /\ control' # "listen"
        \/ server' = n /\ app'[n] = n /\ routed' = n /\ control' = "listen"
    BY <1>1, <1>2, <1>4, <1>10, <2>3
  <2> QED
    BY <1>1, <2>3, <2>4, <2>2 DEF Single
<1>12. ChangesReachListeners'
  BY <1>1, <1>10, NoStream DEF LifeInv, ChangesReachListeners
<1> QED
  BY <1>7, <1>8, <1>9, <1>11, <1>12 DEF LifeInv

\* The rest of start().
LEMMA LifeStarted ==
    ASSUME LifeInv, SignalInv', CertsRead \/ StartFails \/ Listening
    PROVE  LifeInv'
<1>1. /\ UNCHANGED <<started, handler, open, routed, stdio, connected, overlap, req>>
      /\ started \in Nat /\ handler \in {0, started} /\ started \in 0 .. MaxStarts
      /\ app \in [Handler -> 0 .. MaxStarts] /\ Handler = 1 .. MaxStarts
      /\ accepting \subseteq Handler
  BY Bounds DEF CertsRead, StartFails, Listening, transports, LifeInv, SignalInv, TypeOK,
     Numbered, Handler
<1>2. CASE CertsRead
  <2>1. /\ control = "readCerts" /\ control' = "listen" /\ server' = started
        /\ app' = [app EXCEPT ![started] = routed] /\ accepting' = accepting
    BY <1>2 DEF CertsRead, NewServer
  <2>2. /\ handler = started /\ started \in Handler /\ routed # 0 /\ routed \in open
        /\ routed <= started
    BY <1>1, <2>1, Bounds DEF LifeInv, Phases, Routes, Numbered
  <2>3. \A m \in Handler : app'[m] = IF m = started THEN routed ELSE app[m]
    BY <1>1, <2>1
  <2>4. Numbered' /\ Routes' /\ Phases'
    BY <1>1, <2>1, <2>2, <2>3 DEF LifeInv, Numbered, Routes, Phases
  <2>5. ASSUME ~overlap
        PROVE  /\ server = 0 /\ accepting = {} /\ routed = handler
               /\ \A r \in Slot : req[r].step = "idle" \/ req[r].gone
    BY <2>1, <2>2, <2>5, NoSocket DEF LifeInv, Single, SignalInv
  <2>6. Single'
    BY <1>1, <2>1, <2>2, <2>3, <2>5 DEF LifeInv, Single
  <2>7. ChangesReachListeners'
    BY <1>1, <2>5, NoStream DEF LifeInv, ChangesReachListeners
  <2> QED
    BY <2>4, <2>6, <2>7 DEF LifeInv
<1>3. CASE StartFails
  <2>1. /\ control = "readCerts" /\ control' = "none" /\ state' = "Error"
        /\ UNCHANGED <<server, accepting, app>>
    BY <1>3 DEF StartFails, sockets
  <2>2. server \in accepting \/ server = 0
    BY <2>1 DEF LifeInv, Phases
  <2> QED
    BY <1>1, <2>1, <2>2
       DEF LifeInv, Numbered, Routes, Phases, Single, ChangesReachListeners, On
<1>4. CASE Listening
  <2>1. /\ control = "listen" /\ control' = "none" /\ state' = "Running"
        /\ accepting' = accepting \cup {server} /\ UNCHANGED <<server, app>>
    BY <1>4 DEF Listening
  <2>2. /\ server = handler /\ handler # 0 /\ handler = started /\ app[server] = routed
        /\ routed # 0 /\ routed \in open
    BY <1>1, <2>1 DEF LifeInv, Phases, Routes
  <2>3. Numbered' /\ Routes' /\ Phases'
    BY <1>1, <2>1, <2>2 DEF LifeInv, Numbered, Routes, Phases
  <2>4. Single' /\ ChangesReachListeners'
    BY <1>1, <2>1, <2>2 DEF LifeInv, Single, ChangesReachListeners, On
  <2> QED
    BY <2>3, <2>4 DEF LifeInv
<1> QED
  BY <1>2, <1>3, <1>4

\* The other transports, and stop() up to the handler.
LEMMA LifeTransports ==
    ASSUME LifeInv, SignalInv',
           StartStdio \/ Connect \/ Stop \/ CloseTransports \/ StdioCloseFails
    PROVE  LifeInv'
<1>1. /\ UNCHANGED <<started, handler, open, server, accepting, app, req>>
      /\ routed' \in {0, routed}
  BY DEF StartStdio, Connect, Stop, CloseTransports, StdioCloseFails, sockets, FreshApp
<1>6. overlap => overlap'
  BY Zenon DEF StartStdio, Connect, Stop, CloseTransports, StdioCloseFails
<1>2. Numbered' /\ Routes'
  BY <1>1 DEF LifeInv, Numbered, Routes
<1>3. Phases'
  <2>1. CASE StartStdio \/ Connect
    BY <1>1, <2>1 DEF StartStdio, Connect, LifeInv, Phases
  <2>2. CASE Stop
    BY <1>1, <2>2 DEF Stop, FreshApp, transports, LifeInv, Phases
  <2>3. CASE CloseTransports \/ StdioCloseFails
    BY <1>1, <2>3 DEF CloseTransports, StdioCloseFails, ConnectedAfterStop, LifeInv, Phases
  <2> QED
    BY <2>1, <2>2, <2>3
<1>4. control' \notin {"readCerts", "listen"}
  BY DEF StartStdio, Connect, Stop, CloseTransports, StdioCloseFails, LifeInv
<1>5. Single' /\ ChangesReachListeners'
  BY <1>1, <1>4, <1>6 DEF LifeInv, Single, ChangesReachListeners, On
<1> QED
  BY <1>2, <1>3, <1>5 DEF LifeInv

\* stop() from the handler on: no other listening socket leads to the handler
\* that is closed.
LEMMA LifeClosed ==
    ASSUME LifeInv, SignalInv', CloseHandler \/ HttpClosed
    PROVE  LifeInv'
<1>1. \A r \in Slot :
          /\ req'[r].step = req[r].step /\ req'[r].via = req[r].via
          /\ req'[r].missed = req[r].missed /\ (req[r].gone => req'[r].gone)
  BY LifecycleRequests DEF LifeInv, LifecycleStep
<1>2. /\ UNCHANGED <<started, routed, app, stdio, connected, overlap>>
      /\ started \in Nat /\ app \in [Handler -> 0 .. MaxStarts]
      /\ accepting \subseteq Handler /\ open \subseteq Handler /\ Handler \subseteq Nat
  BY Bounds DEF CloseHandler, HttpClosed, transports, LifeInv, SignalInv, TypeOK, Handler
<1>3. CASE CloseHandler
  <2>1. /\ control = "closeHandler" /\ open' = open \ {handler} /\ handler' = 0
        /\ accepting' = accepting \ {server} /\ server' = server
        /\ \/ server = 0 /\ control' = "none" /\ state' = "Stopped"
           \/ server # 0 /\ control' = "closeHttp"
    BY <1>3 DEF CloseHandler, OpenAfterStop
  <2>2. routed = 0 /\ ~stdio /\ connected = 0
    BY <2>1 DEF LifeInv, Phases
  <2>3. ASSUME NEW m \in accepting, m # server PROVE app[m] \in open /\ app[m] # handler
    <3>1. app[m] \in open /\ m <= started /\ app[m] <= m /\ m \in Nat /\ app[m] \in Nat
      BY <1>2, <2>3 DEF LifeInv, Routes, Numbered
    <3>2. m # started /\ app[m] # 0
      BY <1>2, <2>3, <3>1 DEF LifeInv, Numbered, Handler
    <3> QED
      BY <1>2, <3>1, <3>2 DEF LifeInv, Numbered
  <2>4. Numbered' /\ Routes' /\ Phases'
    BY <1>2, <2>1, <2>2, <2>3 DEF LifeInv, Numbered, Routes, Phases
  <2>5. Single' /\ ChangesReachListeners'
    BY <1>1, <1>2, <2>1, <2>2 DEF LifeInv, Single, ChangesReachListeners, On
  <2> QED
    BY <2>4, <2>5 DEF LifeInv
<1>4. CASE HttpClosed
  <2>1. /\ control = "closeHttp" /\ control' = "none" /\ server' = 0 /\ state' = "Stopped"
        /\ UNCHANGED <<handler, open, accepting, req>>
        /\ \A r \in Slot : req[r].via = server => req[r].gone
    BY <1>4 DEF HttpClosed, Drained
  <2>2. /\ handler = 0 /\ routed = 0 /\ ~stdio /\ connected = 0 /\ server # 0
        /\ server \notin accepting
    BY <2>1 DEF LifeInv, Phases
  <2>3. Numbered' /\ Routes' /\ Phases'
    BY <1>2, <2>1, <2>2 DEF LifeInv, Numbered, Routes, Phases
  <2>4. Single' /\ ChangesReachListeners'
    BY <1>1, <1>2, <2>1, <2>2 DEF LifeInv, Single, ChangesReachListeners, On
  <2> QED
    BY <2>3, <2>4 DEF LifeInv
<1> QED
  BY <1>3, <1>4

LEMMA LifeNext == LifeInv /\ [Next]_vars => LifeInv'
<1> SUFFICES ASSUME LifeInv, [Next]_vars PROVE LifeInv'
  OBVIOUS
<1>1. SignalInv'
  BY SignalNext DEF LifeInv
<1>2. CASE LifecycleStep
  BY <1>1, <1>2, LifeStart, LifeStarted, LifeTransports, LifeClosed DEF LifecycleStep
<1>3. CASE \E r \in Slot : Arrive(r) \/ Framework(r) \/ Settle(r) \/ Disconnect(r)
  <2>1. PICK r \in Slot : Arrive(r) \/ Framework(r) \/ Settle(r) \/ Disconnect(r)
    BY <1>3
  <2>2. PICK q : Becomes(r, q) /\ Follows(r, q)
    BY <2>1, RequestStep DEF LifeInv
  <2>3. UNCHANGED lifecycle
    BY <2>1, RequestStep DEF LifeInv
  <2>4. req'[r] = q /\ \A s \in Slot : s # r => req'[s] = req[s]
    BY <2>2 DEF Becomes, LifeInv, SignalInv, TypeOK
  <2>5. Numbered' /\ Routes' /\ Phases'
    BY <2>3 DEF LifeInv, Numbered, Routes, Phases, lifecycle, transports, sockets
  <2>6. ASSUME ~overlap
        PROVE  \/ q.step = "idle" \/ q.gone
               \/ server # 0 /\ q.via = server /\ control # "listen"
    <3>1. CASE req[r].step = "idle" /\ q.via \in accepting
      BY <2>6, <3>1, NoSocket DEF LifeInv, Single, SignalInv
    <3>2. CASE req[r].step # "idle" /\ q.via = req[r].via /\ (req[r].gone => q.gone)
      BY <2>6, <3>2 DEF LifeInv, Single
    <3> QED
      BY <2>2, <3>1, <3>2 DEF Follows
  <2>7. Single'
    BY <2>3, <2>4, <2>6 DEF LifeInv, Single, lifecycle, sockets
  <2>8. q.step = "listening" => ~q.missed \/ (req[r].missed /\ req[r].step = "listening"
                                              /\ q.via = req[r].via)
    BY <2>2 DEF Follows
  <2>9. ChangesReachListeners'
    BY <2>3, <2>4, <2>8 DEF LifeInv, ChangesReachListeners, lifecycle, sockets, On
  <2> QED
    BY <1>1, <2>5, <2>7, <2>9 DEF LifeInv
<1>4. CASE Change
  <2>1. \A r \in Slot :
           /\ req'[r].step = req[r].step /\ req'[r].via = req[r].via
           /\ req'[r].gone = req[r].gone
           /\ On(req[r]) = handler => req'[r].missed = req[r].missed
    BY <1>4, ChangedRequests DEF LifeInv
  <2>2. UNCHANGED <<lifecycle, sealed>>
    BY <1>4 DEF Change
  <2>3. Numbered' /\ Routes' /\ Phases' /\ Single'
    BY <2>1, <2>2 DEF LifeInv, Numbered, Routes, Phases, Single, lifecycle, transports,
       sockets
  <2>4. ChangesReachListeners'
    BY <2>1, <2>2 DEF LifeInv, Single, ChangesReachListeners, lifecycle, sockets, On
  <2> QED
    BY <1>1, <2>3, <2>4 DEF LifeInv
<1>5. CASE UNCHANGED vars
  BY <1>1, <1>5 DEF vars, lifecycle, transports, sockets, LifeInv, Numbered, Routes, Phases,
     Single, ChangesReachListeners, On
<1> QED
  BY <1>2, <1>3, <1>4, <1>5, NextSteps

\* Every socket answers through an open handler, and through the current one
\* unless a start() was called over another.
THEOREM ServesThroughCurrentHandlerHolds == Spec => []ServesThroughCurrentHandler
<1>1. LifeInv => ServesThroughCurrentHandler
  <2> SUFFICES ASSUME LifeInv, NEW n \in accepting, ~overlap
               PROVE  n = server /\ app[n] = handler
    BY DEF LifeInv, Routes, ServesThroughCurrentHandler
  <2>1. n = server /\ server # 0 /\ app[n] \in open
    BY DEF LifeInv, Single, Routes, SignalInv, TypeOK, Handler
  <2> QED
    BY <2>1 DEF LifeInv, Single
<1>2. LifeInv /\ [Next]_vars => LifeInv'
  BY LifeNext
<1> QED
  BY <1>1, <1>2, LifeInit, PTL DEF Spec

\* A client of an open stream is told of every change of the catalogue.
THEOREM ChangesReachListenersHolds == Spec => []ChangesReachListeners
<1>1. LifeInv => ChangesReachListeners
  BY DEF LifeInv
<1>2. LifeInv /\ [Next]_vars => LifeInv'
  BY LifeNext
<1> QED
  BY <1>1, <1>2, LifeInit, PTL DEF Spec

\* stop() leaves nothing behind that serves or keeps the process alive.
THEOREM StopReleasesAllHolds == Spec => []StopReleasesAll
<1>1. LifeInv => StopReleasesAll
  BY NoSocket DEF LifeInv, SignalInv, Single, Phases, StopReleasesAll
<1>2. LifeInv /\ [Next]_vars => LifeInv'
  BY LifeNext
<1> QED
  BY <1>1, <1>2, LifeInit, PTL DEF Spec

--------------------------------------------------------------------------------
(* The server with its provider *)

\* A server that was given a provider does what a server does.
LEMMA AppStep == [AppNext]_appVars => [Next]_vars
<1> SUFFICES ASSUME [AppNext]_appVars PROVE [Next]_vars
  OBVIOUS
<1>1. CASE \E tls \in BOOLEAN : AppStart(tls)
  BY <1>1 DEF AppStart, Next
<1>2. CASE AppStartRefused
  BY <1>2 DEF AppStartRefused, Next
<1>3. CASE \E r \in Slot : AppArrive(r) \/ AppAuthenticated(r) \/ AppRefused(r)
  BY <1>3 DEF AppArrive, AppAuthenticated, AppRefused, Next, Framework
<1>4. CASE AppDestroy \/ AppProvider \/ UNCHANGED appVars
  BY <1>4 DEF AppDestroy, AppProvider, appVars
<1>5. CASE ServerOnly
  BY <1>5 DEF ServerOnly, Next, Framework
<1> QED
  BY <1>1, <1>2, <1>3, <1>4, <1>5 DEF AppNext

\* Every behaviour of a server with a provider is one of the server alone: the
\* provider only refuses starts and requests that a server may refuse (the
\* authenticate hook and getOAuthConfig()), so what is proved of Spec holds.
THEOREM ApplicationRefinesServer == AppSpec => Spec
<1>1. AppInit => Init
  BY DEF AppInit
<1> QED
  BY <1>1, AppStep, PTL DEF AppSpec, Spec

\* The provider has one proxy at a time, whose timers alone run.
ProviderInv ==
    /\ proxy \in Nat /\ built \in Nat /\ proxy <= built
    /\ running \subseteq {proxy} /\ 0 \notin running
    /\ destroyed \in BOOLEAN
    /\ destroyed => proxy = 0

ProviderCall == P!Get \/ P!DestroyProxy \/ UNCHANGED provider

LEMMA ProviderNext ==
    ASSUME ProviderInv, ProviderCall \/ P!Destroy
    PROVE  ProviderInv'
<1>1. CASE P!Get
  <2>1. CASE proxy = 0
    <3>1. /\ proxy' = built + 1 /\ built' = built + 1 /\ destroyed' = destroyed
          /\ running' = running \cup {built + 1} /\ ~destroyed
      BY <1>1, <2>1 DEF P!Get, P!Given, P!Refuses
    <3>2. running = {}
      BY <2>1 DEF ProviderInv
    <3> QED
      BY <3>1, <3>2 DEF ProviderInv
  <2>2. CASE proxy # 0
    BY <1>1, <2>2 DEF P!Get, P!Given, ProviderInv
  <2> QED
    BY <2>1, <2>2
<1>2. CASE P!Destroy
  <2>1. destroyed' \in BOOLEAN
    BY <1>2, Zenon DEF P!Destroy
  <2> QED
    BY <1>2, <2>1 DEF P!Destroy, P!Released, ProviderInv
<1>3. CASE P!DestroyProxy
  BY <1>3 DEF P!DestroyProxy, P!Released, ProviderInv
<1>4. CASE UNCHANGED provider
  BY <1>4 DEF provider, ProviderInv
<1> QED
  BY <1>1, <1>2, <1>3, <1>4 DEF ProviderCall

\* As long as the provider is not destroyed, every route holds its proxy.
SameProxy ==
    /\ routed # 0 => destroyed \/ (proxy # 0 /\ mounts[routed] = proxy)
    /\ \A n \in Handler :
           app[n] # 0 => destroyed \/ (proxy # 0 /\ mounts[app[n]] = proxy)

\* After stop() and destroy() no start() gets as far as a socket.
Ended ==
    destroyed /\ ~early /\ ~overlap =>
        /\ server = 0 /\ accepting = {} /\ control # "readCerts"
        /\ \A r \in Slot : req[r].step = "idle" \/ req[r].gone

AppInv ==
    /\ LifeInv
    /\ ProviderInv
    /\ mounts \in [Handler -> Nat]
    /\ early \in BOOLEAN
    /\ SameProxy
    /\ Ended

LEMMA AppInvInit == AppInit => AppInv
<1> SUFFICES ASSUME AppInit PROVE AppInv
  OBVIOUS
<1>1. destroyed \in BOOLEAN /\ early \in BOOLEAN
  BY Zenon DEF AppInit, P!Init
<1>2. ~destroyed /\ ProviderInv
  BY <1>1 DEF AppInit, P!Init, ProviderInv
<1>3. mounts \in [Handler -> Nat] /\ routed = 0 /\ \A n \in Handler : app[n] = 0
  BY DEF AppInit, Init, NoProxy
<1> QED
  BY <1>1, <1>2, <1>3, LifeInit DEF AppInit, AppInv, SameProxy, Ended

\* The steps of start(), that ask for the proxy.
LEMMA AppInvStart ==
    ASSUME AppInv, NEW tls \in BOOLEAN, AppStart(tls), ProviderInv', LifeInv'
    PROVE  AppInv'
<1> DEFINE n == started + 1
<1>1. /\ ~destroyed /\ ~destroyed' /\ proxy' = P!Given /\ proxy' # 0
      /\ (proxy # 0 => proxy' = proxy)
      /\ mounts' = [mounts EXCEPT ![n] = proxy'] /\ early' = early
      /\ n \in Handler /\ routed' = FirstRoute(n)
      /\ app' = app \/ app' = [app EXCEPT ![n] = FirstRoute(n)]
  BY Bounds DEF AppStart, Start, NewHandler, NewServer, sockets, P!Get, P!Given, P!Refuses,
     AppInv, ProviderInv, LifeInv, SignalInv, TypeOK, Handler
<1>2. proxy' \in Nat
  BY <1>1 DEF P!Given, AppInv, ProviderInv
<1>3. mounts' \in [Handler -> Nat] /\ mounts'[n] = proxy'
      /\ \A m \in Handler : m # n => mounts'[m] = mounts[m]
  BY <1>1, <1>2 DEF AppInv
<1>4. /\ routed \in Nat /\ (routed # 0 => routed <= started /\ routed \in Handler)
      /\ app \in [Handler -> 0 .. MaxStarts] /\ started \in Nat
      /\ \A m \in Handler : app[m] # 0 => app[m] <= m /\ m <= started /\ app[m] \in Handler
  <2>1. routed \in 0 .. MaxStarts /\ started \in 0 .. MaxStarts
        /\ app \in [Handler -> 0 .. MaxStarts] /\ Handler = 1 .. MaxStarts
    BY DEF AppInv, LifeInv, SignalInv, TypeOK, Handler
  <2>2. /\ routed # 0 => routed <= started
        /\ \A m \in Handler : app[m] <= m /\ (app[m] # 0 => m <= started)
    BY DEF AppInv, LifeInv, Routes, Numbered
  <2>3. \A m \in Handler : app[m] \in 0 .. MaxStarts
    BY <2>1
  <2> QED
    BY <2>1, <2>2, <2>3, Bounds
<1>5. mounts'[FirstRoute(n)] = proxy'
  BY <1>1, <1>3, <1>4 DEF FirstRoute, AppInv, SameProxy
<1>6. ASSUME NEW m \in Handler, app'[m] # 0 PROVE mounts'[app'[m]] = proxy'
  <2>1. CASE app'[m] = FirstRoute(n)
    BY <1>5, <2>1
  <2>2. CASE app'[m] # FirstRoute(n)
    <3>1. app'[m] = app[m] /\ app[m] # 0
      BY <1>1, <1>4, <1>6, <2>2
    <3>2. app[m] # n /\ app[m] \in Handler
      BY <1>4, <3>1, <1>6 DEF Handler
    <3> QED
      BY <1>1, <1>3, <3>1, <3>2 DEF AppInv, SameProxy
  <2> QED
    BY <2>1, <2>2
<1>7. SameProxy' /\ Ended'
  BY <1>1, <1>5, <1>6 DEF SameProxy, Ended
<1> QED
  BY <1>1, <1>3, <1>7 DEF AppInv

\* destroy() after stop() finds the server stopped.
LEMMA AppInvDestroy ==
    ASSUME AppInv, AppDestroy, ProviderInv', LifeInv'
    PROVE  AppInv'
<1>1. destroyed' /\ UNCHANGED <<mounts, server, accepting, control, overlap, req>>
  BY DEF AppDestroy, P!Destroy, vars, lifecycle, sockets
<1>2. early' \in BOOLEAN
  BY Zenon DEF AppDestroy
<1>3. ~early' => state = "Stopped" /\ control = "none"
  BY DEF AppDestroy
<1>4. state = "Stopped" /\ control = "none" /\ ~overlap =>
          /\ server = 0 /\ accepting = {}
          /\ \A r \in Slot : req[r].step = "idle" \/ req[r].gone
  BY DEF AppInv, LifeInv, Single, Phases, SignalInv, TypeOK, Handler
<1>5. SameProxy'
  BY <1>1 DEF SameProxy
<1>6. Ended'
  BY <1>1, <1>3, <1>4 DEF Ended
<1> QED
  BY <1>1, <1>2, <1>5, <1>6 DEF AppInv

\* The steps of the server in which no start() gets to the routes.
OtherStep ==
    \/ StartRefused \/ StartStdio \/ Connect \/ Stop
    \/ CertsRead \/ StartFails \/ Listening
    \/ CloseTransports \/ StdioCloseFails \/ CloseHandler \/ HttpClosed
    \/ \E r \in Slot : Arrive(r) \/ Framework(r) \/ Settle(r) \/ Disconnect(r)
    \/ Change
    \/ UNCHANGED vars

LEMMA AppSteps ==
    ASSUME [AppNext]_appVars
    PROVE  \/ \E tls \in BOOLEAN : AppStart(tls)
           \/ AppDestroy
           \/ OtherStep /\ ProviderCall /\ UNCHANGED <<mounts, early>>
<1>1. CASE AppStartRefused
  BY <1>1 DEF AppStartRefused, OtherStep, ProviderCall, links
<1>2. CASE \E r \in Slot : AppArrive(r) \/ AppAuthenticated(r) \/ AppRefused(r)
  BY <1>2 DEF AppArrive, AppAuthenticated, AppRefused, Framework, OtherStep, ProviderCall
<1>3. CASE AppProvider
  BY <1>3 DEF AppProvider, OtherStep, ProviderCall, links
<1>4. CASE ServerOnly
  BY <1>4 DEF ServerOnly, Resume, Framework, OtherStep, ProviderCall, links
<1>5. CASE UNCHANGED appVars
  BY <1>5 DEF appVars, OtherStep, ProviderCall, links
<1> QED
  BY <1>1, <1>2, <1>3, <1>4, <1>5 DEF AppNext

\* They lead to no handler that was not routed to, bring no socket where there
\* was none, and no client that waits.
LEMMA OtherSteps ==
    ASSUME LifeInv, OtherStep
    PROVE  /\ routed' \in {0, routed}
           /\ \A n \in Handler : app'[n] \in {app[n], routed}
           /\ server = 0 /\ accepting = {} /\ control # "readCerts" =>
                  server' = 0 /\ accepting' = {} /\ control' # "readCerts"
           /\ (accepting = {} /\ \A r \in Slot : req[r].step = "idle" \/ req[r].gone) =>
                  \A r \in Slot : req'[r].step = "idle" \/ req'[r].gone
<1>1. CASE \/ StartRefused \/ StartStdio \/ Connect \/ Stop
           \/ CertsRead \/ StartFails \/ Listening
           \/ CloseTransports \/ StdioCloseFails \/ CloseHandler \/ HttpClosed
  <2>1. \A r \in Slot : req'[r].step = req[r].step /\ (req[r].gone => req'[r].gone)
    BY <1>1, LifecycleRequests DEF LifeInv, LifecycleStep
  <2>2. CASE StartRefused \/ StartStdio \/ Connect \/ Stop \/ StartFails
    BY <2>1, <2>2 DEF StartRefused, NewHandler, StartStdio, Connect, Stop, FreshApp,
       StartFails, sockets
  <2>3. CASE CertsRead \/ Listening
    BY <2>1, <2>3 DEF CertsRead, NewServer, Listening, LifeInv, Phases, SignalInv, TypeOK
  <2>4. CASE CloseTransports \/ StdioCloseFails \/ CloseHandler \/ HttpClosed
    BY <2>1, <2>4 DEF CloseTransports, StdioCloseFails, CloseHandler, HttpClosed, sockets
  <2> QED
    BY <1>1, <2>2, <2>3, <2>4
<1>2. ASSUME NEW r \in Slot, Arrive(r) \/ Framework(r) \/ Settle(r) \/ Disconnect(r)
      PROVE  /\ UNCHANGED lifecycle
             /\ (accepting = {} /\ \A s \in Slot : req[s].step = "idle" \/ req[s].gone) =>
                    \A s \in Slot : req'[s].step = "idle" \/ req'[s].gone
  <2>1. PICK q : Becomes(r, q) /\ Follows(r, q)
    BY <1>2, RequestStep DEF LifeInv
  <2>2. UNCHANGED lifecycle
    BY <1>2, RequestStep DEF LifeInv
  <2>3. req'[r] = q /\ \A s \in Slot : s # r => req'[s] = req[s]
    BY <2>1 DEF Becomes, LifeInv, SignalInv, TypeOK
  <2> QED
    BY <2>1, <2>2, <2>3 DEF Follows
<1>3. CASE Change
  BY <1>3, ChangedRequests DEF LifeInv, lifecycle, sockets
<1>4. CASE UNCHANGED vars
  BY <1>4 DEF vars, lifecycle, sockets
<1> QED
  BY <1>1, <1>2, <1>3, <1>4 DEF OtherStep, lifecycle, sockets

LEMMA OverlapStays == LifeInv /\ OtherStep /\ overlap => overlap'
<1> SUFFICES ASSUME LifeInv, OtherStep, overlap PROVE overlap'
  OBVIOUS
<1>1. CASE \E r \in Slot : Arrive(r) \/ Framework(r) \/ Settle(r) \/ Disconnect(r)
  BY <1>1, RequestStep DEF LifeInv, lifecycle
<1>2. CASE ~\E r \in Slot : Arrive(r) \/ Framework(r) \/ Settle(r) \/ Disconnect(r)
  BY <1>2, Zenon DEF OtherStep, StartRefused, NewHandler, StartStdio, Connect, Stop,
     CertsRead, StartFails, Listening, CloseTransports, StdioCloseFails, CloseHandler,
     HttpClosed, Change, vars, lifecycle
<1> QED
  BY <1>1, <1>2

LEMMA AppInvOther ==
    ASSUME AppInv, OtherStep, ProviderCall,
           UNCHANGED <<mounts, early>>, ProviderInv', LifeInv'
    PROVE  AppInv'
<1>1. destroyed' = destroyed /\ (destroyed \/ proxy = 0 \/ proxy' = proxy)
  BY DEF ProviderCall, P!Get, P!Given, P!DestroyProxy, provider
<1>2. /\ routed' \in {0, routed}
      /\ \A n \in Handler : app'[n] \in {app[n], routed}
  BY OtherSteps DEF AppInv
<1>3. SameProxy'
  <2>1. CASE destroyed
    BY <1>1, <2>1 DEF SameProxy
  <2>2. CASE ~destroyed
    BY <1>1, <1>2, <2>2 DEF AppInv, SameProxy
  <2> QED
    BY <2>1, <2>2
<1>4. Ended'
  <2> SUFFICES ASSUME destroyed, ~early, ~overlap'
               PROVE  /\ server' = 0 /\ accepting' = {} /\ control' # "readCerts"
                      /\ \A r \in Slot : req'[r].step = "idle" \/ req'[r].gone
    BY <1>1 DEF Ended
  <2>1. /\ server = 0 /\ accepting = {} /\ control # "readCerts"
        /\ \A r \in Slot : req[r].step = "idle" \/ req[r].gone
    BY OverlapStays DEF AppInv, Ended
  <2> QED
    BY <2>1, OtherSteps DEF AppInv
<1> QED
  BY <1>3, <1>4 DEF AppInv

LEMMA ProviderCalls == [AppNext]_appVars => ProviderCall \/ P!Destroy
<1> SUFFICES ASSUME [AppNext]_appVars PROVE ProviderCall \/ P!Destroy
  OBVIOUS
<1> QED
  BY AppSteps DEF AppStart, AppDestroy, ProviderCall

LEMMA AppInvNext ==
    ASSUME AppInv, [AppNext]_appVars
    PROVE  AppInv'
<1>1. LifeInv' /\ ProviderInv'
  BY AppStep, ProviderCalls, LifeNext, ProviderNext DEF AppInv
<1> QED
  BY <1>1, AppSteps, AppInvStart, AppInvDestroy, AppInvOther

--------------------------------------------------------------------------------
(* Types *)

\* The variables of the application alone.
LinkTypes ==
    /\ P!TypeOK
    /\ mounts \in [Handler -> 0 .. MaxProxies]
    /\ using \in [Slot -> 0 .. MaxProxies]
    /\ early \in BOOLEAN

LEMMA ProviderTypes ==
    ASSUME P!TypeOK, ProviderCall \/ P!Destroy
    PROVE  P!TypeOK' /\ (P!Get => P!Given \in 0 .. MaxProxies)
<1>1. CASE P!Get
  <2>1. P!Given \in 1 .. MaxProxies /\ MaxProxies \in Nat
    BY <1>1, ApplicationAssumption DEF P!Get, P!Given, P!TypeOK
  <2>2. destroyed' \in BOOLEAN
    BY <1>1, Zenon DEF P!Get, P!TypeOK
  <2>3. proxy' = P!Given /\ built' \in 0 .. MaxProxies /\ P!Given <= built' /\ built <= built'
    BY <1>1, <2>1 DEF P!Get, P!Given, P!TypeOK
  <2>4. running' \subseteq 1 .. built'
    <3>1. running' \subseteq running \cup {P!Given}
      BY <1>1 DEF P!Get
    <3> QED
      BY <3>1, <2>1, <2>3 DEF P!TypeOK
  <2> QED
    BY <2>1, <2>2, <2>3, <2>4 DEF P!TypeOK
<1>2. CASE P!Destroy
  <2>1. destroyed' \in BOOLEAN
    BY <1>2, Zenon DEF P!Destroy
  <2>2. ~P!Get \/ P!Given \in 0 .. MaxProxies
    BY <1>2, ApplicationAssumption DEF P!Get, P!Given, P!TypeOK
  <2> QED
    BY <1>2, <2>1, <2>2 DEF P!Destroy, P!Released, P!TypeOK
<1>3. CASE P!DestroyProxy \/ UNCHANGED provider
  <2>1. ~P!Get \/ P!Given \in 0 .. MaxProxies
    BY ApplicationAssumption DEF P!Get, P!Given, P!TypeOK
  <2> QED
    BY <1>3, <2>1 DEF P!DestroyProxy, P!Released, P!TypeOK, provider
<1> QED
  BY <1>1, <1>2, <1>3 DEF ProviderCall

LEMMA LinkTypesNext ==
    ASSUME SignalInv, LinkTypes, [AppNext]_appVars
    PROVE  LinkTypes'
<1>1. P!TypeOK' /\ (P!Get => P!Given \in 0 .. MaxProxies)
  BY ProviderTypes, ProviderCalls DEF LinkTypes
<1>2. CASE \E tls \in BOOLEAN : AppStart(tls)
  BY <1>1, <1>2 DEF AppStart, LinkTypes
<1>3. CASE \E r \in Slot : AppArrive(r) \/ AppAuthenticated(r) \/ AppRefused(r)
  BY <1>1, <1>3, ApplicationAssumption
     DEF AppArrive, AppAuthenticated, AppRefused, LinkTypes, NoProxy
<1>4. CASE AppDestroy
  <2>1. early' \in BOOLEAN
    BY <1>4, Zenon DEF AppDestroy
  <2> QED
    BY <1>1, <1>4, <2>1 DEF AppDestroy, LinkTypes
<1>5. CASE AppStartRefused \/ AppProvider \/ ServerOnly \/ UNCHANGED appVars
  BY <1>1, <1>5 DEF AppStartRefused, AppProvider, ServerOnly, appVars, links, LinkTypes
<1> QED
  BY <1>2, <1>3, <1>4, <1>5 DEF AppNext

\* The server, the provider and the links between them keep their types: the
\* fields of ViteMCP and AuthProvider, and the proxies the routes hold.
THEOREM ApplicationTypesHold == AppSpec => []AppTypeOK
<1>1. AppInit => SignalInv /\ LinkTypes
  <2> SUFFICES ASSUME AppInit PROVE SignalInv /\ LinkTypes
    OBVIOUS
  <2>1. destroyed \in BOOLEAN /\ early \in BOOLEAN
    BY Zenon DEF AppInit, P!Init
  <2> QED
    BY <2>1, SignalInit, ApplicationAssumption
       DEF AppInit, P!Init, P!TypeOK, LinkTypes, NoProxy
<1>2. SignalInv /\ LinkTypes /\ [AppNext]_appVars => (SignalInv /\ LinkTypes)'
  BY AppStep, SignalNext, LinkTypesNext
<1>3. SignalInv /\ LinkTypes => AppTypeOK
  BY DEF SignalInv, LinkTypes, AppTypeOK
<1> QED
  BY <1>1, <1>2, <1>3, PTL DEF AppSpec

--------------------------------------------------------------------------------
\* No timer of the provider runs after destroy(), whatever is called or was in
\* flight.
THEOREM DestroyIsFinalHolds == AppSpec => []DestroyIsFinal
<1>1. AppInit => ProviderInv
  <2> SUFFICES ASSUME AppInit PROVE ProviderInv
    OBVIOUS
  <2>1. destroyed \in BOOLEAN
    BY Zenon DEF AppInit, P!Init
  <2> QED
    BY <2>1 DEF AppInit, P!Init, ProviderInv
<1>2. ProviderInv /\ [AppNext]_appVars => ProviderInv'
  BY ProviderCalls, ProviderNext
<1>3. ProviderInv => DestroyIsFinal
  BY DEF ProviderInv, DestroyIsFinal, P!DestroyIsFinal
<1> QED
  BY <1>1, <1>2, <1>3, PTL DEF AppSpec

\* The proxy that issues tokens is the one that verifies them.
THEOREM TokensVerifyHolds == AppSpec => []TokensVerify
<1>1. AppInv => TokensVerify
  <2> SUFFICES ASSUME AppInv, NEW n \in accepting, proxy # 0 PROVE mounts[app[n]] = proxy
    BY DEF TokensVerify, NoProxy
  <2>1. n \in Handler /\ app[n] # 0 /\ ~destroyed
    BY DEF AppInv, ProviderInv, LifeInv, Routes, SignalInv, TypeOK, Handler
  <2> QED
    BY <2>1 DEF AppInv, SameProxy
<1>2. AppInv /\ [AppNext]_appVars => AppInv'
  BY AppInvNext
<1> QED
  BY <1>1, <1>2, AppInvInit, PTL DEF AppSpec

\* After stop() and then destroy() no client waits for an answer and none can
\* connect.
THEOREM NothingServedAfterDestroyHolds == AppSpec => []NothingServedAfterDestroy
<1>1. AppInv => NothingServedAfterDestroy
  BY DEF AppInv, Ended, NothingServedAfterDestroy
<1>2. AppInv /\ [AppNext]_appVars => AppInv'
  BY AppInvNext
<1> QED
  BY <1>1, <1>2, AppInvInit, PTL DEF AppSpec
================================================================================
