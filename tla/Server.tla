--------------------------------- MODULE Server ---------------------------------
(***************************************************************************)
(* The server of ViteMCP.ts: start() over HTTP and stdio, connect() and    *)
(* stop(), the requests of the HTTP endpoint from authentication to the    *)
(* answer, the abort signal a tool gets (withTimeout, requestScope,        *)
(* clientDisconnectSignal), and the change events for subscriptions/listen *)
(* streams.  The MCP handler of the SDK is external: it is an object that  *)
(* is created by start(), answers requests until it is closed, and ends    *)
(* its streams when it is.                                                 *)
(*                                                                         *)
(* The n-th start() over HTTP creates handler n and, when it gets that     *)
(* far, HTTP server n.  The pieces between two awaits are the actions.  A  *)
(* caller awaits start(), connect() and stop() before the next one, and    *)
(* calls them in any order: a start() that failed, or one that serves, may *)
(* be followed by another.                                                 *)
(***************************************************************************)
EXTENDS Naturals

CONSTANTS
    Slot,            \* HTTP requests open at the same time
    MaxStarts,       \* bound on the calls of start() over HTTP
    MaxConnected,    \* bound on the servers connected at a time
    Deadlines        \* may a tool have a timeoutMs (TRUE), or none (FALSE)?

ASSUME ServerAssumption ==
    /\ MaxStarts \in Nat /\ MaxConnected \in Nat
    /\ Deadlines \subseteq BOOLEAN

VARIABLES
    state,   \* #serverState
    started, \* calls of start() over HTTP so far
    handler, \* #handler; 0 is null
    open,    \* handlers that are not closed
    routed,  \* handler of the first endpoint route of #honoApp; 0: no route
    sealed,  \* has #honoApp answered a request?  It takes no routes any more
    server,  \* #httpServer; 0 is null
    accepting, \* HTTP servers that listen
    app,     \* app[n]: the handler that the app behind HTTP server n routes to
    control, \* what a start() or stop() in progress waits for
    stdio,   \* is there a #stdioHandle?
    connected, \* number of #connectedServers
    overlap, \* was a start() called over one that had not been stopped?
    req      \* the HTTP request in each slot

transports == <<stdio, connected>>
sockets == <<server, accepting, app>>
lifecycle == <<state, started, handler, open, routed, sockets, control, transports, overlap>>
vars == <<lifecycle, sealed, req>>

--------------------------------------------------------------------------------
Handler == 1 .. MaxStarts
State == {"Stopped", "Starting", "Running", "Error"}
Control == {"none", "readCerts", "listen",
            "closeTransports", "closeHandler", "closeHttp"}

\* via: the HTTP server that the request came through.
\* gone: the exchange is over for the client, or the SDK tore it down.
\* signal: context.signal of the tool call.  missed: was the client of an open
\* listen stream not told of a change?
Request == [step: {"idle", "authenticating", "building", "running", "answered",
                   "listening"},
            via: 0 .. MaxStarts, gone: BOOLEAN, deadline: BOOLEAN,
            signal: {"quiet", "aborted"},
            answer: {"none", "result", "error", "timeout"}, missed: BOOLEAN]

Idle == [step |-> "idle", via |-> 0, gone |-> FALSE, deadline |-> FALSE,
         signal |-> "quiet", answer |-> "none", missed |-> FALSE]

\* The handler that the route of the request calls.
On(q) == app[q.via]

Becomes(r, q) == req' = [req EXCEPT ![r] = q]

--------------------------------------------------------------------------------
(* Plausible slips in the code, each the body of one definition below; the  *)
(* properties have to notice them.                                          *)

\* The scope of a call is never released.
NeverReleased(q) == q.step \in {"running", "answered"}
\* A source that is aborted already is only listened to.
ListenedTo(q) == "quiet"
\* context.signal is missing where there is nothing to mirror.
MaybeSignal(q) == IF q.deadline THEN "quiet" ELSE "undefined"
\* stop() keeps the app and its routes.
AppKept == routed
\* stop() drops the handler without closing it.
LeftOpen == open
\* stop() closes the connected servers and keeps them.
StillConnected == connected
\* stop() does not wait for the connections.
NotAwaited == TRUE
\* A change is announced to the streams of the first handler only.
NotifiesFirst(q) == On(q) = 1

--------------------------------------------------------------------------------
(* start() and stop(), their decisions *)

\* #startHttp registers the endpoint on #honoApp; the first route answers.
FirstRoute(n) == IF routed = 0 THEN n ELSE routed

\* stop(): #freshApp has no routes.
FreshApp == 0

\* stop(): #handler.close()
OpenAfterStop == open \ {handler}

\* stop(): #connectedServers is emptied.
ConnectedAfterStop == 0

\* stop(): #httpServer.close() calls back when the last connection has ended.
\* It knows nothing of the work of an exchange whose client is gone.
Drained == \A r \in Slot : req[r].via = server => req[r].gone

--------------------------------------------------------------------------------
(* Signals *)

\* requestScope mirrors its sources until release().
Attached(q) == q.step = "running"

\* requestScope, for a source that is aborted when the call begins.
InitialSignal(q) == IF q.gone THEN "aborted" ELSE "quiet"

\* The request signal aborts: the client disconnected, or the SDK tears the
\* exchange down.
RequestAborted(q) ==
    [q EXCEPT !.gone = TRUE, !.signal = IF Attached(q) THEN "aborted" ELSE @]

\* withTimeout: abort, then reject with the same error.
TimedOut(q) == [q EXCEPT !.signal = "aborted", !.answer = "timeout", !.step = "answered"]

\* #notifyListChanged reaches the streams of #handler.
Notified(q) == On(q) = handler

--------------------------------------------------------------------------------
TypeOK ==
    /\ state \in State
    /\ started \in 0 .. MaxStarts
    /\ handler \in 0 .. MaxStarts
    /\ open \subseteq Handler
    /\ routed \in 0 .. MaxStarts
    /\ sealed \in BOOLEAN
    /\ server \in 0 .. MaxStarts
    /\ accepting \subseteq Handler
    /\ app \in [Handler -> 0 .. MaxStarts]
    /\ control \in Control
    /\ stdio \in BOOLEAN
    /\ connected \in 0 .. MaxConnected
    /\ overlap \in BOOLEAN
    /\ req \in [Slot -> Request]

Init ==
    /\ state = "Stopped" /\ control = "none"
    /\ started = 0 /\ handler = 0 /\ open = {} /\ routed = 0 /\ sealed = FALSE
    /\ server = 0 /\ accepting = {} /\ app = [n \in Handler |-> 0]
    /\ stdio = FALSE /\ connected = 0
    /\ overlap = FALSE
    /\ req = [r \in Slot |-> Idle]

--------------------------------------------------------------------------------
(* start() over HTTP.  Everything up to the first await is one piece; with   *)
(* TLS the certificates are read before the HTTP server is created.          *)

\* createMcpHandler(): the handler of an earlier start() is forgotten, not
\* closed.
NewHandler(n) ==
    /\ control = "none"
    /\ started < MaxStarts /\ n = started + 1
    /\ started' = n /\ handler' = n /\ open' = open \cup {n}
    /\ overlap' = (overlap \/ handler # 0)
    /\ UNCHANGED <<sealed, transports, req>>

\* #httpServer is overwritten; an earlier one keeps listening.
NewServer(n, route) ==
    /\ control' = "listen"
    /\ server' = n /\ app' = [app EXCEPT ![n] = route]
    /\ UNCHANGED accepting

Start(tls) ==
    LET n == started + 1 IN
    /\ NewHandler(n)
    /\ ~sealed
    /\ routed' = FirstRoute(n)
    /\ state' = "Starting"
    /\ IF tls THEN control' = "readCerts" /\ UNCHANGED sockets
              ELSE NewServer(n, FirstRoute(n))

\* getOAuthConfig() throws, or #honoApp takes no route any more: the handler
\* was created, no route was registered.
StartRefused ==
    /\ NewHandler(started + 1)
    /\ state' = "Error"
    /\ UNCHANGED <<routed, sockets, control>>

\* app is the #honoApp of before the await.
CertsRead ==
    /\ control = "readCerts"
    /\ NewServer(started, routed)
    /\ UNCHANGED <<state, started, handler, open, routed, sealed, transports, overlap, req>>

StartFails ==
    /\ control = "readCerts"
    /\ control' = "none" /\ state' = "Error"
    /\ UNCHANGED <<started, handler, open, routed, sealed, sockets, transports, overlap, req>>

Listening ==
    /\ control = "listen"
    /\ control' = "none" /\ state' = "Running"
    /\ accepting' = accepting \cup {server}
    /\ UNCHANGED <<started, handler, open, routed, sealed, server, app, transports, overlap,
                   req>>

--------------------------------------------------------------------------------
(* Other transports: start() over stdio and connect().                       *)

StartStdio ==
    /\ control = "none"
    /\ stdio' = TRUE /\ state' = "Running"
    /\ overlap' = (overlap \/ stdio)
    /\ UNCHANGED <<started, handler, open, routed, sealed, sockets, control, connected, req>>

Connect ==
    /\ control = "none"
    /\ connected < MaxConnected
    /\ connected' = connected + 1 /\ state' = "Running"
    /\ UNCHANGED <<started, handler, open, routed, sealed, sockets, control, stdio, overlap,
                   req>>

--------------------------------------------------------------------------------
(* stop(), in any state.  Requests keep arriving until the HTTP server is     *)
(* closed.                                                                   *)

Stop ==
    /\ control = "none"
    /\ routed' = FreshApp /\ sealed' = FALSE
    /\ control' = "closeTransports"
    /\ UNCHANGED <<state, started, handler, open, sockets, transports, overlap, req>>

\* The connected servers, whose failures are ignored, then the stdio handle.
CloseTransports ==
    /\ control = "closeTransports"
    /\ control' = "closeHandler"
    /\ stdio' = FALSE /\ connected' = ConnectedAfterStop
    /\ UNCHANGED <<state, started, handler, open, routed, sealed, sockets, overlap, req>>

\* The close() of the stdio handle rejects, and stop() with it.
StdioCloseFails ==
    /\ control = "closeTransports" /\ stdio
    /\ control' = "none"
    /\ connected' = ConnectedAfterStop
    /\ UNCHANGED <<state, started, handler, open, routed, sealed, sockets, stdio, overlap,
                   req>>

\* Closing the handler may tear down the exchanges it is serving.
CloseHandler ==
    /\ control = "closeHandler"
    /\ open' = OpenAfterStop /\ handler' = 0
    /\ \E torn \in SUBSET {r \in Slot : req[r].step = "running" /\ On(req[r]) = handler} :
          req' = [r \in Slot |-> IF r \in torn THEN RequestAborted(req[r]) ELSE req[r]]
    /\ IF server = 0
       THEN control' = "none" /\ state' = "Stopped"
       ELSE control' = "closeHttp" /\ UNCHANGED state
    /\ accepting' = accepting \ {server}
    /\ UNCHANGED <<started, routed, sealed, server, app, transports, overlap>>

HttpClosed ==
    /\ control = "closeHttp"
    /\ Drained
    /\ control' = "none" /\ server' = 0 /\ state' = "Stopped"
    /\ UNCHANGED <<started, handler, open, routed, sealed, accepting, app, transports, overlap,
                   req>>

--------------------------------------------------------------------------------
(* A request of the MCP endpoint *)

\* The body was read and the Origin accepted; authenticate() is called.
Arrive(r) ==
    /\ req[r].step = "idle"
    /\ \E n \in accepting :
          /\ Becomes(r, [Idle EXCEPT !.step = "authenticating", !.via = n])
          /\ sealed' = (sealed \/ app[n] = routed)
    /\ UNCHANGED lifecycle

\* #authenticateRequest: refused with 401, with the thrown response or a 500.
Refused(r) ==
    /\ req[r].step = "authenticating"
    /\ Becomes(r, Idle)
    /\ UNCHANGED <<lifecycle, sealed>>

\* ... or let through, with the session that the hook returned or without one
\* if allowAnonymous.  A closed handler answers with an error.
Authenticated(r) ==
    /\ req[r].step = "authenticating"
    /\ Becomes(r, IF On(req[r]) \in open THEN [req[r] EXCEPT !.step = "building"]
                  ELSE Idle)
    /\ UNCHANGED <<lifecycle, sealed>>

\* #buildServer is done and the method is tools/call: execute() begins.
Call(r, deadline) ==
    /\ req[r].step = "building"
    /\ Becomes(r, [req[r] EXCEPT !.step = "running", !.deadline = deadline,
                                 !.signal = InitialSignal(req[r])])
    /\ UNCHANGED <<lifecycle, sealed>>

\* ... is subscriptions/listen.  What changed before the stream is open is the
\* client's to list.
Listen(r) ==
    /\ req[r].step = "building"
    /\ Becomes(r, IF req[r].gone THEN Idle
                  ELSE [req[r] EXCEPT !.step = "listening"])
    /\ UNCHANGED <<lifecycle, sealed>>

\* ... is a list, an unknown tool or invalid arguments: answered without user
\* code.
Answer(r) ==
    /\ req[r].step = "building"
    /\ Becomes(r, Idle)
    /\ UNCHANGED <<lifecycle, sealed>>

\* execute() returns or throws; the scope is released.  The result of an
\* exchange that is over reaches nobody.
Settle(r) ==
    /\ req[r].step = "running"
    /\ \E answer \in {"result", "error"} :
          Becomes(r, [req[r] EXCEPT !.step = "answered",
                                    !.answer = IF req[r].gone THEN "none" ELSE answer])
    /\ UNCHANGED <<lifecycle, sealed>>

\* The timer of a tool with timeoutMs fires before execute() settled.
Timeout(r) ==
    /\ req[r].step = "running" /\ req[r].deadline
    /\ Becomes(r, TimedOut(req[r]))
    /\ UNCHANGED <<lifecycle, sealed>>

\* The answer is sent; the SDK tears the per-request transport down, which
\* aborts the request signal of a completed call too.
TearDown(r) ==
    /\ req[r].step = "answered" /\ ~req[r].gone
    /\ Becomes(r, RequestAborted(req[r]))
    /\ UNCHANGED <<lifecycle, sealed>>

EndExchange(r) ==
    /\ req[r].step = "answered" /\ req[r].gone
    /\ Becomes(r, Idle)
    /\ UNCHANGED <<lifecycle, sealed>>

\* The stream of a closed handler ends.
StreamEnds(r) ==
    /\ req[r].step = "listening"
    /\ On(req[r]) \notin open
    /\ Becomes(r, Idle)
    /\ UNCHANGED <<lifecycle, sealed>>

\* The client hangs up.
Disconnect(r) ==
    /\ req[r].step # "idle" /\ ~req[r].gone
    /\ Becomes(r, IF req[r].step = "listening" THEN Idle ELSE RequestAborted(req[r]))
    /\ UNCHANGED <<lifecycle, sealed>>

--------------------------------------------------------------------------------
\* add*() and remove*(): the catalogue changes, then the streams are told.
Change ==
    /\ req' = [r \in Slot |->
           IF req[r].step = "listening" /\ ~Notified(req[r])
           THEN [req[r] EXCEPT !.missed = TRUE] ELSE req[r]]
    /\ UNCHANGED <<lifecycle, sealed>>

--------------------------------------------------------------------------------
Resume ==
    \/ CertsRead \/ StartFails \/ Listening
    \/ CloseTransports \/ StdioCloseFails \/ CloseHandler \/ HttpClosed

\* The framework's part of a request, which the event loop runs when it can.
Framework(r) ==
    \/ Refused(r) \/ Authenticated(r)
    \/ (\E deadline \in Deadlines : Call(r, deadline)) \/ Listen(r) \/ Answer(r)
    \/ Timeout(r) \/ TearDown(r) \/ EndExchange(r) \/ StreamEnds(r)

Next ==
    \/ \E tls \in BOOLEAN : Start(tls)
    \/ StartRefused \/ StartStdio \/ Connect \/ Stop
    \/ Resume
    \/ \E r \in Slot : Arrive(r) \/ Framework(r) \/ Settle(r) \/ Disconnect(r)
    \/ Change

Spec == Init /\ [][Next]_vars

\* File and socket calls return, timers fire, and an authenticate() hook
\* returns or throws; nothing is assumed of execute() or of the client.
Fairness ==
    /\ WF_vars(Resume)
    /\ \A r \in Slot : WF_vars(Framework(r))

--------------------------------------------------------------------------------
(* Properties *)

\* A call that succeeded is never rolled back: a tool whose caller got the
\* result does not see its signal abort, although the SDK aborts the request
\* signal as soon as the result is sent (requestScope).
NoRollbackOfSuccess ==
    \A r \in Slot : req[r].answer = "result" => req[r].signal = "quiet"

\* No work runs on unobserved: while execute() runs for a client that is gone,
\* even one that left before the call began, and whenever the caller is told
\* that the tool timed out, context.signal is aborted.
AbandonedToolIsTold ==
    \A r \in Slot :
        \/ req[r].step = "running" /\ req[r].gone
        \/ req[r].answer = "timeout"
        => req[r].signal = "aborted"

\* After any sequence of starts, failed starts and stops, over one another or
\* not, every socket answers through a handler that is open; and through the
\* one of the last start(), unless a start() was called over another.
ServesThroughCurrentHandler ==
    \A n \in accepting :
        /\ app[n] \in open
        /\ overlap \/ (n = server /\ app[n] = handler)

\* A change event is published "to any open subscriptions/listen stream": the
\* client of such a stream is told of every change, unless a start() was called
\* over another, whose streams are on a handler that nothing notifies any more.
ChangesReachListeners ==
    \A r \in Slot :
        req[r].step = "listening" /\ On(req[r]) \in open => overlap \/ ~req[r].missed

\* What keeps #httpServer.close() waiting: a tool without timeoutMs that never
\* settles, or a stream of the handler that a later start() took the place of.
Held(r) ==
    /\ req[r].via = server /\ ~req[r].gone
    /\ \/ req[r].step = "running" /\ ~req[r].deadline
       \/ req[r].step = "listening" /\ On(req[r]) \in open /\ overlap

\* stop() returns, unless such a request is open: closing the handler ends the
\* streams that would keep the HTTP server from closing.
StopReturns ==
    control = "closeTransports"
        ~> control = "none" \/ (control = "closeHttp" /\ \E r \in Slot : Held(r))

\* What stop() leaves behind, after any sequence of starts over any transport,
\* connects and starts that failed at any point: nothing that would keep the
\* process alive or answer a request, and of the requests only work whose client
\* is gone.
StopReleasesAll ==
    state = "Stopped" /\ control = "none" /\ ~overlap
        => /\ server = 0 /\ accepting = {} /\ open = {} /\ connected = 0 /\ ~stdio
           /\ \A r \in Slot : req[r].step = "idle" \/ req[r].gone
================================================================================
