------------------------------- MODULE Application -------------------------------
(***************************************************************************)
(* A server that was given an authentication provider: the constructor of  *)
(* ViteMCP makes provider.authenticate() the hook of the HTTP endpoint,    *)
(* start() mounts OAuth routes that hold the provider's proxy by           *)
(* reference, and the program shuts both down, in the documented order or  *)
(* in another.                                                             *)
(***************************************************************************)
EXTENDS Server

CONSTANTS
    MaxProxies,     \* bound on the proxies built
    AllowAnonymous  \* options.allowAnonymous

ASSUME ApplicationAssumption == MaxProxies \in Nat /\ AllowAnonymous \in BOOLEAN

VARIABLES
    proxy, destroyed, built, running,  \* the provider's
    mounts,  \* mounts[n]: the proxy in the OAuth routes of the n-th start()
    using,   \* using[r]: the proxy whose loadUpstreamTokens() request r awaits
    early    \* was destroy() called before stop() was done?

P == INSTANCE AuthProvider

provider == <<proxy, destroyed, built, running>>
links == <<mounts, using, early>>
appVars == <<vars, provider, links>>

NoProxy == 0

AppTypeOK ==
    /\ TypeOK
    /\ P!TypeOK
    /\ mounts \in [Handler -> 0 .. MaxProxies]
    /\ using \in [Slot -> 0 .. MaxProxies]
    /\ early \in BOOLEAN

AppInit ==
    /\ Init
    /\ P!Init
    /\ mounts = [n \in Handler |-> NoProxy]
    /\ using = [r \in Slot |-> NoProxy]
    /\ early = FALSE

--------------------------------------------------------------------------------
\* #startHttp asks for getOAuthConfig() between the handler and the routes.
AppStart(tls) ==
    /\ Start(tls)
    /\ P!Get
    /\ mounts' = [mounts EXCEPT ![started'] = P!Given]
    /\ UNCHANGED <<using, early>>

\* It throws after destroy(); with a proxy it is the app that may refuse.
AppStartRefused ==
    /\ StartRefused
    /\ \/ P!Refuses /\ UNCHANGED provider
       \/ sealed /\ P!Get
    /\ UNCHANGED links

\* authenticate(): without a bearer token there is nothing to await; with one
\* the proxy is asked.  After destroy() the getter throws and the request is
\* refused before anything else runs, so that it leaves no trace.
AppArrive(r) ==
    /\ Arrive(r)
    /\ \/ using' = [using EXCEPT ![r] = NoProxy] /\ UNCHANGED provider
       \/ P!Get /\ using' = [using EXCEPT ![r] = P!Given]
    /\ UNCHANGED <<mounts, early>>

\* The records of a destroyed proxy are gone: its tokens resolve to nothing.
AppAuthenticated(r) ==
    /\ Authenticated(r)
    /\ AllowAnonymous \/ using[r] \in running
    /\ using' = [using EXCEPT ![r] = NoProxy]
    /\ UNCHANGED <<provider, mounts, early>>

AppRefused(r) ==
    /\ Refused(r)
    /\ using' = [using EXCEPT ![r] = NoProxy]
    /\ UNCHANGED <<provider, mounts, early>>

\* provider.destroy(), at any time, any number of times.
AppDestroy ==
    /\ P!Destroy
    /\ early' = (early \/ state # "Stopped" \/ control # "none")
    /\ UNCHANGED <<vars, mounts, using>>

\* getProxy(), and getProxy().destroy().
AppProvider ==
    /\ P!Get \/ P!DestroyProxy
    /\ UNCHANGED <<vars, links>>

\* What the provider has no part in.
ServerOnly ==
    /\ \/ StartStdio \/ Connect \/ Stop \/ Resume \/ Change
       \/ \E r \in Slot :
             \/ \E deadline \in Deadlines : Call(r, deadline)
             \/ Listen(r) \/ Answer(r) \/ Settle(r) \/ Timeout(r)
             \/ TearDown(r) \/ EndExchange(r) \/ StreamEnds(r) \/ Disconnect(r)
    /\ UNCHANGED <<provider, links>>

AppNext ==
    \/ \E tls \in BOOLEAN : AppStart(tls)
    \/ AppStartRefused
    \/ \E r \in Slot : AppArrive(r) \/ AppAuthenticated(r) \/ AppRefused(r)
    \/ AppDestroy
    \/ AppProvider
    \/ ServerOnly

AppSpec == AppInit /\ [][AppNext]_appVars

\* The fairness of Server: an exchange under authentication can always be
\* refused, whatever became of the provider.
AppFairSpec == AppSpec /\ Fairness

--------------------------------------------------------------------------------
(* Properties *)

\* "With different auto-generated signing keys, every token minted by one is
\* invalid to the other" (AuthProvider.proxy): on every socket that listens, the
\* proxy its OAuth routes issue tokens with is the one authenticate() verifies
\* them against, through every stop(), start() and destroy().
TokensVerify ==
    \A n \in accepting : proxy # NoProxy => mounts[app[n]] = proxy

\* In the documented order, stop() and then destroy(), nobody is waiting for
\* what destroy() pulls the provider from under, and nothing is served after it:
\* no exchange with a client is open, and a later start() brings no socket back.
NothingServedAfterDestroy ==
    destroyed /\ ~early /\ ~overlap
        => accepting = {} /\ \A r \in Slot : req[r].step = "idle" \/ req[r].gone

\* destroy() is terminal (see AuthProvider): no request in flight and no later
\* call makes the provider run timers again.
DestroyIsFinal == P!DestroyIsFinal
================================================================================
