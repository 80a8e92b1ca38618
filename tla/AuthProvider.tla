------------------------------ MODULE AuthProvider ------------------------------
(***************************************************************************)
(* The life of an authentication provider (auth/providers/AuthProvider.ts) *)
(* and of the OAuthProxy it builds for itself: created by the first use,   *)
(* with two cleanup timers and a signing key of its own, and released for  *)
(* good by destroy().  The n-th proxy built is proxy n.                    *)
(*                                                                         *)
(* The proxy keeps its records in the default storage, which is destroyed  *)
(* with it; a storage of the caller's is the caller's to destroy.          *)
(***************************************************************************)
EXTENDS Naturals

CONSTANT MaxProxies  \* bound on the proxies built

VARIABLES
    proxy,     \* _proxy; 0 is undefined
    destroyed, \* _destroyed
    built,     \* proxies built so far
    running    \* proxies whose timers run, the storage's included

provider == <<proxy, destroyed, built, running>>

TypeOK ==
    /\ proxy \in 0 .. built
    /\ destroyed \in BOOLEAN
    /\ built \in 0 .. MaxProxies
    /\ running \subseteq 1 .. built

Init == proxy = 0 /\ destroyed = FALSE /\ built = 0 /\ running = {}

--------------------------------------------------------------------------------
(* Plausible slips in the code, each the body of one definition below.      *)

\* The getter builds a replacement after destroy().
NeverRefuses == FALSE

--------------------------------------------------------------------------------
\* The proxy getter throws after destroy().
Refuses == destroyed

\* The proxy the getter returns, built if there is none.
Given == IF proxy = 0 THEN built + 1 ELSE proxy

\* The proxy getter: getProxy(), getOAuthConfig(), authenticate().
Get ==
    /\ ~Refuses
    /\ Given <= MaxProxies
    /\ proxy' = Given
    /\ built' = IF proxy = 0 THEN Given ELSE built
    /\ running' = IF proxy = 0 THEN running \cup {Given} ELSE running
    /\ UNCHANGED destroyed

\* What destroy() leaves running: OAuthProxy.destroy() clears both intervals.
Released == running \ {proxy}

Destroy ==
    /\ destroyed' = TRUE
    /\ running' = Released
    /\ proxy' = 0
    /\ UNCHANGED built

\* getProxy().destroy(): the provider still holds the proxy and hands it out.
DestroyProxy ==
    /\ ~Refuses
    /\ proxy # 0
    /\ running' = Released
    /\ UNCHANGED <<proxy, destroyed, built>>

--------------------------------------------------------------------------------
\* destroy() is terminal: whatever is called afterwards, and whatever was in
\* flight, no timer of a proxy of this provider runs again and the process can
\* exit (AuthProvider.destroy, its comment).
DestroyIsFinal == destroyed => running = {}
================================================================================
