-------------------------------- MODULE CodeGrant --------------------------------
(***************************************************************************)
(* What an authorization server promises about its codes (RFC 6749 4.1,    *)
(* RFC 7636), in one table and without storage, instances or time: an      *)
(* authorization is asked for, turned into a code, and the code into a     *)
(* token response, for the client that asked and a holder of its verifier. *)
(* Where the storage can take a record (single) that is one code and one   *)
(* response each, except that an authorization may be reopened, after      *)
(* which it yields further codes.  OAuthFlow implements it.                *)
(***************************************************************************)
EXTENDS Naturals

CONSTANTS Client, Txn, Code, None

VARIABLES
    single,   \* are records consumed at most once?  Never changes.
    request,  \* request[t]: who asked for authorization t, with a challenge?
    reopened, \* authorizations that may yield further codes
    source,   \* source[c]: the authorization code c was made for
    answers,  \* answers[c]: token responses given for code c
    holder    \* holder[c]: who got the last of them

grant == <<single, request, reopened, source, answers, holder>>

Init ==
    /\ single \in BOOLEAN
    /\ request = [t \in Txn |-> None]
    /\ reopened = {}
    /\ source = [c \in Code |-> None]
    /\ answers = [c \in Code |-> 0]
    /\ holder = [c \in Code |-> None]

Ask(t, client, pkce) ==
    /\ request[t] = None
    /\ request' = [request EXCEPT ![t] = [client |-> client, pkce |-> pkce]]
    /\ UNCHANGED <<single, reopened, source, answers, holder>>

Reopen(t) ==
    /\ request[t] # None
    /\ reopened' = reopened \cup {t}
    /\ UNCHANGED <<single, request, source, answers, holder>>

MakeCode(c, t) ==
    /\ request[t] # None
    /\ source[c] = None
    /\ single /\ t \notin reopened => \A d \in Code : source[d] # t
    /\ source' = [source EXCEPT ![c] = t]
    /\ UNCHANGED <<single, request, reopened, answers, holder>>

Answer(c, proof) ==
    LET asked == request[source[c]] IN
    /\ source[c] # None
    /\ single => answers[c] = 0
    /\ asked.pkce => proof = "matching"
    /\ answers' = [answers EXCEPT ![c] = @ + 1]
    /\ holder' = [holder EXCEPT ![c] = [client |-> asked.client, proof |-> proof]]
    /\ UNCHANGED <<single, request, reopened, source>>

Next ==
    \/ \E t \in Txn, client \in Client, pkce \in BOOLEAN : Ask(t, client, pkce)
    \/ \E t \in Txn : Reopen(t)
    \/ \E c \in Code, t \in Txn : MakeCode(c, t)
    \/ \E c \in Code, proof \in {"matching", "other"} : Answer(c, proof)

Spec == Init /\ [][Next]_grant
================================================================================
