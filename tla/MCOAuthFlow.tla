----------------------------- MODULE MCOAuthFlow -----------------------------
(* OAuthFlow on small sets: two clients, each declaring one redirect URI of *)
(* its own.                                                                 *)
EXTENDS OAuthFlow, FiniteSets, TLC

CONSTANTS c1, c2, u1, u2

MCRedirects == [c \in Client |-> IF c = c1 THEN {u1} ELSE {u2}]

Has(atomicTake, instances, txns, codes, maxTime) ==
    {[atomicTake |-> atomicTake, instances |-> i, txns |-> t, codes |-> c,
      maxTime |-> maxTime] :
        i \in {x \in SUBSET Instance : Cardinality(x) = instances},
        t \in {x \in SUBSET Txn : Cardinality(x) = txns},
        c \in {x \in SUBSET Code : Cardinality(x) = codes}}

\* One transaction and its codes on two instances; transactions of two clients
\* on one; and a storage without take().
MCDeployment ==
    Has(TRUE, 2, 1, 2, 1) \cup Has(TRUE, 1, 2, 2, 0) \cup Has(FALSE, 1, 1, 1, 1)

Single == Has(TRUE, 1, 1, 2, 1)

\* Ids within a pool, instances and slots are interchangeable, ...
Symmetry == Permutations(Instance) \cup Permutations(Slot)
              \cup Permutations(Txn) \cup Permutations(Code)

\* ... and so are the clients, together with their redirect URIs.
ClientSwap == c1 :> c2 @@ c2 :> c1 @@ u1 :> u2 @@ u2 :> u1
ClientSymmetry == Symmetry \cup {ClientSwap}
==============================================================================
