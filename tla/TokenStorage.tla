----------------------------- MODULE TokenStorage -----------------------------
(***************************************************************************)
(* What the TokenStorage interface of auth/types.ts promises about take(): *)
(* it retrieves a value and deletes it atomically, and at most one caller  *)
(* ever observes a given value.  Every save() stores a value of its own; a *)
(* storage may lose values (they expire, are overwritten or deleted, or    *)
(* their save fails) but no value comes back.                              *)
(***************************************************************************)
CONSTANT Value

VARIABLE life \* life[v]: how far value v has come

Life == {"new", "stored", "claimed", "observed", "gone"}

\* take() removes the value for its one caller before that caller observes it.
Later(s) ==
    CASE s = "new"      -> {"stored", "claimed", "gone"}
      [] s = "stored"   -> {"claimed", "gone"}
      [] s = "claimed"  -> {"observed", "gone"}
      [] s = "observed" -> {}
      [] s = "gone"     -> {}

Init == life = [v \in Value |-> "new"]

\* A save takes effect; what it overwrites is gone.
Save(v, old) ==
    /\ life[v] = "new"
    /\ \A o \in old : life[o] \in {"stored", "claimed"}
    /\ \E s \in Later("new") :
          life' = [x \in Value |-> IF x = v THEN s
                                   ELSE IF x \in old THEN "gone" ELSE life[x]]

Claim(v) == life[v] = "stored" /\ life' = [life EXCEPT ![v] = "claimed"]

Observe(v) == life[v] = "claimed" /\ life' = [life EXCEPT ![v] = "observed"]

Lose(lost) ==
    /\ \A v \in lost : "gone" \in Later(life[v])
    /\ life' = [v \in Value |-> IF v \in lost THEN "gone" ELSE life[v]]

Next ==
    \/ \E v \in Value, old \in SUBSET Value : Save(v, old)
    \/ \E v \in Value : Claim(v) \/ Observe(v)
    \/ \E lost \in SUBSET Value : Lose(lost)

Spec == Init /\ [][Next]_life
===============================================================================
