----------------------------- MODULE EffectOnce -----------------------------
(***************************************************************************)
(* What the engine promises about an effect, without threads, stores or    *)
(* processes: a manifest is claimed for execution at most once, a claimed  *)
(* manifest is handed to the provider at most once, a manifest revoked     *)
(* before it was claimed is never executed, and an outcome is recorded for *)
(* an idempotency key only after the provider settled it.                  *)
(***************************************************************************)
CONSTANTS Manifests, Keys, KeyOf

VARIABLES
    phase,      \* manifest -> open, claimed, executed or void
    world,      \* key -> none, settled or failed
    outcome     \* keys with a recorded outcome

vars == <<phase, world, outcome>>

Init ==
    /\ phase = [m \in Manifests |-> "open"]
    /\ world = [k \in Keys |-> "none"]
    /\ outcome = {}

Become(m, p, q) == phase[m] = p /\ phase' = [phase EXCEPT ![m] = q]

Claim(m) == Become(m, "open", "claimed") /\ UNCHANGED <<world, outcome>>

Void(m) == Become(m, "open", "void") /\ UNCHANGED <<world, outcome>>

\* What a provider has decided for a key it does not change.
Execute(m) ==
    /\ Become(m, "claimed", "executed")
    /\ \/ UNCHANGED world
       \/ /\ world[KeyOf[m]] = "none"
          /\ \E r \in {"settled", "failed"} : world' = [world EXCEPT ![KeyOf[m]] = r]
    /\ UNCHANGED outcome

Record(k) ==
    /\ world[k] = "settled"
    /\ outcome' = outcome \cup {k}
    /\ UNCHANGED <<phase, world>>

Next ==
    \/ \E m \in Manifests : Claim(m) \/ Void(m) \/ Execute(m)
    \/ \E k \in Keys : Record(k)

Spec == Init /\ [][Next]_vars
=============================================================================
