----------------------------- MODULE Lifecycle -----------------------------
(***************************************************************************)
(* The lifecycle of an effect manifest: the states and the table of legal  *)
(* transitions of karmasakshi.state_machine.states.  Every transition the  *)
(* engine makes is checked against this table, so every module that moves  *)
(* a manifest through its lifecycle uses it.                               *)
(***************************************************************************)

LifecycleState ==
    {"proposed", "prepared", "sealed", "authorized", "committing", "committed",
     "verified", "failed", "recovered_committed", "revoked", "expired",
     "compensating", "compensated"}

\* States in which a revocation still stops the effect.
REVOCABLE_STATES == {"proposed", "prepared", "sealed", "authorized"}

\* TRANSITIONS as the set of its edges <<current, target>>.
TRANSITIONS ==
    ({"proposed"}     \X {"prepared", "failed", "revoked"})
    \cup ({"prepared"}     \X {"sealed", "failed", "revoked", "expired"})
    \cup ({"sealed"}       \X {"authorized", "failed", "revoked", "expired"})
    \cup ({"authorized"}   \X {"committing", "failed", "revoked", "expired"})
    \cup ({"committing"}   \X {"committed", "failed"})
    \cup ({"committed"}    \X {"verified"})
    \cup ({"verified"}     \X {"compensating", "compensated"})
    \cup ({"compensating"} \X {"compensated", "failed"})
    \cup ({"failed"}       \X {"recovered_committed"})

IsLegalTransition(current, target) == <<current, target>> \in TRANSITIONS

IsRevocable(current) == current \in REVOCABLE_STATES
=============================================================================
