------------------------------- MODULE Trust -------------------------------
(***************************************************************************)
(* What makes a presented object trustworthy: the keyring                  *)
(* (crypto/keyring.py), sealed policy bundles (policy/bundle.py,           *)
(* policy/sealing.py), the binding of tenants (tenant/enforce.py) and the  *)
(* registry of adapters (adapters/registry.py).                            *)
(*                                                                         *)
(* Signatures are ideal: an object carries the key that signed it and      *)
(* cannot be changed afterwards, so that a hash names one object.  Times   *)
(* are ticks of the engine's clock.  An optional value is a set with at    *)
(* most one element.                                                       *)
(***************************************************************************)
EXTENDS Naturals, FiniteSets

Nothing == {}
Just(x) == {x}

\* Keyring.verify: a key that was removed verifies nothing any more.
Verifies(keyring, key) == key \in keyring

-----------------------------------------------------------------------------
(* Principals.                                                             *)

PrincipalTypes == {"human", "service", "agent"}

\* Agents request; they issue no grant, bundle, envelope or statement.
MayIssue(principal) == principal.type # "agent"

-----------------------------------------------------------------------------
(* Policy bundles.                                                         *)

PolicyTypes == {"intelligence.v1", "approval.v1", "separation.v1"}

PolicyBundle(id, type, payload, tenant, from, until, key) ==
    [id |-> id, type |-> type, payload |-> payload, tenant |-> tenant,
     from |-> from, until |-> until, key |-> key]

ValidBundle(b) ==
    /\ b.type \in PolicyTypes
    /\ \A u \in b.until : u > b.from

IsEffectiveAt(b, now) == now >= b.from /\ \A u \in b.until : now < u

\* expected_policy_type is optional.
VerifyPolicyBundle(b, keyring, now, expected) ==
    /\ Verifies(keyring, b.key)
    /\ \A type \in expected : b.type = type
    /\ IsEffectiveAt(b, now)

\* A tenant on one side only is as bad as two different ones.
AssertTenantMatch(expected, presented) == expected = presented

EnforcePolicyTenant(bundle, tenant) ==
    AssertTenantMatch(tenant, UNION {b.tenant : b \in bundle})

-----------------------------------------------------------------------------
(* The registry of trusted adapters, a function from the exact pair of     *)
(* identifier and version to the declared effect types and a revocation.   *)

Capability(effects) == [effects |-> effects, revoked |-> FALSE]

\* Registering again clears a revocation.
Register(registry, adapter, effects) ==
    [a \in DOMAIN registry \cup {adapter} |->
        IF a = adapter THEN Capability(effects) ELSE registry[a]]

\* Only a known adapter can be revoked.
RevokeAdapter(registry, adapter) == [registry EXCEPT ![adapter].revoked = TRUE]

RequireAdapter(registry, adapter) ==
    adapter \in DOMAIN registry /\ ~ registry[adapter].revoked

RequireEffect(registry, adapter, effect) ==
    RequireAdapter(registry, adapter) /\ effect \in registry[adapter].effects

\* _require_trusted_adapter: an engine without a registry trusts any adapter.
RequireTrustedAdapter(registry, adapter, effect) ==
    \A r \in registry :
        IF effect = Nothing THEN RequireAdapter(r, adapter)
        ELSE \A e \in effect : RequireEffect(r, adapter, e)
=============================================================================
