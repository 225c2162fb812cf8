----------------------------- MODULE Envelopes -----------------------------
(***************************************************************************)
(* Decision envelopes and atomic plans (envelope/): the values a manifest's *)
(* parameters may take, when one envelope is narrower than another, the    *)
(* substitution of choices, and membership in a sealed causal graph.       *)
(***************************************************************************)
EXTENDS Trust

\* A parameter's value: its Python type and its number (a string's name).
Value(type, id) == [type |-> type, id |-> id]

\* Python's ==, under which True is 1 and False is 0.
Equal(v, w) ==
    /\ v.id = w.id
    /\ v.type = w.type \/ {v.type, w.type} = {"int", "bool"}

In(v, values) == \E w \in values : Equal(v, w)

IsInt(v) == v.type = "int"

-----------------------------------------------------------------------------
(* Constraints.  values holds the exact value or the allow-list, min and   *)
(* max the optional bounds, currency the optional currency.                *)

Exact(v) == [kind |-> "exact", values |-> {v}, min |-> Nothing, max |-> Nothing, currency |-> Nothing]

EnumOf(values) ==
    [kind |-> "enum", values |-> values, min |-> Nothing, max |-> Nothing, currency |-> Nothing]

IntegerRange(min, max) ==
    [kind |-> "integer_range", values |-> {}, min |-> min, max |-> max, currency |-> Nothing]

MonetaryRange(currency, min, max) ==
    [kind |-> "monetary_range", values |-> {}, min |-> min, max |-> max, currency |-> Just(currency)]

Ranges == {"integer_range", "monetary_range"}

\* _validate_shape; an enum's values are pairwise different under ==.
ValidShape(c) ==
    CASE c.kind = "exact" -> Cardinality(c.values) = 1 /\ c.min \cup c.max \cup c.currency = {}
      [] c.kind = "enum"  -> /\ c.values # {} /\ c.min \cup c.max \cup c.currency = {}
                             /\ \A v, w \in c.values : Equal(v, w) => v = w
      [] c.kind \in Ranges -> /\ c.values = {} /\ c.min \cup c.max # {}
                              /\ \A lo \in c.min, hi \in c.max : lo <= hi
                              /\ (c.currency # Nothing) = (c.kind = "monetary_range")

InBounds(n, c) == (\A lo \in c.min : n >= lo) /\ (\A hi \in c.max : n <= hi)

\* A range takes an int and not a bool; an allow-list compares with ==.
Accepts(c, v) == IF c.kind \in Ranges THEN IsInt(v) /\ InBounds(v.id, c) ELSE In(v, c.values)

\* A mutant of BoundsNarrower for which an open bound is never wider.
BoundsNarrowerIfGiven(child, parent) ==
    /\ \A lo \in parent.min : \A l \in child.min : l >= lo
    /\ \A hi \in parent.max : \A h \in child.max : h <= hi

BoundsNarrower(child, parent) ==
    /\ \A lo \in parent.min : child.min # Nothing /\ \A l \in child.min : l >= lo
    /\ \A hi \in parent.max : child.max # Nothing /\ \A h \in child.max : h <= hi

\* assert_constraint_narrower_or_equal: kinds it cannot compare are refused.
ConstraintNarrower(child, parent) ==
    CASE child.kind = "exact"  -> \A v \in child.values : Accepts(parent, v)
      [] parent.kind = "exact" -> FALSE
      [] child.kind = "enum"   -> \A v \in child.values : Accepts(parent, v)
      [] OTHER -> /\ child.kind = parent.kind
                  /\ child.currency = parent.currency
                  /\ BoundsNarrower(child, parent)

-----------------------------------------------------------------------------
(* Envelopes.  constraints is a function from parameter names; strict is   *)
(* forbid_unknown_parameters and complete                                  *)
(* require_all_constrained_parameters.                                     *)

ValidEnvelope(e) ==
    /\ MayIssue(e.issuer)
    /\ e.targets # {}
    /\ e.until > e.from
    /\ \A name \in DOMAIN e.constraints : ValidShape(e.constraints[name])

\* assert_manifest_fits_envelope.
Fits(manifest, e) ==
    /\ manifest.effect = e.effect /\ manifest.adapter = e.adapter
    /\ manifest.target \in e.targets
    /\ e.strict => DOMAIN manifest.parameters \subseteq DOMAIN e.constraints
    /\ e.complete => DOMAIN e.constraints \subseteq DOMAIN manifest.parameters
    /\ \A name \in DOMAIN e.constraints \cap DOMAIN manifest.parameters :
          Accepts(e.constraints[name], manifest.parameters[name])
    /\ \A cap \in e.cost :
          manifest.cost # Nothing /\ \A c \in manifest.cost : c.currency = cap.currency /\ c.units <= cap.units

\* assert_envelope_narrower_or_equal.
EnvelopeNarrower(child, parent) ==
    /\ child.effect = parent.effect /\ child.adapter = parent.adapter
    /\ child.targets \subseteq parent.targets
    /\ \A cap \in parent.cost :
          child.cost # Nothing /\ \A c \in child.cost : c.currency = cap.currency /\ c.units <= cap.units
    /\ child.plan = parent.plan
    /\ parent.strict => child.strict
    /\ parent.complete => child.complete
    /\ DOMAIN parent.constraints \subseteq DOMAIN child.constraints
    /\ \A name \in DOMAIN parent.constraints :
          ConstraintNarrower(child.constraints[name], parent.constraints[name])
    /\ child.until <= parent.until /\ child.from >= parent.from

\* verify_decision_envelope: [from, until).
VerifyDecisionEnvelope(e, keyring, now) ==
    Verifies(keyring, e.key) /\ e.from <= now /\ now < e.until

\* substitute_parameters: the only complete choice, when there is one.
Substitutable(e, choices) ==
    /\ DOMAIN choices \subseteq DOMAIN e.constraints
    /\ \A name \in DOMAIN e.constraints :
          /\ e.constraints[name].kind = "exact" \/ name \in DOMAIN choices
          /\ name \in DOMAIN choices => Accepts(e.constraints[name], choices[name])

SubstituteParameters(e, choices) ==
    [name \in DOMAIN e.constraints |->
        IF e.constraints[name].kind = "exact" THEN CHOOSE v \in e.constraints[name].values : TRUE
        ELSE choices[name]]

-----------------------------------------------------------------------------
(* Plans: a sealed causal graph, by its nodes and the keys of its links.   *)

AssertManifestInPlan(manifest, graph, keyring) ==
    /\ \A key \in graph.keys : Verifies(keyring, key)
    /\ manifest \in graph.nodes

RequireMatchingPlanHash(graph, expected) == Just(graph) = expected
=============================================================================
