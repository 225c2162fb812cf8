------------------------------- MODULE Grants -------------------------------
(***************************************************************************)
(* Execution grants (grants/), their attenuation and the walk over the     *)
(* recorded lineage at commit (delegation/).                               *)
(***************************************************************************)
EXTENDS Trust, Sequences

MAX_DELEGATION_DEPTH == 16

-----------------------------------------------------------------------------
(* The grant.  A scope is a function from the allow-list dimensions to an  *)
(* optional set and, for max_amount, to an optional amount; Nothing is     *)
(* "unrestricted".                                                         *)

AllowLists == {"target_resources", "recipients", "allowed_fields", "environments"}

Amount(currency, units) == [currency |-> currency, units |-> units]

Scope(lists, amount) == [lists |-> lists, amount |-> amount]

\* An explicit empty allow-list is refused by the model.
ValidScope(scope) == \A d \in AllowLists : \A list \in scope.lists[d] : list # {}

ValidGrant(g) ==
    /\ g.until > g.from
    /\ g.uses >= 1
    /\ g.audience # {} /\ g.effects # {}
    /\ ValidScope(g.scope)
    /\ g.envelope = Nothing \/ g.plan = Nothing

\* issue_grant: an agent never mints a grant.
IssueGrant(g) == MayIssue(g.issuer) /\ ValidGrant(g)

\* verify_grant: the signature, then the window with its leeway on both sides.
VerifyGrantTimeWindow(g, now, leeway) == now + leeway >= g.from /\ now <= g.until + leeway

VerifyGrant(g, keyring, now, leeway) ==
    Verifies(keyring, g.key) /\ VerifyGrantTimeWindow(g, now, leeway)

-----------------------------------------------------------------------------
(* Attenuation.                                                            *)

\* A child may not drop a list its parent has, nor add a member to it.
AllowListNarrower(child, parent) ==
    \A p \in parent : child # Nothing /\ \A c \in child : c \subseteq p

\* Amounts in two currencies are not comparable: as bad as a widening.
AmountNarrower(child, parent) ==
    \A p \in parent :
        child # Nothing /\ \A c \in child : c.currency = p.currency /\ c.units <= p.units

ScopeNarrower(child, parent) ==
    /\ \A d \in AllowLists : AllowListNarrower(child.lists[d], parent.lists[d])
    /\ AmountNarrower(child.amount, parent.amount)

\* A child may bind a budget of its own but not leave its parent's.
BudgetNarrower(child, parent) == parent # Nothing => child = parent

\* A mutant of GrantNarrower that forgets the expiry.
GrantNarrowerButLater(child, parent) ==
    /\ child.from >= parent.from /\ child.uses <= parent.uses
    /\ child.audience \subseteq parent.audience /\ child.effects \subseteq parent.effects
    /\ ScopeNarrower(child.scope, parent.scope) /\ BudgetNarrower(child.budget, parent.budget)

GrantNarrower(child, parent) ==
    /\ child.until <= parent.until
    /\ child.from >= parent.from
    /\ child.uses <= parent.uses
    /\ child.audience \subseteq parent.audience
    /\ child.effects \subseteq parent.effects
    /\ ScopeNarrower(child.scope, parent.scope)
    /\ BudgetNarrower(child.budget, parent.budget)

\* verify_delegation_chain, root first.
VerifyDelegationChain(chain, keyring, revoked, now, leeway) ==
    /\ chain # << >>
    /\ chain[1].parent = Nothing
    /\ \A i \in DOMAIN chain :
          VerifyGrant(chain[i], keyring, now, leeway) /\ chain[i].id \notin revoked
    /\ \A i \in 1..(Len(chain) - 1) :
          chain[i + 1].parent = Just(chain[i].id) /\ GrantNarrower(chain[i + 1], chain[i])

-----------------------------------------------------------------------------
(* assert_no_revoked_ancestors.  lineage is a function from the grants the *)
(* store has a row for to the optional parent in that row.                 *)

RecordLineage(lineage, id, parent) ==
    [g \in DOMAIN lineage \cup {id} |-> IF g = id THEN parent ELSE lineage[g]]

GetParent(lineage, id) == IF id \in DOMAIN lineage THEN lineage[id] ELSE Nothing

\* A mutant of Walk that stops at the direct parent.
WalkOneStep(w, lineage, revoked, limit) ==
    LET id == CHOOSE x \in w.next : TRUE IN
    [w EXCEPT !.verdict = IF id \in revoked THEN "revoked" ELSE @, !.next = Nothing]

\* One turn of the loop.
Walk(w, lineage, revoked, limit) ==
    LET id == CHOOSE x \in w.next : TRUE IN
    IF w.depth + 1 > limit \/ id \in w.seen THEN [w EXCEPT !.verdict = "uncertain", !.next = Nothing]
    ELSE IF id \in revoked THEN [w EXCEPT !.verdict = "revoked", !.next = Nothing]
    ELSE IF id \notin DOMAIN lineage THEN [w EXCEPT !.verdict = "uncertain", !.next = Nothing]
    ELSE [w EXCEPT !.depth = @ + 1, !.seen = @ \cup {id}, !.next = GetParent(lineage, id)]

\* The verdict on the ancestors of g: "clear", "revoked" or "uncertain".
Ancestors(g, lineage, revoked, limit) ==
    LET walk[n \in 0..(limit + 1)] ==
            IF n = 0 THEN [verdict |-> "clear", depth |-> 0, seen |-> {g.id}, next |-> g.parent]
            ELSE LET w == walk[n - 1]
                 IN  IF w.next = Nothing THEN w ELSE Walk(w, lineage, revoked, limit)
    IN  walk[limit + 1].verdict
=============================================================================
