---------------------------- MODULE PolicyEngine ----------------------------
(***************************************************************************)
(* The authorization decision (packages/governance/src/authz): a function  *)
(* of the policy, of the roles the member object carries and of the        *)
(* relationships the caller passes.                                        *)
(***************************************************************************)
CONSTANTS
    Roles, Relationships,
    Unclassified,    \* an action the policy does not name
    NoGate           \* a gate that is left out

Consequences == {"routine", "consequential", "irreversible"}

ActionDefinitions ==
    [consequence: Consequences,
     requiredRoles: SUBSET Roles \cup {NoGate},
     requiredRelationship: Relationships \cup {NoGate}]

\* Mutant: an empty list of roles is taken for no gate.
EligibleUnlessListed(action, roles, relationships) ==
    /\ action.requiredRoles \in {NoGate, {}} \/ action.requiredRoles \cap roles # {}
    /\ action.requiredRelationship \in relationships \cup {NoGate}

\* Any of the required roles, and the required relationship.  An empty list of
\* roles is a gate nobody passes.
Eligible(action, roles, relationships) ==
    /\ action.requiredRoles = NoGate \/ action.requiredRoles \cap roles # {}
    /\ action.requiredRelationship \in relationships \cup {NoGate}

\* Mutant: only what cannot be undone needs approval.
DecideByIrreversibility(consequence) ==
    IF consequence = "irreversible" THEN "requires_approval" ELSE "allow"

DecideByConsequence(consequence) ==
    IF consequence = "routine" THEN "allow" ELSE "requires_approval"

Authorize(action, roles, relationships) ==
    IF action = Unclassified \/ ~Eligible(action, roles, relationships)
      THEN "deny"
      ELSE DecideByConsequence(action.consequence)
=============================================================================
