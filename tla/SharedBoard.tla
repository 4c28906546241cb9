----------------------------- MODULE SharedBoard -----------------------------
(***************************************************************************)
(* What the shared board promises (docs/epics/05: "A published item can be *)
(* claimed exactly once"), with no process, transaction or row in sight:   *)
(* an item appears, is handed to one member who keeps it for ever, and its *)
(* claim is credited at most once, to that member.  WorkBoard implements   *)
(* this specification.                                                     *)
(***************************************************************************)
CONSTANTS Items, Members, NoMember, Unpublished

VARIABLES
    owner,     \* who holds each item: Unpublished, NoMember, or a member
    credited   \* the claims on record: pairs <<item, member>>

vars == <<owner, credited>>

Init ==
    /\ owner = [i \in Items |-> Unpublished]
    /\ credited = {}

Publish(i) ==
    /\ owner[i] = Unpublished
    /\ owner' = [owner EXCEPT ![i] = NoMember]
    /\ UNCHANGED credited

Claim(i, m) ==
    /\ owner[i] = NoMember
    /\ owner' = [owner EXCEPT ![i] = m]
    /\ UNCHANGED credited

Credit(i) ==
    /\ owner[i] \in Members
    /\ \A m \in Members : <<i, m>> \notin credited
    /\ credited' = credited \cup {<<i, owner[i]>>}
    /\ UNCHANGED owner

Next ==
    \E i \in Items :
        \/ Publish(i)
        \/ \E m \in Members : Claim(i, m)
        \/ Credit(i)

Spec == Init /\ [][Next]_vars
=============================================================================
