------------------------------ MODULE WorkItem ------------------------------
(***************************************************************************)
(* The work item of packages/core: its columns, the claim rule and the     *)
(* table of lifecycle transitions.  Title, description and the item's id   *)
(* are payload and are left out; an item is named by its key on the board. *)
(***************************************************************************)
CONSTANTS
    Members,     \* ids of principals, human or agent
    Roles,       \* the role names a member can hold and an item can require
    Priorities,  \* the priorities a publisher may give
    NoMember,    \* assigneeMemberId = null
    NoRole,      \* requiredRole = null
    BlankRole    \* the empty string, a legal (and falsy) role name

LifecycleStates ==
    {"open", "claimed", "in_progress", "blocked", "done", "cancelled"}

WorkItemProps ==
    [state : LifecycleStates, assignee : Members \cup {NoMember},
     requiredRole : Roles \cup {NoRole}, priority : Priorities]

\* WorkItem.create as the publish route calls it.
Create(role, priority) ==
    [state |-> "open", assignee |-> NoMember,
     requiredRole |-> role, priority |-> priority]

\* `this._requiredRole && ...`: null and "" both count as "not gated".
Gated(item) == item.requiredRole \notin {NoRole, BlankRole}

CanBeClaimedBy(item, roles) ==
    /\ item.state = "open"
    /\ Gated(item) => item.requiredRole \in roles

ClaimBy(item, member) ==
    [item EXCEPT !.state = "claimed", !.assignee = member]

\* start, complete, block, unblock and cancel: each is legal from some
\* states, throws WorkItemTransitionError from the others, and changes
\* nothing but the state.
Lifecycle ==
    [start    |-> [from |-> {"claimed"},     to |-> "in_progress"],
     complete |-> [from |-> {"in_progress"}, to |-> "done"],
     block    |-> [from |-> {"in_progress"}, to |-> "blocked"],
     unblock  |-> [from |-> {"blocked"},     to |-> "in_progress"],
     cancel   |-> [from |-> {"open", "claimed", "in_progress", "blocked"},
                   to   |-> "cancelled"]]

\* Mutant: transitions are not guarded.
CanApplyUnguarded(item, act) == TRUE

CanApply(item, act) == item.state \in Lifecycle[act].from

Apply(item, act) == [item EXCEPT !.state = Lifecycle[act].to]
=============================================================================
