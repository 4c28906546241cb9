------------------------------ MODULE WorkBoard ------------------------------
(***************************************************************************)
(* The shared board in operation: the work_items, members and activities   *)
(* tables of Postgres, the HTTP handlers of apps/server that publish,      *)
(* claim, start and complete items, and the AgentRunner of packages/agent  *)
(* that claims and completes them.  A process is one HTTP request or one   *)
(* runner; it takes one step per awaited database statement, so that the   *)
(* statements of all processes interleave.  A statement is atomic; the two *)
(* statements of claimNext's transaction are separate steps, the selected  *)
(* row staying locked in between.                                          *)
(***************************************************************************)
EXTENDS WorkItem, Naturals, Sequences, FiniteSets

CONSTANTS
    Items,         \* the work item ids randomUUID may draw
    Requests,      \* HTTP requests the server works on at a time
    Runners,       \* AgentRunner instances
    Users,         \* the members who can log in, hence send requests
    AgentOf,       \* the agent each runner works for
    Unregistered,  \* no row in members
    NoItem,        \* the job names no item
    Times,         \* bound: what the database's clock may say
    Off,           \* a runner that has not been built
    OneRequestPerUser,  \* do users wait for an answer before the next call?
    Failures            \* may a statement or a process fail half-way?

Procs == Requests \cup Runners

Acts == {"publish", "claim", "start", "complete"}

ASSUME ConstantsAssumption ==
    /\ IsFiniteSet(Items)
    /\ NoMember \notin Members
    /\ NoRole \notin Roles
    /\ NoItem \notin Items
    /\ \A roles \in SUBSET Roles : roles # Unregistered /\ roles # Off
    /\ Unregistered \notin Members \cup {NoMember}
    /\ Requests \cap Runners = {}
    /\ AgentOf \in [Runners -> Members \ Users]
    /\ Users \subseteq Members
    /\ Priorities \subseteq Nat
    /\ 0 \in Priorities
    /\ Times \subseteq Nat
    /\ OneRequestPerUser \in BOOLEAN
    /\ Failures \in BOOLEAN

VARIABLES
    members,   \* the members table: each member's roles, or Unregistered
    board,     \* the work_items table; a row in state "absent" is no row
    created,   \* its created_at column, set by the insert
    arrived,   \* history: the order in which rows were inserted; 0: no row
    trail,     \* the activities table, by resource and in order
    agent,     \* the roles in the Member object each runner was built with
    pc,        \* where each process is
    job,       \* the local variables of each process
    held       \* history: every role each member ever had in the table

vars == <<members, board, arrived, created, trail, agent, pc, job, held>>

NoRow == [state |-> "absent", assignee |-> NoMember,
          requiredRole |-> NoRole, priority |-> 0]

NoJob == [actor |-> NoMember, roles |-> {}, act |-> "none",
          item |-> NoItem, copy |-> NoRow]

Rows == WorkItemProps \cup {NoRow}

Jobs == [actor : Members \cup {NoMember}, roles : SUBSET Roles,
         act : Acts \cup {"none"}, item : Items \cup {NoItem}, copy : Rows]

PcLabels ==
    {"idle", "select", "commit", "read", "save", "record", "reason"}

Records == [act : Acts, by : Members]

TypeOK ==
    /\ members \in [Members -> (SUBSET Roles) \cup {Unregistered}]
    /\ board \in [Items -> Rows]
    /\ created \in [Items -> Nat]
    /\ arrived \in [Items -> 0 .. Cardinality(Items)]
    /\ trail \in [Items -> Seq(Records)]
    /\ agent \in [Runners -> (SUBSET Roles) \cup {Off}]
    /\ pc \in [Procs -> PcLabels]
    /\ job \in [Procs -> Jobs]
    /\ held \in [Members -> SUBSET Roles]

Init ==
    /\ members = [m \in Members |-> Unregistered]
    /\ board = [i \in Items |-> NoRow]
    /\ created = [i \in Items |-> 0]
    /\ arrived = [i \in Items |-> 0]
    /\ trail = [i \in Items |-> <<>>]
    /\ agent = [r \in Runners |-> Off]
    /\ pc = [p \in Procs |-> "idle"]
    /\ job = [p \in Procs |-> NoJob]
    /\ held = [m \in Members |-> {}]

-----------------------------------------------------------------------------
(* Helpers *)

Registered(m) == members[m] # Unregistered

\* p's transaction holds the row lock taken by SELECT ... FOR UPDATE.
Holds(p, i) == pc[p] = "commit" /\ job[p].item = i

Locked(i) == \E p \in Procs : Holds(p, i)

\* The handler answers, or the runner's turn ends; local variables are gone.
Finish(p) ==
    /\ pc' = [pc EXCEPT ![p] = "idle"]
    /\ job' = [job EXCEPT ![p] = NoJob]

\* The handler has resolved the session token to a row of members and goes on
\* with its own copy of that row.
Accept(p, m, label, act, item, copy) ==
    /\ pc[p] = "idle"
    /\ Registered(m)
    /\ OneRequestPerUser => \A q \in Requests : job[q].actor # m
    /\ pc' = [pc EXCEPT ![p] = label]
    /\ job' = [job EXCEPT ![p] =
                 [actor |-> m, roles |-> members[m], act |-> act,
                  item |-> item, copy |-> copy]]

-----------------------------------------------------------------------------
(* HTTP requests *)

\* POST /work-items: a new item under a fresh id.
PublishRequest(p, m, i, role, priority) ==
    /\ arrived[i] = 0
    /\ \A q \in Procs : ~(job[q].act = "publish" /\ job[q].item = i)
    /\ Accept(p, m, "save", "publish", i, Create(role, priority))
    /\ UNCHANGED <<members, board, arrived, created, trail, agent, held>>

\* POST /work-items/claim-next
ClaimRequest(p, m) ==
    /\ Accept(p, m, "select", "claim", NoItem, NoRow)
    /\ UNCHANGED <<members, board, arrived, created, trail, agent, held>>

\* POST /work-items/:id/start and /complete
TransitionRequest(p, m, act, i) ==
    /\ Accept(p, m, "read", act, i, NoRow)
    /\ UNCHANGED <<members, board, arrived, created, trail, agent, held>>

\* POST /members: the upsert that registers a member or replaces its roles.
\* It needs no session and runs as one statement.
UpsertMember(m, roles) ==
    /\ members' = [members EXCEPT ![m] = roles]
    /\ held' = [held EXCEPT ![m] = @ \cup roles]
    /\ UNCHANGED <<board, arrived, created, trail, agent, pc, job>>

-----------------------------------------------------------------------------
(* claimNext *)

\* Mutant: the query forgets the unrestricted items.
EligibleRoleGatedOnly(i, roles) == board[i].requiredRole \in roles

\* The WHERE clause: SQL compares the required role as it is stored.
EligibleRole(i, roles) ==
    board[i].requiredRole = NoRole \/ board[i].requiredRole \in roles

\* Mutant: a plain SELECT, without FOR UPDATE SKIP LOCKED.
CandidatesUnlocked(p) ==
    {i \in Items : board[i].state = "open" /\ EligibleRole(i, job[p].roles)}

Candidates(p) ==
    {i \in Items : /\ board[i].state = "open"
                   /\ EligibleRole(i, job[p].roles)
                   /\ ~Locked(i)}

\* Mutant: ORDER BY priority ASC.
PrecedesAscending(i, j) ==
    \/ board[i].priority < board[j].priority
    \/ /\ board[i].priority = board[j].priority
       /\ created[i] < created[j]

\* ORDER BY priority DESC, created_at ASC
Precedes(i, j) ==
    \/ board[i].priority > board[j].priority
    \/ /\ board[i].priority = board[j].priority
       /\ created[i] < created[j]

SelectNone(p) ==
    /\ pc[p] = "select"
    /\ Candidates(p) = {}
    /\ Finish(p)
    /\ UNCHANGED <<members, board, arrived, created, trail, agent, held>>

\* SELECT ... LIMIT 1 FOR UPDATE SKIP LOCKED
Select(p) ==
    /\ pc[p] = "select"
    /\ \E i \in Candidates(p) :
         /\ \A j \in Candidates(p) : ~Precedes(j, i)
         /\ job' = [job EXCEPT ![p].item = i, ![p].copy = board[i]]
    /\ pc' = [pc EXCEPT ![p] = "commit"]
    /\ UNCHANGED <<members, board, arrived, created, trail, agent, held>>

\* claimBy accepts, and the foreign key of assignee_member_id holds.
ClaimAccepted(p) ==
    /\ CanBeClaimedBy(job[p].copy, job[p].roles)
    /\ Registered(job[p].actor)

\* UPDATE of state and assignee, COMMIT.
Commit(p) ==
    /\ pc[p] = "commit"
    /\ ClaimAccepted(p)
    /\ LET claimed == ClaimBy(job[p].copy, job[p].actor)
       IN  /\ board' = [board EXCEPT ![job[p].item].state = claimed.state,
                                     ![job[p].item].assignee = claimed.assignee]
           /\ job' = [job EXCEPT ![p].copy = claimed]
    /\ pc' = [pc EXCEPT ![p] = "record"]
    /\ UNCHANGED <<members, arrived, created, trail, agent, held>>

\* The domain object or the foreign key refuses: ROLLBACK, the call throws.
Rollback(p) ==
    /\ pc[p] = "commit"
    /\ ~ClaimAccepted(p)
    /\ Finish(p)
    /\ UNCHANGED <<members, board, arrived, created, trail, agent, held>>

-----------------------------------------------------------------------------
(* start and complete *)

\* Mutant: the handler forgets the assignee check.
MayTransitionAnyone(p) ==
    LET row == board[job[p].item]
    IN  row.state # "absent" /\ CanApply(row, job[p].act)

\* findById, the assignee check, and the domain transition on the row read.
MayTransition(p) ==
    LET row == board[job[p].item]
    IN  /\ row.state # "absent"
        /\ row.assignee = job[p].actor
        /\ CanApply(row, job[p].act)

Read(p) ==
    /\ pc[p] = "read"
    /\ MayTransition(p)
    /\ job' = [job EXCEPT ![p].copy = Apply(board[job[p].item], job[p].act)]
    /\ pc' = [pc EXCEPT ![p] = "save"]
    /\ UNCHANGED <<members, board, arrived, created, trail, agent, held>>

\* 404, 403 or 409.
Refuse(p) ==
    /\ pc[p] = "read"
    /\ ~MayTransition(p)
    /\ Finish(p)
    /\ UNCHANGED <<members, board, arrived, created, trail, agent, held>>

-----------------------------------------------------------------------------
(* The statements every operation ends with *)

\* An insert gets the time its transaction began at, an update leaves it.
\* Overlapping inserts become visible in any order, and clocks are set: the time
\* says nothing of the order of arrival.
Stamp(i) ==
    IF arrived[i] # 0 THEN UNCHANGED <<arrived, created>>
    ELSE /\ arrived' = [arrived EXCEPT ![i] =
                           Cardinality({j \in Items : arrived[j] # 0}) + 1]
         /\ \E now \in Times : created' = [created EXCEPT ![i] = now]

\* Mutant: the handler answers without recording the transition.
SaveUnrecorded(p) ==
    /\ pc[p] = "save"
    /\ ~Locked(job[p].item)
    /\ board' = [board EXCEPT ![job[p].item] = job[p].copy]
    /\ Stamp(job[p].item)
    /\ Finish(p)
    /\ UNCHANGED <<members, trail, agent, held>>

\* DrizzleWorkItemRepository.save: an upsert of the whole row, whatever the
\* row has become since; created_at is set by the insert alone.  The upsert
\* waits for a row lock.
Save(p) ==
    /\ pc[p] = "save"
    /\ ~Locked(job[p].item)
    /\ board' = [board EXCEPT ![job[p].item] = job[p].copy]
    /\ Stamp(job[p].item)
    /\ pc' = [pc EXCEPT ![p] = "record"]
    /\ UNCHANGED <<members, trail, agent, job, held>>

\* DrizzleActivityLog.record.  Its foreign key holds: the actor has a row
\* (the handler read it, or claimNext referenced it) and rows are not deleted.
\* A runner that recorded its claim goes on to reason; a handler answers.
Record(p) ==
    /\ pc[p] = "record"
    /\ trail' = [trail EXCEPT ![job[p].item] =
                   Append(@, [act |-> job[p].act, by |-> job[p].actor])]
    /\ IF p \in Runners /\ job[p].act = "claim"
         THEN pc' = [pc EXCEPT ![p] = "reason"] /\ UNCHANGED job
         ELSE Finish(p)
    /\ UNCHANGED <<members, board, arrived, created, agent, held>>

-----------------------------------------------------------------------------
(* AgentRunner *)

\* A runner is built around a Member object: the agent's row as it is now, or
\* one that was never saved.
Build(r) ==
    /\ agent[r] = Off
    /\ agent' = [agent EXCEPT ![r] =
                   IF Registered(AgentOf[r]) THEN members[AgentOf[r]] ELSE {}]
    /\ UNCHANGED <<members, board, arrived, created, trail, pc, job, held>>

\* The process that hosts an idle runner is stopped.
Stop(r) ==
    /\ agent[r] # Off
    /\ pc[r] = "idle"
    /\ agent' = [agent EXCEPT ![r] = Off]
    /\ UNCHANGED <<members, board, arrived, created, trail, pc, job, held>>

\* Mutant: the runner claims with its persona's role, whoever the agent is.
RunOnceAsPersona(r) ==
    /\ agent[r] # Off
    /\ pc[r] = "idle"
    /\ pc' = [pc EXCEPT ![r] = "select"]
    /\ job' = [job EXCEPT ![r] =
                 [actor |-> AgentOf[r], roles |-> Roles, act |-> "claim",
                  item |-> NoItem, copy |-> NoRow]]
    /\ UNCHANGED <<members, board, arrived, created, trail, agent, held>>

\* runOnce: claimNext with the Member object, not with the row.
RunOnce(r) ==
    /\ agent[r] # Off
    /\ pc[r] = "idle"
    /\ pc' = [pc EXCEPT ![r] = "select"]
    /\ job' = [job EXCEPT ![r] =
                 [actor |-> AgentOf[r], roles |-> agent[r], act |-> "claim",
                  item |-> NoItem, copy |-> NoRow]]
    /\ UNCHANGED <<members, board, arrived, created, trail, agent, held>>

\* The model gateway has answered: claimed.start().complete(), on the copy
\* claimNext returned.
Reason(r) ==
    /\ pc[r] = "reason"
    /\ job' = [job EXCEPT ![r].act = "complete",
                          ![r].copy = Apply(Apply(@, "start"), "complete")]
    /\ pc' = [pc EXCEPT ![r] = "save"]
    /\ UNCHANGED <<members, board, arrived, created, trail, agent, held>>

\* A statement, the model provider or the process fails.  What was committed
\* stays, an open transaction rolls back, and nobody takes the job up again.
Fail(p) ==
    /\ Failures
    /\ pc[p] # "idle"
    /\ Finish(p)
    /\ UNCHANGED <<members, board, arrived, created, trail, agent, held>>

-----------------------------------------------------------------------------
RequestArrives(p) ==
    \E m \in Users :
        \/ \E i \in Items, role \in Roles \cup {NoRole}, k \in Priorities :
               PublishRequest(p, m, i, role, k)
        \/ ClaimRequest(p, m)
        \/ \E act \in {"start", "complete"}, i \in Items :
               TransitionRequest(p, m, act, i)

\* The steps a process takes once it is under way.
Proceed(p) ==
    \/ SelectNone(p)
    \/ Select(p)
    \/ Commit(p)
    \/ Rollback(p)
    \/ Read(p)
    \/ Refuse(p)
    \/ Save(p)
    \/ Record(p)
    \/ p \in Runners /\ Reason(p)

Next ==
    \/ \E p \in Requests : RequestArrives(p)
    \/ \E r \in Runners : Build(r) \/ Stop(r) \/ RunOnce(r)
    \/ \E p \in Procs : Proceed(p)
    \/ \E p \in Procs : Fail(p)
    \/ \E m \in Members, roles \in SUBSET Roles : UpsertMember(m, roles)

Spec == Init /\ [][Next]_vars

\* A statement that was sent is answered (a process under way proceeds); a
\* runner's host builds it and calls runOnce over and over.  The host is not
\* in the repository; the tests drain the board with such a loop.
Fairness ==
    /\ \A p \in Procs : WF_vars(Proceed(p))
    /\ \A r \in Runners : WF_vars(Build(r)) /\ SF_vars(RunOnce(r))

FairSpec == Spec /\ Fairness

-----------------------------------------------------------------------------
(* Safety *)

Recorded(i, act) == \E k \in DOMAIN trail[i] : trail[i][k].act = act

\* The board keeps the promise of SharedBoard: an item is handed out exactly
\* once, to one member, for ever - no interleaving of transactions and no
\* write of a stale row takes it back or passes it on - and its claim is
\* credited at most once, to that member.
OwnerMap == [i \in Items |-> IF arrived[i] = 0 THEN Unregistered
                                              ELSE board[i].assignee]

CreditedTo(i, m) ==
    \E k \in DOMAIN trail[i] : trail[i][k] = [act |-> "claim", by |-> m]

CreditMap == {im \in Items \X Members : CreditedTo(im[1], im[2])}

Board == INSTANCE SharedBoard WITH
    Unpublished <- Unregistered, owner <- OwnerMap, credited <- CreditMap

ImplementsSharedBoard == Board!Spec

\* The row a transaction selected is still, when it updates it, the row it
\* read, and claimBy accepts it: the SQL filter is never more liberal than
\* the domain rule, and the row lock keeps everybody else off.
SelectedStaysClaimable ==
    \A p \in Procs : pc[p] = "commit" =>
        /\ board[job[p].item] = job[p].copy
        /\ CanBeClaimedBy(job[p].copy, job[p].roles)

\* p works on an item it got from claimNext.
Works(p) ==
    /\ job[p].item # NoItem
    /\ job[p].act = "claim" \/ p \in Runners

\* No two processes work on one item they claimed, and nobody else is about to
\* overwrite the item a runner works on ("two agents draining the board never
\* complete the same item twice").
WorkersDisjoint ==
    \A p, q \in Procs :
        /\ p # q
        /\ Works(p)
        /\ Works(q) \/ (p \in Runners /\ pc[q] = "save")
        => job[p].item # job[q].item

\* Every entry after publication was made by the member the item is assigned
\* to: neither a stale copy nor a late record credits anybody else.
TrailAttributed ==
    \A i \in Items : \A k \in DOMAIN trail[i] :
        trail[i][k].act # "publish" => trail[i][k].by = board[i].assignee

\* A role-gated item is only ever assigned to a member who has held the role,
\* even though claims are decided on copies of the member's row.
GatedClaim ==
    \A i \in Items :
        /\ board[i].assignee # NoMember
        /\ board[i].requiredRole # NoRole
        => board[i].requiredRole \in held[board[i].assignee]

\* The highest-priority, oldest item goes first: an item anybody may take is
\* overtaken by one that came later and has a lower priority, or the same and a
\* later time, only if somebody is in the middle of claiming it.  SKIP LOCKED lets
\* claimers pass each other, so this is more than ORDER BY says of one statement;
\* and it needs claims that do not roll back: no failures, and agents that are
\* members before there is work.
InOrder ==
    \A i, j \in Items :
        /\ 0 < arrived[j] /\ arrived[j] < arrived[i]
        /\ \/ board[j].priority > board[i].priority
           \/ board[j].priority = board[i].priority /\ created[j] < created[i]
        /\ board[j].requiredRole = NoRole
        /\ board[j].state = "open"
        /\ board[i].state # "open" \/ Locked(i)
        => Locked(j)

AgentsFirst ==
    (\E i \in Items : arrived[i] # 0) => \A r \in Runners : Registered(AgentOf[r])

NoOvertaking == []AgentsFirst => []InOrder

\* What makes the above inductive: what the row says of itself, what each
\* process may rely on at each of its steps, and who excludes whom.
ItemInv(i) ==
    /\ arrived[i] = 0 <=> board[i].state = "absent"
    /\ board[i].assignee = NoMember <=> board[i].state \in {"absent", "open"}

JobInv(p) ==
    LET j == job[p]
    IN  /\ pc[p] = "idle" => j = NoJob
        /\ pc[p] # "idle" =>
             j.actor \in IF p \in Runners THEN {AgentOf[p]} ELSE Users
        /\ pc[p] \in {"idle", "select"} <=> j.item = NoItem
        /\ pc[p] \in {"select", "commit", "reason"} => j.act = "claim"
        /\ pc[p] = "commit" =>
             board[j.item] = j.copy /\ CanBeClaimedBy(j.copy, j.roles)
        /\ pc[p] = "read" => p \in Requests /\ j.act \in {"start", "complete"}
        /\ pc[p] = "reason" => p \in Runners
        /\ j.act = "publish" => p \in Requests
        /\ pc[p] = "save" =>
             \/ /\ j.act = "publish"
                /\ arrived[j.item] = 0
                /\ j.copy.state = "open"
                /\ j.copy.assignee = NoMember
             \/ /\ j.act \in {"start", "complete"}
                /\ j.copy.state \in {"in_progress", "done"}
        /\ pc[p] \in {"save", "record", "reason"} /\ j.act # "publish" =>
             /\ board[j.item].assignee = j.actor
             /\ j.copy.assignee = j.actor
        /\ pc[p] = "record" => j.act # "none" /\ arrived[j.item] # 0
        /\ pc[p] = "record" /\ j.act = "claim" => ~Recorded(j.item, "claim")

Inserts(p) == pc[p] = "save" /\ job[p].act = "publish"

Exclusive ==
    \A p, q \in Procs :
        /\ p # q
        /\ (Works(p) /\ Works(q)) \/ (Inserts(p) /\ Inserts(q))
        => job[p].item # job[q].item

BoardInv ==
    /\ TypeOK
    /\ \A i \in Items : ItemInv(i)
    /\ \A p \in Procs : JobInv(p)
    /\ Exclusive
    /\ TrailAttributed

\* The state a step may never leave behind: an item does not go back in its
\* lifecycle.  (It holds when users wait for answers, and not otherwise.)
Phase == [absent |-> 0, open |-> 1, claimed |-> 2, in_progress |-> 3,
          blocked |-> 3, done |-> 4, cancelled |-> 4]

LifecycleForward ==
    [][\A i \in Items : Phase[board[i].state] <= Phase[board'[i].state]]_vars

\* The activity trail of an item tells its life in order and without
\* repetition: claim, start, complete, each at most once.  (Publication may be
\* recorded late: the item is on the board before.)
Rank == [publish |-> 0, claim |-> 1, start |-> 2, complete |-> 3]

TrailInOrder ==
    \A i \in Items : \A j, k \in DOMAIN trail[i] :
        /\ j < k
        /\ trail[i][j].act # "publish"
        /\ trail[i][k].act # "publish"
        => Rank[trail[i][j].act] < Rank[trail[i][k].act]

\* Whatever has happened to an item is on its trail, or the process that did
\* it is about to record it.
Owed(i, act) ==
    \E p \in Procs : /\ pc[p] = "record"
                     /\ job[p].item = i
                     /\ job[p].act = act

OnRecord(i, act) == Recorded(i, act) \/ Owed(i, act)

AuditComplete ==
    \A i \in Items :
        /\ board[i].state # "absent" => OnRecord(i, "publish")
        /\ board[i].state \notin {"absent", "open"} => OnRecord(i, "claim")
        /\ board[i].state = "in_progress" => OnRecord(i, "start")
        /\ board[i].state = "done" => OnRecord(i, "complete")

\* claimNext "returns null when nothing eligible is available": an item that
\* nobody holds and that the domain rule would give to the claimer is left out
\* only if its required role is blank, which SQL takes for a role.
NothingLeftOut ==
    \A p \in Procs : pc[p] = "select" /\ Candidates(p) = {} =>
        \A i \in Items :
            /\ ~Locked(i)
            /\ CanBeClaimedBy(board[i], job[p].roles)
            => board[i].requiredRole = BlankRole

-----------------------------------------------------------------------------
(* Liveness, under FairSpec and without failures *)

\* Unrestricted work does not stay on the board while a registered agent polls.
OpenWorkIsClaimed ==
    \A i \in Items, r \in Runners :
        /\ board[i].state = "open"
        /\ board[i].requiredRole = NoRole
        /\ Registered(AgentOf[r])
        ~> board[i].state # "open"

\* Every effect reaches the activity log.
EffectsAreRecorded ==
    \A i \in Items :
        /\ board[i].state = "open" ~> Recorded(i, "publish")
        /\ board[i].state = "claimed" ~> Recorded(i, "claim")
        /\ board[i].state = "in_progress" ~> Recorded(i, "start")
        /\ board[i].state = "done" ~> Recorded(i, "complete")
=============================================================================
