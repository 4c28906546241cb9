--------------------------- MODULE WorkBoardProofs ---------------------------
(***************************************************************************)
(* Proofs about WorkBoard for any number of items, requests, runners and   *)
(* members, with or without failures, users calling as they please.        *)
(***************************************************************************)
EXTENDS WorkBoard, FiniteSetTheorems, TLAPS

USE DEF Procs

-----------------------------------------------------------------------------
(* The next-state relation, one disjunct per operation: what every proof     *)
(* below splits on.                                                          *)

LEMMA NextCases ==
    ASSUME Next
    PROVE  \/ \E p \in Requests, m \in Users, i \in Items,
                 role \in Roles \cup {NoRole}, k \in Priorities :
                     PublishRequest(p, m, i, role, k)
           \/ \E p \in Requests, m \in Users : ClaimRequest(p, m)
           \/ \E p \in Requests, m \in Users, act \in {"start", "complete"},
                 i \in Items : TransitionRequest(p, m, act, i)
           \/ \E r \in Runners : Build(r)
           \/ \E r \in Runners : Stop(r)
           \/ \E r \in Runners : RunOnce(r)
           \/ \E p \in Procs : SelectNone(p) \/ Rollback(p) \/ Refuse(p) \/ Fail(p)
           \/ \E p \in Procs : Select(p)
           \/ \E p \in Procs : Commit(p)
           \/ \E p \in Procs : Read(p)
           \/ \E p \in Procs : Save(p)
           \/ \E p \in Procs : Record(p)
           \/ \E r \in Runners : Reason(r)
           \/ \E m \in Members, roles \in SUBSET Roles : UpsertMember(m, roles)
BY DEF Next, RequestArrives, Proceed

-----------------------------------------------------------------------------
(* Type correctness *)

LEMMA NoRowFields ==
    /\ NoRow \in [state : {"absent"}, assignee : {NoMember},
                  requiredRole : {NoRole}, priority : Priorities]
    /\ NoRow \notin WorkItemProps
BY ConstantsAssumption DEF NoRow, WorkItemProps, LifecycleStates

LEMMA LifecycleKeepsRows ==
    ASSUME NEW row \in Rows, NEW act \in {"start", "complete"}
    PROVE  /\ Apply(row, act) \in WorkItemProps
           /\ Apply(row, act).assignee = row.assignee
           /\ Apply(row, act).state =
                IF act = "start" THEN "in_progress" ELSE "done"
BY NoRowFields DEF Apply, Lifecycle, Rows, WorkItemProps, LifecycleStates

LEMMA ClaimKeepsRows ==
    ASSUME NEW row \in Rows, NEW m \in Members
    PROVE  /\ ClaimBy(row, m) \in WorkItemProps
           /\ ClaimBy(row, m).assignee = m
           /\ ClaimBy(row, m).state = "claimed"
           /\ ClaimBy(row, m).requiredRole = row.requiredRole
           /\ ClaimBy(row, m).priority = row.priority
BY NoRowFields DEF ClaimBy, Rows, WorkItemProps, LifecycleStates

LEMMA CreateIsRow ==
    ASSUME NEW role \in Roles \cup {NoRole}, NEW k \in Priorities
    PROVE  /\ Create(role, k) \in WorkItemProps
           /\ Create(role, k).assignee = NoMember
           /\ Create(role, k).state = "open"
BY DEF Create, WorkItemProps, LifecycleStates

\* The order of arrival stays within the number of ids: an insert finds one id unused.
LEMMA InsertionFits ==
    ASSUME NEW f \in [Items -> Nat], NEW i \in Items, f[i] = 0
    PROVE  Cardinality({j \in Items : f[j] # 0}) + 1 \in 0 .. Cardinality(Items)
<1> DEFINE Present == {j \in Items : f[j] # 0}
<1>1. IsFiniteSet(Items)
  BY ConstantsAssumption
<1>2. Present \in SUBSET Items /\ Present # Items
  OBVIOUS
<1> HIDE DEF Present
<1>3. /\ IsFiniteSet(Present)
      /\ Cardinality(Present) <= Cardinality(Items)
      /\ Cardinality(Items) = Cardinality(Present) => Items = Present
  BY <1>1, <1>2, FS_Subset
<1>4. Cardinality(Present) \in Nat /\ Cardinality(Items) \in Nat
  BY <1>1, <1>3, FS_CardinalityType
<1>5. Cardinality(Present) + 1 \in 0 .. Cardinality(Items)
  BY <1>2, <1>3, <1>4
<1> QED
  BY <1>5 DEF Present

\* A process that answers leaves the types alone.
LEMMA FinishTyped ==
    ASSUME TypeOK, NEW p \in Procs, Finish(p)
    PROVE  /\ pc' \in [Procs -> PcLabels]
           /\ job' \in [Procs -> Jobs]
<1>1. NoJob \in Jobs
  BY DEF NoJob, Jobs, Rows
<1> QED
  BY <1>1 DEF TypeOK, Finish, PcLabels

LEMMA AcceptTyped ==
    ASSUME TypeOK, NEW p \in Requests, NEW m \in Users,
           NEW label \in PcLabels, NEW act \in Acts,
           NEW item \in Items \cup {NoItem}, NEW copy \in Rows,
           Accept(p, m, label, act, item, copy)
    PROVE  /\ pc' \in [Procs -> PcLabels]
           /\ job' \in [Procs -> Jobs]
<1>1. m \in Members /\ members[m] \in SUBSET Roles
  BY ConstantsAssumption DEF TypeOK, Accept, Registered
<1>2. [actor |-> m, roles |-> members[m], act |-> act,
       item |-> item, copy |-> copy] \in Jobs
  BY <1>1 DEF Jobs
<1> QED
  BY <1>2 DEF TypeOK, Accept
LEMMA InitTyped == Init => TypeOK
<1> SUFFICES ASSUME Init PROVE TypeOK
  OBVIOUS
<1>1. NoJob \in Jobs
  BY DEF NoJob, Jobs, Rows
<1>2. Cardinality(Items) \in Nat
  BY ConstantsAssumption, FS_CardinalityType
<1> QED
  BY <1>1, <1>2 DEF Init, TypeOK, Rows, PcLabels

\* What an insert stamps, and that an update stamps nothing.
LEMMA Stamps ==
    ASSUME TypeOK, NEW i \in Items, Stamp(i)
    PROVE  /\ arrived \in [Items -> Nat]
           /\ created' \in [Items -> Nat]
           /\ \A j \in Items \ {i} : arrived'[j] = arrived[j] /\ created'[j] = created[j]
           /\ arrived[i] # 0 => UNCHANGED <<arrived, created>>
           /\ arrived[i] = 0 =>
                arrived' = [arrived EXCEPT ![i] = Cardinality({j \in Items : arrived[j] # 0}) + 1]
<1>1. arrived \in [Items -> Nat]
  BY ConstantsAssumption, FS_CardinalityType DEF TypeOK
<1>2. CASE arrived[i] = 0
  <2>1. PICK now \in Times : created' = [created EXCEPT ![i] = now]
    BY <1>2 DEF Stamp
  <2>2. arrived' = [arrived EXCEPT ![i] = Cardinality({j \in Items : arrived[j] # 0}) + 1]
    BY <1>2 DEF Stamp
  <2>3. created' \in [Items -> Nat] /\ \A j \in Items \ {i} : created'[j] = created[j]
    BY <2>1, ConstantsAssumption DEF TypeOK
  <2>4. \A j \in Items \ {i} : arrived'[j] = arrived[j]
    BY <1>1, <2>2
  <2> QED
    BY <1>1, <1>2, <2>2, <2>3, <2>4
<1>3. CASE arrived[i] # 0
  BY <1>1, <1>3 DEF Stamp, TypeOK
<1> QED
  BY <1>2, <1>3

LEMMA SaveTyped ==
    ASSUME TypeOK, NEW p \in Procs, job[p].item \in Items, Save(p)
    PROVE  TypeOK'
<1>1. job[p] \in Jobs /\ job[p].copy \in Rows
  BY DEF TypeOK, Jobs
<1>2. board' \in [Items -> Rows]
  BY <1>1 DEF TypeOK, Save
<1>3. arrived' \in [Items -> 0 .. Cardinality(Items)]
  <2>1. arrived \in [Items -> Nat]
    BY ConstantsAssumption, FS_CardinalityType DEF TypeOK
  <2>2. CASE arrived[job[p].item] = 0
    BY <2>1, <2>2, InsertionFits, Stamps DEF TypeOK, Save
  <2>3. CASE arrived[job[p].item] # 0
    BY <2>3, Stamps DEF TypeOK, Save
  <2> QED
    BY <2>2, <2>3
<1>4. created' \in [Items -> Nat]
  BY Stamps DEF Save
<1> QED
  BY <1>2, <1>3, <1>4 DEF TypeOK, Save, PcLabels

LEMMA RecordTyped ==
    ASSUME TypeOK, NEW p \in Procs, job[p].item \in Items,
           job[p].act \in Acts, job[p].actor \in Members, Record(p)
    PROVE  TypeOK'
<1>1. [act |-> job[p].act, by |-> job[p].actor] \in Records
  BY DEF Records
<1>2. trail' \in [Items -> Seq(Records)]
  BY <1>1 DEF TypeOK, Record
<1>3. CASE p \in Runners /\ job[p].act = "claim"
  BY <1>2, <1>3 DEF TypeOK, Record, PcLabels
<1>4. CASE ~(p \in Runners /\ job[p].act = "claim")
  <2>1. Finish(p)
    BY <1>4 DEF Record
  <2> QED
    BY <1>2, <2>1, FinishTyped DEF TypeOK, Record
<1> QED
  BY <1>3, <1>4

LEMMA CommitTyped ==
    ASSUME TypeOK, NEW p \in Procs, job[p].item \in Items,
           job[p].actor \in Members, board[job[p].item] = job[p].copy, Commit(p)
    PROVE  /\ TypeOK'
           /\ board' = [board EXCEPT ![job[p].item] =
                           ClaimBy(job[p].copy, job[p].actor)]
<1> DEFINE claimed == ClaimBy(job[p].copy, job[p].actor)
<1>1. job[p] \in Jobs /\ job[p].copy \in Rows
  BY DEF TypeOK, Jobs
<1>2. claimed \in Rows
  BY <1>1, ClaimKeepsRows DEF Rows
<1>3. claimed = [job[p].copy EXCEPT !.state = claimed.state,
                                    !.assignee = claimed.assignee]
  BY <1>1, NoRowFields DEF ClaimBy, Rows, WorkItemProps
<1>4. board' = [board EXCEPT ![job[p].item] = claimed]
  BY <1>3 DEF Commit, TypeOK
<1>5. job' \in [Procs -> Jobs]
  BY <1>1, <1>2 DEF Commit, TypeOK, Jobs
<1>6. /\ UNCHANGED <<members, arrived, created, trail, agent, held>>
      /\ pc' = [pc EXCEPT ![p] = "record"]
  BY DEF Commit
<1>7. board' \in [Items -> Rows]
  BY <1>2, <1>4 DEF TypeOK
<1>8. TypeOK'
  BY <1>5, <1>6, <1>7 DEF TypeOK, PcLabels
<1> QED
  BY <1>4, <1>8
-----------------------------------------------------------------------------
(* The inductive invariant *)

\* What JobInv says of the job a process has on an item.
LEMMA JobFacts ==
    ASSUME BoardInv, NEW p \in Procs
    PROVE  /\ job[p] \in Jobs
           /\ job[p].copy \in Rows
           /\ pc[p] # "idle" => job[p].actor \in Members
           /\ pc[p] \notin {"idle", "select"} => job[p].item \in Items
           /\ pc[p] # "idle" /\ p \in Runners => job[p].actor \in Members \ Users
           /\ pc[p] # "idle" /\ p \notin Runners => job[p].actor \in Users
<1>1. TypeOK /\ JobInv(p)
  BY DEF BoardInv
<1>2. job[p] \in Jobs
  BY <1>1 DEF TypeOK
<1>3. job[p].copy \in Rows /\ job[p].item \in Items \cup {NoItem}
  BY <1>2 DEF Jobs
<1>4. pc[p] # "idle" =>
        job[p].actor \in IF p \in Runners THEN {AgentOf[p]} ELSE Users
  BY <1>1 DEF JobInv
<1>5. pc[p] \notin {"idle", "select"} => job[p].item # NoItem
  BY <1>1 DEF JobInv
<1> QED
  BY <1>2, <1>3, <1>4, <1>5, ConstantsAssumption

\* A claim on record belongs to an assigned item.
LEMMA RecordedClaimIsAssigned ==
    ASSUME BoardInv, NEW i \in Items, Recorded(i, "claim")
    PROVE  board[i].assignee # NoMember
<1>1. PICK k \in DOMAIN trail[i] : trail[i][k].act = "claim"
  BY DEF Recorded
<1>2. trail[i][k] \in Records
  BY DEF BoardInv, TypeOK
<1>3. trail[i][k].by \in Members
  BY <1>2 DEF Records
<1> QED
  BY <1>1, <1>3, ConstantsAssumption DEF BoardInv, TrailAttributed

\* A step that leaves the tables alone and moves one process keeps the
\* invariant when the process it moves is left in order.
LEMMA QuietStep ==
    ASSUME BoardInv, TypeOK', NEW p \in Procs,
           UNCHANGED <<board, arrived, created, trail>>,
           \A q \in Procs \ {p} : pc'[q] = pc[q] /\ job'[q] = job[q],
           JobInv(p)',
           \A q \in Procs \ {p} :
               \/ Works(p)' /\ Works(q)
               \/ Inserts(p)' /\ Inserts(q)
               => job'[p].item # job[q].item
    PROVE  BoardInv'
<1>1. \A i \in Items : ItemInv(i)'
  BY DEF BoardInv, ItemInv
<1>2. ASSUME NEW q \in Procs PROVE JobInv(q)'
  <2>1. CASE q = p
    BY <2>1
  <2>2. CASE q # p
    <3>1. JobInv(q) /\ pc'[q] = pc[q] /\ job'[q] = job[q]
      BY <2>2 DEF BoardInv
    <3> QED
      BY <3>1 DEF JobInv, Recorded
  <2> QED
    BY <2>1, <2>2
<1>3. Exclusive'
  BY DEF BoardInv, Exclusive, Works, Inserts
<1>4. TrailAttributed'
  BY DEF BoardInv, TrailAttributed
<1> QED
  BY <1>1, <1>2, <1>3, <1>4 DEF BoardInv

LEMMA FinishKeepsInv ==
    ASSUME BoardInv, NEW p \in Procs, Finish(p),
           UNCHANGED <<members, board, arrived, created, trail, agent, held>>
    PROVE  BoardInv'
<1>1. TypeOK'
  BY FinishTyped DEF BoardInv, TypeOK
<1>2. pc'[p] = "idle" /\ job'[p] = NoJob
  BY DEF BoardInv, TypeOK, Finish
<1>3. JobInv(p)'
  BY <1>2 DEF JobInv, NoJob
<1>4. ~Works(p)' /\ ~Inserts(p)'
  BY <1>2 DEF Works, Inserts, NoJob
<1>5. \A q \in Procs \ {p} : pc'[q] = pc[q] /\ job'[q] = job[q]
  BY DEF BoardInv, TypeOK, Finish
<1> QED
  BY <1>1, <1>3, <1>4, <1>5, QuietStep
LEMMA AcceptKeepsInv ==
    ASSUME BoardInv, NEW p \in Requests, NEW m \in Users,
           NEW label \in {"select", "read", "save"}, NEW act \in Acts,
           NEW item \in Items \cup {NoItem}, NEW copy \in Rows,
           Accept(p, m, label, act, item, copy),
           UNCHANGED <<members, board, arrived, created, trail, agent, held>>,
           label = "select" => act = "claim" /\ item = NoItem,
           label = "read" => act \in {"start", "complete"} /\ item \in Items,
           label = "save" =>
               /\ act = "publish"
               /\ item \in Items
               /\ arrived[item] = 0
               /\ copy.state = "open"
               /\ copy.assignee = NoMember
               /\ \A q \in Procs : ~(job[q].act = "publish" /\ job[q].item = item)
    PROVE  BoardInv'
<1>1. TypeOK'
  <2>1. label \in PcLabels /\ TypeOK
    BY DEF PcLabels, BoardInv
  <2>2. pc' \in [Procs -> PcLabels] /\ job' \in [Procs -> Jobs]
    BY <2>1, AcceptTyped
  <2> QED
    BY <2>1, <2>2 DEF TypeOK
<1>2. /\ pc'[p] = label
      /\ job'[p].actor = m
      /\ job'[p].act = act
      /\ job'[p].item = item
      /\ job'[p].copy = copy
      /\ \A q \in Procs \ {p} : pc'[q] = pc[q] /\ job'[q] = job[q]
  BY DEF BoardInv, TypeOK, Accept
<1>3. p \notin Runners /\ NoItem \notin Items
  BY ConstantsAssumption
<1>4. JobInv(p)'
  BY <1>2, <1>3 DEF JobInv
<1>5. ~Works(p)'
  BY <1>2, <1>3 DEF Works
<1>6. \A q \in Procs \ {p} :
        Inserts(p)' /\ Inserts(q) => job'[p].item # job[q].item
  BY <1>2 DEF Inserts
<1> QED
  BY <1>1, <1>2, <1>4, <1>5, <1>6, QuietStep

LEMMA SelectKeepsInv ==
    ASSUME BoardInv, NEW p \in Procs, Select(p)
    PROVE  BoardInv'
<1>1. PICK i \in Candidates(p) :
        job' = [job EXCEPT ![p].item = i, ![p].copy = board[i]]
  BY DEF Select
<1>2. /\ i \in Items
      /\ board[i].state = "open"
      /\ EligibleRole(i, job[p].roles)
      /\ ~Locked(i)
  BY DEF Candidates
<1>3. board[i] \in Rows /\ i # NoItem
  BY <1>2, ConstantsAssumption DEF BoardInv, TypeOK
<1>4. job[p] \in Jobs
  BY DEF BoardInv, TypeOK
<1>5. job'[p] \in Jobs
  BY <1>1, <1>2, <1>3, <1>4 DEF BoardInv, TypeOK, Jobs
<1>6. /\ pc'[p] = "commit"
      /\ job'[p].actor = job[p].actor
      /\ job'[p].roles = job[p].roles
      /\ job'[p].act = job[p].act
      /\ job'[p].item = i
      /\ job'[p].copy = board[i]
      /\ \A q \in Procs \ {p} : pc'[q] = pc[q] /\ job'[q] = job[q]
      /\ UNCHANGED <<members, board, arrived, created, trail, agent, held>>
  BY <1>1, <1>4 DEF BoardInv, TypeOK, Select, Jobs
<1>7. TypeOK'
  BY <1>1, <1>5, <1>6 DEF BoardInv, TypeOK, Select, PcLabels
<1>8. JobInv(p)'
  <2>1. CanBeClaimedBy(board[i], job[p].roles)
    BY <1>2 DEF CanBeClaimedBy, Gated, EligibleRole
  <2>2. pc[p] = "select" /\ JobInv(p)
    BY DEF BoardInv, Select
  <2> QED
    BY <1>3, <1>6, <2>1, <2>2 DEF JobInv
<1>9. ASSUME NEW q \in Procs \ {p}, Works(q)
      PROVE  i # job[q].item
  <2>1. JobInv(q)
    BY DEF BoardInv
  <2>2. SUFFICES ASSUME i = job[q].item PROVE FALSE
    OBVIOUS
  <2>3. pc[q] # "commit"
    BY <1>2, <2>2 DEF Locked, Holds
  <2>4. pc[q] \notin {"idle", "select"}
    BY <1>3, <2>1, <2>2 DEF JobInv
  <2>5. pc[q] \in {"read", "save", "record", "reason"}
    BY <2>3, <2>4 DEF BoardInv, TypeOK, PcLabels
  <2>6. job[q].act # "publish" /\ pc[q] # "read"
    BY <1>9, <2>1, <2>5, ConstantsAssumption DEF Works, JobInv
  <2>7. board[i].assignee \in Members
    BY <2>1, <2>2, <2>5, <2>6, JobFacts DEF JobInv
  <2>8. ItemInv(i)
    BY <1>2 DEF BoardInv
  <2> QED
    BY <1>2, <2>7, <2>8, ConstantsAssumption DEF ItemInv
<1>10. ~Inserts(p)'
  BY <1>6 DEF Inserts
<1> QED
  BY <1>6, <1>7, <1>8, <1>9, <1>10, QuietStep
LEMMA RunOnceKeepsInv ==
    ASSUME BoardInv, NEW r \in Runners, RunOnce(r)
    PROVE  BoardInv'
<1>1. agent[r] \in SUBSET Roles /\ AgentOf[r] \in Members
  BY ConstantsAssumption DEF BoardInv, TypeOK, RunOnce
<1>2. [actor |-> AgentOf[r], roles |-> agent[r], act |-> "claim",
       item |-> NoItem, copy |-> NoRow] \in Jobs
  BY <1>1 DEF Jobs, Acts, Rows
<1>3. TypeOK'
  BY <1>2 DEF BoardInv, TypeOK, RunOnce, PcLabels
<1>4. /\ pc'[r] = "select"
      /\ job'[r].actor = AgentOf[r]
      /\ job'[r].act = "claim"
      /\ job'[r].item = NoItem
      /\ \A q \in Procs \ {r} : pc'[q] = pc[q] /\ job'[q] = job[q]
      /\ UNCHANGED <<board, arrived, created, trail>>
  BY DEF BoardInv, TypeOK, RunOnce
<1>5. JobInv(r)'
  BY <1>4 DEF JobInv
<1>6. ~Works(r)' /\ ~Inserts(r)'
  BY <1>4 DEF Works, Inserts
<1> QED
  BY <1>3, <1>4, <1>5, <1>6, QuietStep

LEMMA ReadKeepsInv ==
    ASSUME BoardInv, NEW p \in Procs, Read(p)
    PROVE  BoardInv'
<1> DEFINE i == job[p].item
           next == Apply(board[i], job[p].act)
<1>1. /\ pc[p] = "read" /\ JobInv(p)
      /\ p \in Requests
      /\ job[p].act \in {"start", "complete"}
  BY DEF BoardInv, JobInv, Read
<1>2. i \in Items /\ job[p] \in Jobs /\ i # NoItem
  BY <1>1, JobFacts, ConstantsAssumption
<1>3. board[i] \in Rows /\ board[i].assignee = job[p].actor
  BY <1>2 DEF BoardInv, TypeOK, Read, MayTransition
<1>4. /\ next \in Rows
      /\ next.assignee = job[p].actor
      /\ next.state \in {"in_progress", "done"}
  BY <1>1, <1>3, LifecycleKeepsRows DEF Rows
<1> HIDE DEF next
<1>5. /\ job' = [job EXCEPT ![p].copy = next]
      /\ pc' = [pc EXCEPT ![p] = "save"]
      /\ UNCHANGED <<members, board, arrived, created, trail, agent, held>>
  BY DEF Read, next
<1>6. job' \in [Procs -> Jobs]
  BY <1>2, <1>4, <1>5 DEF BoardInv, TypeOK, Jobs
<1>7. TypeOK'
  BY <1>5, <1>6 DEF BoardInv, TypeOK, PcLabels
<1>8. /\ pc'[p] = "save"
      /\ job'[p].actor = job[p].actor
      /\ job'[p].act = job[p].act
      /\ job'[p].item = i
      /\ job'[p].copy = next
      /\ \A q \in Procs \ {p} : pc'[q] = pc[q] /\ job'[q] = job[q]
  BY <1>2, <1>5 DEF BoardInv, TypeOK, Jobs
<1>9. JobInv(p)'
  BY <1>1, <1>2, <1>3, <1>4, <1>5, <1>8 DEF JobInv
<1>10. ~Works(p)' /\ ~Inserts(p)'
  BY <1>1, <1>8, ConstantsAssumption DEF Works, Inserts
<1> QED
  BY <1>5, <1>7, <1>8, <1>9, <1>10, QuietStep

LEMMA ReasonKeepsInv ==
    ASSUME BoardInv, NEW r \in Runners, Reason(r)
    PROVE  BoardInv'
<1> DEFINE i == job[r].item
           next == Apply(Apply(job[r].copy, "start"), "complete")
<1>1. /\ pc[r] = "reason" /\ JobInv(r)
      /\ job[r].act = "claim"
      /\ board[i].assignee = job[r].actor
      /\ job[r].copy.assignee = job[r].actor
  BY DEF BoardInv, JobInv, Reason
<1>2. i \in Items /\ job[r] \in Jobs /\ i # NoItem /\ job[r].copy \in Rows
  BY <1>1, JobFacts, ConstantsAssumption
<1>3. /\ next \in Rows
      /\ next.assignee = job[r].actor
      /\ next.state = "done"
  BY <1>1, <1>2, LifecycleKeepsRows DEF Rows
<1> HIDE DEF next
<1>4. /\ job' = [job EXCEPT ![r].act = "complete", ![r].copy = next]
      /\ pc' = [pc EXCEPT ![r] = "save"]
      /\ UNCHANGED <<members, board, arrived, created, trail, agent, held>>
  BY <1>2 DEF Reason, next, BoardInv, TypeOK
<1>5. job' \in [Procs -> Jobs]
  BY <1>2, <1>3, <1>4 DEF BoardInv, TypeOK, Jobs, Acts
<1>6. TypeOK'
  BY <1>4, <1>5 DEF BoardInv, TypeOK, PcLabels
<1>7. /\ pc'[r] = "save"
      /\ job'[r].actor = job[r].actor
      /\ job'[r].act = "complete"
      /\ job'[r].item = i
      /\ job'[r].copy = next
      /\ \A q \in Procs \ {r} : pc'[q] = pc[q] /\ job'[q] = job[q]
  BY <1>2, <1>4 DEF BoardInv, TypeOK, Jobs
<1>8. JobInv(r)'
  BY <1>1, <1>2, <1>3, <1>4, <1>7 DEF JobInv
<1>9. Works(r) /\ ~Inserts(r)'
  BY <1>1, <1>2, <1>7 DEF Works, Inserts
<1>10. \A q \in Procs \ {r} : Works(q) => job'[r].item # job[q].item
  BY <1>7, <1>9 DEF BoardInv, Exclusive
<1> QED
  BY <1>4, <1>6, <1>7, <1>8, <1>9, <1>10, QuietStep
\* Only publication is on the trail of an unassigned item.
LEMMA UnassignedTrail ==
    ASSUME BoardInv, NEW i \in Items, board[i].assignee = NoMember
    PROVE  \A k \in DOMAIN trail[i] : trail[i][k].act = "publish"
<1> SUFFICES ASSUME NEW k \in DOMAIN trail[i], trail[i][k].act # "publish"
             PROVE  FALSE
  OBVIOUS
<1>1. trail[i][k] \in Records
  BY DEF BoardInv, TypeOK
<1>2. trail[i][k].by \in Members
  BY <1>1 DEF Records
<1> QED
  BY <1>2, ConstantsAssumption DEF BoardInv, TrailAttributed

\* While nobody holds an item, nobody is under way with it but those who read
\* it, a publisher that has still to record it, and the holder of its lock.
LEMMA OpenItemIsIdle ==
    ASSUME BoardInv, NEW i \in Items, board[i].state = "open",
           NEW q \in Procs, job[q].item = i
    PROVE  \/ pc[q] \in {"read", "commit"}
           \/ pc[q] = "record" /\ job[q].act = "publish"
<1>1. JobInv(q) /\ ItemInv(i) /\ pc[q] \in PcLabels
  BY DEF BoardInv, TypeOK
<1>2. board[i].assignee = NoMember /\ arrived[i] # 0
  BY <1>1 DEF ItemInv
<1>3. pc[q] \notin {"idle", "select"}
  BY <1>1, ConstantsAssumption DEF JobInv
<1>4. job[q].actor # NoMember
  BY <1>3, JobFacts, ConstantsAssumption
<1>5. pc[q] \in {"save", "record", "reason"} => job[q].act = "publish"
  BY <1>1, <1>2, <1>4 DEF JobInv
<1>6. pc[q] # "save"
  BY <1>1, <1>2, <1>5 DEF JobInv
<1>7. pc[q] # "reason"
  BY <1>1, <1>5 DEF JobInv
<1> QED
  BY <1>1, <1>3, <1>5, <1>6, <1>7 DEF PcLabels

LEMMA CommitKeepsInv ==
    ASSUME BoardInv, NEW p \in Procs, Commit(p)
    PROVE  BoardInv'
<1> DEFINE i == job[p].item
           claimed == ClaimBy(job[p].copy, job[p].actor)
<1>1. /\ pc[p] = "commit" /\ JobInv(p)
      /\ job[p].act = "claim"
      /\ board[i] = job[p].copy
      /\ board[i].state = "open"
  BY DEF BoardInv, JobInv, Commit, CanBeClaimedBy
<1>2. i \in Items /\ job[p] \in Jobs /\ job[p].copy \in Rows
      /\ job[p].actor \in Members /\ i # NoItem
  BY <1>1, JobFacts, ConstantsAssumption
<1>3. TypeOK' /\ board' = [board EXCEPT ![i] = claimed]
  BY <1>1, <1>2, CommitTyped DEF BoardInv
<1>4. claimed.state = "claimed" /\ claimed.assignee = job[p].actor
  BY <1>2, ClaimKeepsRows
<1>5. /\ job' = [job EXCEPT ![p].copy = claimed]
      /\ pc' = [pc EXCEPT ![p] = "record"]
      /\ UNCHANGED <<arrived, created, trail>>
  BY DEF Commit
<1> HIDE DEF claimed
<1>6. /\ pc'[p] = "record"
      /\ job'[p].actor = job[p].actor
      /\ job'[p].act = "claim"
      /\ job'[p].item = i
      /\ job'[p].copy = claimed
      /\ \A q \in Procs \ {p} : pc'[q] = pc[q] /\ job'[q] = job[q]
      /\ board'[i] = claimed
      /\ \A j \in Items \ {i} : board'[j] = board[j]
  BY <1>1, <1>2, <1>3, <1>5 DEF BoardInv, TypeOK, Jobs
<1>7. ItemInv(i) /\ board[i].assignee = NoMember /\ arrived[i] # 0
  BY <1>1, <1>2 DEF BoardInv, ItemInv
<1>8. ASSUME NEW j \in Items PROVE ItemInv(j)'
  <2>1. ItemInv(j)
    BY DEF BoardInv
  <2>2. CASE j = i
    BY <2>2, <1>2, <1>4, <1>5, <1>6, <1>7, ConstantsAssumption DEF ItemInv
  <2>3. CASE j # i
    BY <2>1, <2>3, <1>5, <1>6 DEF ItemInv
  <2> QED
    BY <2>2, <2>3
<1>9. JobInv(p)'
  <2>1. ~Recorded(i, "claim")
    BY <1>2, <1>7, RecordedClaimIsAssigned
  <2>2. ~Recorded(i, "claim")'
    BY <2>1, <1>5 DEF Recorded
  <2>3. job[p].actor \in IF p \in Runners THEN {AgentOf[p]} ELSE Users
    BY <1>1 DEF JobInv
  <2> QED
    BY <1>2, <1>4, <1>5, <1>6, <1>7, <2>2, <2>3 DEF JobInv
<1>10. ASSUME NEW q \in Procs \ {p} PROVE JobInv(q)'
  <2>1. JobInv(q) /\ pc'[q] = pc[q] /\ job'[q] = job[q]
    BY <1>6 DEF BoardInv
  <2>2. CASE job[q].item # i
    <3>1. pc[q] \notin {"idle", "select"} => job[q].item \in Items \ {i}
      BY <2>2, JobFacts
    <3> QED
      BY <2>1, <3>1, <1>5, <1>6 DEF JobInv, Recorded
  <2>3. CASE job[q].item = i
    <3>1. Works(p)
      BY <1>1, <1>2 DEF Works
    <3>2. pc[q] # "commit"
      <4> SUFFICES ASSUME pc[q] = "commit" PROVE FALSE
        OBVIOUS
      <4>1. Works(q)
        BY <1>2, <2>1, <2>3 DEF Works, JobInv
      <4> QED
        BY <2>3, <3>1, <4>1 DEF BoardInv, Exclusive
    <3>3. pc[q] = "read" \/ (pc[q] = "record" /\ job[q].act = "publish")
      BY <1>1, <1>2, <2>3, <3>2, OpenItemIsIdle
    <3> QED
      BY <2>1, <3>3, <1>5 DEF JobInv
  <2> QED
    BY <2>2, <2>3
<1>11. Exclusive'
  <2>1. Works(p)
    BY <1>1, <1>2 DEF Works
  <2>2. ~Inserts(p)' /\ ~Inserts(p)
    BY <1>1, <1>6 DEF Inserts
  <2> QED
    BY <1>6, <2>1, <2>2 DEF BoardInv, Exclusive, Works, Inserts
<1>12. TrailAttributed'
  <2>1. \A k \in DOMAIN trail[i] : trail[i][k].act = "publish"
    BY <1>2, <1>7, UnassignedTrail
  <2> QED
    BY <1>5, <1>6, <2>1 DEF BoardInv, TrailAttributed
<1> QED
  BY <1>3, <1>8, <1>9, <1>10, <1>11, <1>12 DEF BoardInv
LEMMA SaveKeepsInv ==
    ASSUME BoardInv, NEW p \in Procs, Save(p)
    PROVE  BoardInv'
<1> DEFINE i == job[p].item
           row == job[p].copy
<1>1. pc[p] = "save" /\ JobInv(p) /\ ~Locked(i)
  BY DEF BoardInv, Save
<1>2. /\ i \in Items /\ i # NoItem /\ row \in Rows
      /\ job[p].actor \in Members
  BY <1>1, JobFacts, ConstantsAssumption
<1>3. TypeOK'
  BY <1>2, SaveTyped DEF BoardInv
<1>4. ItemInv(i) /\ arrived \in [Items -> Nat]
  BY <1>2, ConstantsAssumption, FS_CardinalityType DEF BoardInv, TypeOK
<1>5. arrived'[i] # 0
  <2>1. Cardinality({j \in Items : arrived[j] # 0}) + 1 # 0
    <3>1. IsFiniteSet({j \in Items : arrived[j] # 0})
      BY ConstantsAssumption, FS_Subset
    <3> QED
      BY <3>1, FS_CardinalityType
  <2> QED
    BY <1>2, <1>4, <2>1, Stamps DEF Save, BoardInv
<1>6. /\ pc' = [pc EXCEPT ![p] = "record"]
      /\ job' = job /\ trail' = trail
      /\ board' = [board EXCEPT ![i] = row]
      /\ \A j \in Items \ {i} : arrived'[j] = arrived[j]
      /\ arrived[i] # 0 => arrived' = arrived
  BY <1>2, Stamps DEF Save, BoardInv
<1>7. /\ pc'[p] = "record"
      /\ \A q \in Procs \ {p} : pc'[q] = pc[q]
      /\ board'[i] = row
      /\ \A j \in Items \ {i} : board'[j] = board[j]
  BY <1>2, <1>6 DEF BoardInv, TypeOK
\* The row goes to nobody else: an insert leaves it unassigned, an update
\* writes back the assignee the row has.
<1>8. \/ /\ Inserts(p)
         /\ arrived[i] = 0 /\ board[i].assignee = NoMember
         /\ row.state = "open" /\ row.assignee = NoMember
      \/ /\ job[p].act \in {"start", "complete"}
         /\ arrived[i] # 0 /\ board[i].assignee = job[p].actor
         /\ row.state \in {"in_progress", "done"} /\ row.assignee = job[p].actor
  <2>1. CASE job[p].act = "publish"
    BY <1>1, <1>4, <2>1 DEF JobInv, Inserts, ItemInv
  <2>2. CASE job[p].act # "publish"
    BY <1>1, <1>2, <1>4, <2>2, ConstantsAssumption DEF JobInv, ItemInv
  <2> QED
    BY <2>1, <2>2
<1> HIDE DEF row
<1>9. ASSUME NEW j \in Items PROVE ItemInv(j)'
  <2>1. ItemInv(j)
    BY DEF BoardInv
  <2>2. CASE j = i
    BY <1>2, <1>5, <1>7, <1>8, <2>2, ConstantsAssumption DEF ItemInv
  <2>3. CASE j # i
    BY <1>6, <1>7, <2>1, <2>3 DEF ItemInv
  <2> QED
    BY <2>2, <2>3
<1>10. JobInv(p)'
  <2>1. job[p].act # "claim" /\ job[p].act # "none"
    BY <1>8 DEF Inserts
  <2>2. job'[p] = job[p] /\ row = job[p].copy
    BY <1>6 DEF row
  <2> QED
    BY <1>1, <1>2, <1>5, <1>7, <1>8, <2>1, <2>2 DEF JobInv, Inserts
<1>11. ASSUME NEW q \in Procs \ {p} PROVE JobInv(q)'
  <2>1. JobInv(q) /\ pc'[q] = pc[q] /\ job'[q] = job[q]
    BY <1>6, <1>7 DEF BoardInv
  <2>2. \A act : Recorded(job[q].item, act)' <=> Recorded(job[q].item, act)
    BY <1>6 DEF Recorded
  <2>3. CASE job[q].item # i
    <3>1. pc[q] \notin {"idle", "select"} => job[q].item \in Items \ {i}
      BY <2>3, JobFacts
    <3> QED
      BY <1>6, <1>7, <2>1, <2>2, <3>1 DEF JobInv
  <2>4. CASE job[q].item = i
    <3>1. pc[q] # "commit"
      BY <1>1, <2>4 DEF Locked, Holds
    <3>2. pc[q] # "idle" => job[q].actor # NoMember
      BY JobFacts, ConstantsAssumption
    <3>3. ~Inserts(q)
      <4>1. CASE Inserts(p)
        BY <2>4, <4>1 DEF BoardInv, Exclusive
      <4>2. CASE ~Inserts(p)
        <5>1. arrived[i] # 0
          BY <1>8, <4>2
        <5> QED
          BY <2>1, <2>4, <5>1 DEF JobInv, Inserts
      <4> QED
        BY <4>1, <4>2
    <3>4. pc[q] \in {"save", "record", "reason"} /\ job[q].act # "publish" =>
            row.assignee = job[q].actor
      BY <1>8, <2>1, <2>4, <3>2 DEF JobInv
    <3> QED
      BY <1>5, <1>7, <2>1, <2>2, <2>4, <3>1, <3>3, <3>4 DEF JobInv, Inserts
  <2> QED
    BY <2>3, <2>4
<1>12. Exclusive'
  <2>1. ~Inserts(p)'
    BY <1>7 DEF Inserts
  <2>2. \A q \in Procs : (Works(q)' <=> Works(q)) /\ (Inserts(q)' => Inserts(q))
    BY <1>6, <1>7, <2>1 DEF Works, Inserts
  <2> QED
    BY <1>6, <2>2 DEF BoardInv, Exclusive
<1>13. TrailAttributed'
  <2>1. CASE board[i].assignee = NoMember
    <3>1. \A k \in DOMAIN trail[i] : trail[i][k].act = "publish"
      BY <1>2, <2>1, UnassignedTrail
    <3> QED
      BY <1>6, <1>7, <3>1 DEF BoardInv, TrailAttributed
  <2>2. CASE board[i].assignee # NoMember
    <3>1. row.assignee = board[i].assignee
      BY <1>8, <2>2
    <3> QED
      BY <1>6, <1>7, <3>1 DEF BoardInv, TrailAttributed
  <2> QED
    BY <2>1, <2>2
<1> QED
  BY <1>3, <1>9, <1>10, <1>11, <1>12, <1>13 DEF BoardInv
LEMMA RecordKeepsInv ==
    ASSUME BoardInv, NEW p \in Procs, Record(p)
    PROVE  BoardInv'
<1> DEFINE i == job[p].item
           entry == [act |-> job[p].act, by |-> job[p].actor]
<1>1. pc[p] = "record" /\ JobInv(p) /\ job[p].act # "none"
  BY DEF BoardInv, Record, JobInv
<1>2. /\ i \in Items /\ i # NoItem /\ job[p] \in Jobs
      /\ job[p].actor \in Members /\ job[p].act \in Acts
  BY <1>1, JobFacts, ConstantsAssumption DEF Jobs
<1>3. TypeOK'
  BY <1>2, RecordTyped DEF BoardInv
<1>4. /\ trail' = [trail EXCEPT ![i] = Append(trail[i], entry)]
      /\ UNCHANGED <<board, arrived, created>>
  BY DEF Record
<1>5. /\ \A q \in Procs \ {p} : pc'[q] = pc[q] /\ job'[q] = job[q]
      /\ \/ pc'[p] = "idle" /\ job'[p] = NoJob
         \/ /\ pc'[p] = "reason" /\ job'[p] = job[p]
            /\ p \in Runners /\ job[p].act = "claim"
  <2>1. CASE p \in Runners /\ job[p].act = "claim"
    BY <2>1 DEF Record, BoardInv, TypeOK
  <2>2. CASE ~(p \in Runners /\ job[p].act = "claim")
    BY <2>2 DEF Record, Finish, BoardInv, TypeOK
  <2> QED
    BY <2>1, <2>2
\* The new entry is the last of the item's trail; nothing else changes there.
<1>6. /\ \A j \in Items \ {i} : trail'[j] = trail[j]
      /\ DOMAIN trail'[i] = DOMAIN trail[i] \cup {Len(trail[i]) + 1}
      /\ \A k \in DOMAIN trail[i] : trail'[i][k] = trail[i][k]
      /\ trail'[i][Len(trail[i]) + 1] = entry
  <2>1. trail[i] \in Seq(Records) /\ entry \in Records
    BY <1>2 DEF BoardInv, TypeOK, Records
  <2>2. trail'[i] = Append(trail[i], entry)
    BY <1>2, <1>4 DEF BoardInv, TypeOK
  <2>3. \A j \in Items \ {i} : trail'[j] = trail[j]
    BY <1>4 DEF BoardInv, TypeOK
  <2> HIDE DEF entry
  <2> QED
    BY <2>1, <2>2, <2>3
<1>7. \A j \in Items : ItemInv(j)'
  BY <1>4 DEF BoardInv, ItemInv
<1>8. JobInv(p)'
  <2>1. CASE pc'[p] = "idle"
    BY <1>5, <2>1 DEF JobInv, NoJob
  <2>2. CASE pc'[p] = "reason"
    BY <1>1, <1>2, <1>4, <1>5, <2>2 DEF JobInv
  <2> QED
    BY <1>5, <2>1, <2>2
<1>9. ASSUME NEW q \in Procs \ {p} PROVE JobInv(q)'
  <2>1. JobInv(q) /\ pc'[q] = pc[q] /\ job'[q] = job[q]
    BY <1>5 DEF BoardInv
  <2>2. SUFFICES ASSUME pc[q] = "record", job[q].act = "claim"
                 PROVE  ~Recorded(job[q].item, "claim")'
    BY <1>4, <2>1 DEF JobInv
  <2>3. job[q].item \in Items /\ ~Recorded(job[q].item, "claim")
    BY <2>1, <2>2, JobFacts DEF JobInv
  <2>4. CASE job[q].item # i
    BY <1>6, <2>1, <2>3, <2>4 DEF Recorded
  <2>5. CASE job[q].item = i
    <3>1. job[p].act # "claim"
      BY <1>2, <2>2, <2>5 DEF BoardInv, Exclusive, Works
    <3> QED
      BY <1>6, <2>1, <2>3, <2>5, <3>1 DEF Recorded
  <2> QED
    BY <2>4, <2>5
<1>10. Exclusive'
  <2>1. \A q \in Procs : (Works(q)' => Works(q)) /\ (Inserts(q)' => Inserts(q))
    BY <1>5 DEF Works, Inserts, NoJob
  <2>2. Works(p)' => job'[p].item = job[p].item
    BY <1>5 DEF Works, NoJob
  <2>3. ~Inserts(p)'
    BY <1>5 DEF Inserts
  <2> QED
    BY <1>5, <2>1, <2>2, <2>3 DEF BoardInv, Exclusive
<1>11. TrailAttributed'
  <2>1. entry.act # "publish" => entry.by = board[i].assignee
    BY <1>1 DEF JobInv
  <2> HIDE DEF entry
  <2> QED
    BY <1>4, <1>6, <2>1 DEF BoardInv, TrailAttributed
<1> QED
  BY <1>3, <1>7, <1>8, <1>9, <1>10, <1>11 DEF BoardInv

\* Steps that move no process and leave the item tables alone.
LEMMA BackgroundKeepsInv ==
    ASSUME BoardInv, TypeOK', UNCHANGED <<board, arrived, created, trail, pc, job>>
    PROVE  BoardInv'
BY DEF BoardInv, ItemInv, JobInv, Exclusive, Works, Inserts, TrailAttributed,
       Recorded

LEMMA InitKeepsInv == Init => BoardInv
<1> SUFFICES ASSUME Init PROVE BoardInv
  OBVIOUS
<1>1. TypeOK
  BY InitTyped
<1>2. \A i \in Items : ItemInv(i)
  BY DEF Init, ItemInv, NoRow
<1>3. \A p \in Procs : JobInv(p)
  BY DEF Init, JobInv, NoJob
<1>4. Exclusive
  BY DEF Init, Exclusive, Works, Inserts, NoJob
<1>5. TrailAttributed
  BY DEF Init, TrailAttributed
<1> QED
  BY <1>1, <1>2, <1>3, <1>4, <1>5 DEF BoardInv

LEMMA NextKeepsInv == BoardInv /\ [Next]_vars => BoardInv'
<1> SUFFICES ASSUME BoardInv, [Next]_vars PROVE BoardInv'
  OBVIOUS
<1>1. CASE UNCHANGED vars
  <2>1. TypeOK'
    BY <1>1 DEF BoardInv, TypeOK, vars
  <2> QED
    BY <1>1, <2>1, BackgroundKeepsInv DEF vars
<1>2. ASSUME NEW p \in Requests, NEW m \in Users, NEW i \in Items,
             NEW role \in Roles \cup {NoRole}, NEW k \in Priorities,
             PublishRequest(p, m, i, role, k)
      PROVE  BoardInv'
  <2>1. /\ Create(role, k) \in Rows
        /\ Create(role, k).state = "open"
        /\ Create(role, k).assignee = NoMember
    BY CreateIsRow DEF Rows
  <2>2. /\ Accept(p, m, "save", "publish", i, Create(role, k))
        /\ arrived[i] = 0
        /\ \A q \in Procs : ~(job[q].act = "publish" /\ job[q].item = i)
        /\ UNCHANGED <<members, board, arrived, created, trail, agent, held>>
    BY <1>2 DEF PublishRequest
  <2> QED
    BY <2>1, <2>2, AcceptKeepsInv DEF Acts
<1>3. ASSUME NEW p \in Requests, NEW m \in Users, ClaimRequest(p, m)
      PROVE  BoardInv'
  BY <1>3, AcceptKeepsInv DEF ClaimRequest, Acts, Rows
<1>4. ASSUME NEW p \in Requests, NEW m \in Users,
             NEW act \in {"start", "complete"}, NEW i \in Items,
             TransitionRequest(p, m, act, i)
      PROVE  BoardInv'
  BY <1>4, AcceptKeepsInv DEF TransitionRequest, Acts, Rows
<1>5. ASSUME NEW r \in Runners, Build(r) PROVE BoardInv'
  <2>1. AgentOf[r] \in Members
    BY ConstantsAssumption
  <2>2. TypeOK'
    BY <1>5, <2>1 DEF BoardInv, TypeOK, Build, Registered
  <2> QED
    BY <1>5, <2>2, BackgroundKeepsInv DEF Build
<1>6. ASSUME NEW r \in Runners, Stop(r) PROVE BoardInv'
  <2>1. TypeOK'
    BY <1>6 DEF BoardInv, TypeOK, Stop
  <2> QED
    BY <1>6, <2>1, BackgroundKeepsInv DEF Stop
<1>7. ASSUME NEW r \in Runners, RunOnce(r) PROVE BoardInv'
  BY <1>7, RunOnceKeepsInv
<1>8. ASSUME NEW p \in Procs, SelectNone(p) \/ Rollback(p) \/ Refuse(p) \/ Fail(p)
      PROVE  BoardInv'
  BY <1>8, FinishKeepsInv DEF SelectNone, Rollback, Refuse, Fail
<1>9. ASSUME NEW p \in Procs, Select(p) PROVE BoardInv'
  BY <1>9, SelectKeepsInv
<1>10. ASSUME NEW p \in Procs, Commit(p) PROVE BoardInv'
  BY <1>10, CommitKeepsInv
<1>11. ASSUME NEW p \in Procs, Read(p) PROVE BoardInv'
  BY <1>11, ReadKeepsInv
<1>12. ASSUME NEW p \in Procs, Save(p) PROVE BoardInv'
  BY <1>12, SaveKeepsInv
<1>13. ASSUME NEW p \in Procs, Record(p) PROVE BoardInv'
  BY <1>13, RecordKeepsInv
<1>14. ASSUME NEW r \in Runners, Reason(r) PROVE BoardInv'
  BY <1>14, ReasonKeepsInv
<1>15. ASSUME NEW m \in Members, NEW roles \in SUBSET Roles, UpsertMember(m, roles)
       PROVE  BoardInv'
  <2>1. TypeOK'
    BY <1>15 DEF BoardInv, TypeOK, UpsertMember
  <2> QED
    BY <1>15, <2>1, BackgroundKeepsInv DEF UpsertMember
<1> QED
  BY <1>1, <1>2, <1>3, <1>4, <1>5, <1>6, <1>7, <1>8, <1>9, <1>10, <1>11,
     <1>12, <1>13, <1>14, <1>15, NextCases

\* In every reachable state of the board, whatever the number of items,
\* requests, runners and members, and wherever processes fail, rows, jobs and
\* trails fit together as BoardInv says.
THEOREM BoardInvariant == Spec => []BoardInv
BY InitKeepsInv, NextKeepsInv, PTL DEF Spec

\* The tables and the local variables of every handler and runner keep their
\* types.
THEOREM TypeCorrect == Spec => []TypeOK
<1>1. BoardInv => TypeOK
  BY DEF BoardInv
<1> QED
  BY <1>1, BoardInvariant, PTL

\* No entry of the activity log credits anybody but the member an item is
\* assigned to.
THEOREM AuditIsTruthful == Spec => []TrailAttributed
<1>1. BoardInv => TrailAttributed
  BY DEF BoardInv
<1> QED
  BY <1>1, BoardInvariant, PTL

\* claimBy never refuses the row the SQL filter selected, and the row does not
\* change between the SELECT and the UPDATE of the transaction.
THEOREM SelectionIsStable == Spec => []SelectedStaysClaimable
<1>1. BoardInv => SelectedStaysClaimable
  BY DEF BoardInv, JobInv, SelectedStaysClaimable
<1> QED
  BY <1>1, BoardInvariant, PTL

\* Two processes never work on the same claimed item, and nobody writes over
\* the item of a runner.
THEOREM WorkIsExclusive == Spec => []WorkersDisjoint
<1>1. BoardInv => WorkersDisjoint
  <2> SUFFICES ASSUME BoardInv, NEW p \in Procs, NEW q \in Procs, p # q,
                      Works(p), Works(q) \/ (p \in Runners /\ pc[q] = "save")
               PROVE  job[p].item # job[q].item
    BY DEF WorkersDisjoint
  <2>1. CASE Works(q)
    BY <2>1 DEF BoardInv, Exclusive
  <2>2. CASE ~Works(q) /\ p \in Runners /\ pc[q] = "save"
    <3> SUFFICES ASSUME job[p].item = job[q].item PROVE FALSE
      OBVIOUS
    <3> DEFINE i == job[q].item
    <3>1. JobInv(p) /\ JobInv(q) /\ pc[p] \in PcLabels
      BY DEF BoardInv, TypeOK
    <3>2. i \in Items /\ i # NoItem /\ ItemInv(i)
      BY <2>2, JobFacts, ConstantsAssumption DEF BoardInv
    <3>3. q \notin Runners
      BY <2>2, <3>2 DEF Works
    <3>4. pc[p] \in {"commit", "save", "record", "reason"}
      BY <2>2, <3>1, <3>2, ConstantsAssumption DEF JobInv, PcLabels
    <3>5. job[p].actor \in Members \ Users /\ job[q].actor \in Users
      BY <2>2, <3>3, <3>4, JobFacts
    <3>6. job[p].act # "publish"
      BY <2>2, <3>1, ConstantsAssumption DEF JobInv
    <3>7. CASE pc[p] = "commit"
      <4>1. board[i].state = "open"
        BY <3>1, <3>7 DEF JobInv, CanBeClaimedBy
      <4> QED
        BY <2>2, <3>2, <4>1, OpenItemIsIdle
    <3>8. CASE pc[p] # "commit"
      <4>1. board[i].assignee = job[p].actor
        BY <3>1, <3>4, <3>6, <3>8 DEF JobInv
      <4>2. arrived[i] # 0
        BY <3>2, <3>5, <4>1, ConstantsAssumption DEF ItemInv
      <4>3. board[i].assignee = job[q].actor
        BY <2>2, <3>1, <4>2 DEF JobInv
      <4> QED
        BY <3>5, <4>1, <4>3
    <3> QED
      BY <3>7, <3>8
  <2> QED
    BY <2>1, <2>2
<1> QED
  BY <1>1, BoardInvariant, PTL
-----------------------------------------------------------------------------
(* The board implements SharedBoard *)

\* The abstract state depends on the item tables alone.
LEMMA MapUnchanged ==
    ASSUME UNCHANGED <<board, arrived, created, trail>>
    PROVE  UNCHANGED <<OwnerMap, CreditMap>>
BY DEF OwnerMap, CreditMap, CreditedTo

LEMMA CreditMapMembers ==
    /\ CreditMap \subseteq Items \X Members
    /\ \A i \in Items, m \in Members : <<i, m>> \in CreditMap <=> CreditedTo(i, m)
BY DEF CreditMap

LEMMA InitMaps == Init => Board!Init
<1> SUFFICES ASSUME Init PROVE Board!Init
  OBVIOUS
<1>1. OwnerMap = [i \in Items |-> Unregistered]
  BY DEF Init, OwnerMap
<1>2. CreditMap = {}
  BY DEF Init, CreditMap, CreditedTo
<1> QED
  BY <1>1, <1>2 DEF Board!Init

\* UPDATE and COMMIT of claimNext: the abstract claim.
LEMMA CommitMaps ==
    ASSUME BoardInv, NEW p \in Procs, Commit(p)
    PROVE  Board!Claim(job[p].item, job[p].actor) /\ job[p].item \in Items
           /\ job[p].actor \in Members
<1> DEFINE i == job[p].item
<1>1. /\ JobInv(p)
      /\ board[i] = job[p].copy
      /\ board[i].state = "open"
      /\ UNCHANGED <<arrived, created, trail>>
  BY DEF BoardInv, JobInv, Commit, CanBeClaimedBy
<1>2. i \in Items /\ job[p].actor \in Members /\ job[p].copy \in Rows
  BY JobFacts DEF Commit
<1>3. board' = [board EXCEPT ![i] = ClaimBy(job[p].copy, job[p].actor)]
  BY <1>1, <1>2, CommitTyped DEF BoardInv
<1>4. /\ board'[i].assignee = job[p].actor
      /\ \A j \in Items \ {i} : board'[j] = board[j]
  BY <1>2, <1>3, ClaimKeepsRows DEF BoardInv, TypeOK
<1>5. ItemInv(i)
  BY <1>2 DEF BoardInv
<1>6. OwnerMap[i] = NoMember
  BY <1>1, <1>2, <1>5 DEF OwnerMap, ItemInv
<1>7. OwnerMap' = [OwnerMap EXCEPT ![i] = job[p].actor]
  BY <1>1, <1>2, <1>4, <1>5 DEF OwnerMap, ItemInv
<1>8. CreditMap' = CreditMap
  BY <1>1 DEF CreditMap, CreditedTo
<1> QED
  BY <1>2, <1>6, <1>7, <1>8 DEF Board!Claim

\* save: the abstract publication, or nothing when it overwrites a row.
LEMMA SaveMaps ==
    ASSUME BoardInv, BoardInv', NEW p \in Procs, Save(p)
    PROVE  \/ job[p].item \in Items /\ Board!Publish(job[p].item)
           \/ UNCHANGED <<OwnerMap, CreditMap>>
<1> DEFINE i == job[p].item
           row == job[p].copy
<1>1. JobInv(p) /\ i \in Items /\ pc[p] = "save" /\ job[p].actor # NoMember
  BY JobFacts, ConstantsAssumption DEF BoardInv, Save
<1>2. ItemInv(i) /\ ItemInv(i)' /\ trail' = trail /\ job' = job
  BY <1>1 DEF BoardInv, Save
<1>3. /\ board'[i] = row
      /\ \A j \in Items \ {i} : board'[j] = board[j] /\ arrived'[j] = arrived[j]
      /\ arrived[i] # 0 => arrived' = arrived
  BY <1>1, Stamps DEF Save, BoardInv, TypeOK
<1>4. CreditMap' = CreditMap
  BY <1>2 DEF CreditMap, CreditedTo
<1> HIDE DEF row
<1>5. CASE job[p].act = "publish"
  <2>1. arrived[i] = 0 /\ row.state = "open" /\ row.assignee = NoMember
    BY <1>1, <1>5 DEF JobInv, row
  <2>2. arrived'[i] # 0
    BY <1>2, <1>3, <2>1 DEF ItemInv
  <2>3. OwnerMap[i] = Unregistered
    BY <1>1, <2>1 DEF OwnerMap
  <2>4. OwnerMap' = [OwnerMap EXCEPT ![i] = NoMember]
    BY <1>1, <1>3, <2>1, <2>2 DEF OwnerMap
  <2> QED
    BY <1>1, <1>4, <2>3, <2>4 DEF Board!Publish
<1>6. CASE job[p].act # "publish"
  <2>1. board[i].assignee = job[p].actor /\ row.assignee = job[p].actor
    BY <1>1, <1>6 DEF JobInv, row
  <2>2. arrived[i] # 0
    BY <1>1, <1>2, <2>1 DEF ItemInv
  <2>3. OwnerMap' = OwnerMap
    BY <1>3, <2>1, <2>2 DEF OwnerMap
  <2> QED
    BY <1>4, <2>3
<1> QED
  BY <1>5, <1>6

\* record: the abstract credit when it records a claim, else nothing.
\* Two sets of pairs are equal if they have the same pairs.
LEMMA PairsAgree ==
    ASSUME NEW A, NEW B, NEW S, NEW T, S \subseteq A \X B, T \subseteq A \X B,
           \A a \in A, b \in B : <<a, b>> \in S <=> <<a, b>> \in T
    PROVE  S = T
<1>1. ASSUME NEW x \in A \X B PROVE x \in S <=> x \in T
  <2>1. PICK a \in A, b \in B : x = <<a, b>>
    OBVIOUS
  <2> QED
    BY <2>1
<1> QED
  BY <1>1

LEMMA RecordMaps ==
    ASSUME BoardInv, NEW p \in Procs, NEW i \in Items, i = job[p].item,
           Record(p)
    PROVE  Board!Credit(i) \/ UNCHANGED <<OwnerMap, CreditMap>>
<1> DEFINE entry == [act |-> job[p].act, by |-> job[p].actor]
<1>1. /\ JobInv(p) /\ i \in Items /\ pc[p] = "record"
      /\ job[p].actor \in Members
      /\ UNCHANGED <<board, arrived, created>>
  BY JobFacts DEF BoardInv, Record
<1>2. trail[i] \in Seq(Records) /\ job[p].act \in Acts
  BY <1>1, JobFacts DEF BoardInv, TypeOK, JobInv, Jobs
<1>3. OwnerMap' = OwnerMap
  BY <1>1 DEF OwnerMap
<1>4. /\ trail'[i] = Append(trail[i], entry)
      /\ \A j \in Items \ {i} : trail'[j] = trail[j]
  BY <1>1 DEF Record, BoardInv, TypeOK
<1> HIDE DEF entry
<1>5. entry \in Records
  BY <1>1, <1>2 DEF entry, Records
<1>6. ASSUME NEW m \in Members
      PROVE  CreditedTo(i, m)' <=>
               CreditedTo(i, m) \/ entry = [act |-> "claim", by |-> m]
  <2> DEFINE e == [act |-> "claim", by |-> m]
  <2> HIDE DEF e
  <2>1. (\E k \in DOMAIN trail'[i] : trail'[i][k] = e)
        <=> (\E k \in DOMAIN trail[i] : trail[i][k] = e) \/ entry = e
    <3>1. /\ DOMAIN trail'[i] = DOMAIN trail[i] \cup {Len(trail[i]) + 1}
          /\ \A k \in DOMAIN trail[i] : trail'[i][k] = trail[i][k]
          /\ trail'[i][Len(trail[i]) + 1] = entry
      BY <1>2, <1>4, <1>5
    <3> QED
      BY <3>1
  <2> QED
    BY <2>1 DEF e, CreditedTo
<1>7. CASE job[p].act = "claim"
  <2>1. ~Recorded(i, "claim") /\ board[i].assignee = job[p].actor /\ arrived[i] # 0
    BY <1>1, <1>7 DEF JobInv
  <2>2. OwnerMap[i] = job[p].actor
    BY <1>1, <2>1 DEF OwnerMap
  <2>3. \A m \in Members : <<i, m>> \notin CreditMap
    <3>1. \A m \in Members : ~CreditedTo(i, m)
      BY <2>1 DEF Recorded, CreditedTo
    <3> QED
      BY <3>1, CreditMapMembers
  <2>4. \A m \in Members : entry = [act |-> "claim", by |-> m] <=> m = job[p].actor
    BY <1>1, <1>7 DEF entry
  <2>5. CreditMap' = CreditMap \cup {<<i, job[p].actor>>}
    <3>0. /\ CreditMap \subseteq Items \X Members
          /\ CreditMap' \subseteq Items \X Members
          /\ \A j \in Items, m \in Members :
               /\ <<j, m>> \in CreditMap <=> CreditedTo(j, m)
               /\ <<j, m>> \in CreditMap' <=> CreditedTo(j, m)'
      BY DEF CreditMap
    <3>1. ASSUME NEW j \in Items, NEW m \in Members
          PROVE  <<j, m>> \in CreditMap' <=>
                   <<j, m>> \in CreditMap \/ <<j, m>> = <<i, job[p].actor>>
      <4>1. CASE j = i
        BY <1>6, <2>4, <4>1, <3>0
      <4>2. CASE j # i
        <5>1. CreditedTo(j, m)' <=> CreditedTo(j, m)
          BY <1>4, <4>2 DEF CreditedTo
        <5> QED
          BY <3>0, <4>2, <5>1
      <4> QED
        BY <4>1, <4>2
    <3>2. CreditMap \cup {<<i, job[p].actor>>} \subseteq Items \X Members
      BY <1>1, <3>0
    <3> QED
      BY <3>0, <3>1, <3>2, PairsAgree
  <2> QED
    BY <1>1, <1>3, <2>2, <2>3, <2>5 DEF Board!Credit
<1>8. CASE job[p].act # "claim"
  <2>1. \A m \in Members : entry # [act |-> "claim", by |-> m]
    BY <1>8 DEF entry
  <2>2. CreditMap' = CreditMap
    <3>0. /\ CreditMap \subseteq Items \X Members
          /\ CreditMap' \subseteq Items \X Members
          /\ \A j \in Items, m \in Members :
               /\ <<j, m>> \in CreditMap <=> CreditedTo(j, m)
               /\ <<j, m>> \in CreditMap' <=> CreditedTo(j, m)'
      BY DEF CreditMap
    <3>1. ASSUME NEW j \in Items, NEW m \in Members
          PROVE  <<j, m>> \in CreditMap' <=> <<j, m>> \in CreditMap
      <4>1. CASE j = i
        BY <1>6, <2>1, <4>1, <3>0
      <4>2. CASE j # i
        <5>1. CreditedTo(j, m)' <=> CreditedTo(j, m)
          BY <1>4, <4>2 DEF CreditedTo
        <5> QED
          BY <3>0, <4>2, <5>1
      <4> QED
        BY <4>1, <4>2
    <3>2. CreditMap' \subseteq Items \X Members /\ CreditMap \subseteq Items \X Members
      BY <3>0
    <3> QED
      BY <3>1, <3>2, PairsAgree, Zenon
  <2> QED
    BY <1>3, <2>2
<1> QED
  BY <1>7, <1>8

LEMMA NextMaps == BoardInv /\ BoardInv' /\ [Next]_vars => [Board!Next]_(Board!vars)
<1> SUFFICES ASSUME BoardInv, BoardInv', [Next]_vars
             PROVE  [Board!Next]_(Board!vars)
  OBVIOUS
<1>1. CASE UNCHANGED <<board, arrived, created, trail>>
  BY <1>1, MapUnchanged DEF Board!vars
<1>2. ASSUME NEW p \in Procs, Commit(p) PROVE Board!Next
  BY <1>2, CommitMaps DEF Board!Next
<1>3. ASSUME NEW p \in Procs, Save(p) PROVE [Board!Next]_(Board!vars)
  BY <1>3, SaveMaps DEF Board!Next, Board!vars
<1>4. ASSUME NEW p \in Procs, Record(p) PROVE [Board!Next]_(Board!vars)
  <2>1. job[p].item \in Items
    BY <1>4, JobFacts DEF Record
  <2> QED
    BY <1>4, <2>1, RecordMaps DEF Board!Next, Board!vars
<1>5. \/ UNCHANGED <<board, arrived, created, trail>>
      \/ \E p \in Procs : Commit(p) \/ Save(p) \/ Record(p)
  <2>1. CASE UNCHANGED vars
    BY <2>1 DEF vars
  <2>2. CASE Next
    BY <2>2, NextCases
    DEF PublishRequest, ClaimRequest, TransitionRequest, Build, Stop, RunOnce,
        SelectNone, Rollback, Refuse, Fail, Select, Read, Reason, UpsertMember
  <2> QED
    BY <2>1, <2>2
<1> QED
  BY <1>1, <1>2, <1>3, <1>4, <1>5

\* Transactions, stale rows, crashes and all, the board does what SharedBoard
\* promises: each item is handed out exactly once, for good, and the claim is
\* credited at most once, to its owner.
THEOREM BoardImplementsSharedBoard == Spec => ImplementsSharedBoard
<1>1. Init => Board!Init
  BY InitMaps
<1>2. BoardInv /\ BoardInv' /\ [Next]_vars => [Board!Next]_(Board!vars)
  BY NextMaps
<1> QED
  BY <1>1, <1>2, BoardInvariant, PTL DEF Spec, ImplementsSharedBoard, Board!Spec

-----------------------------------------------------------------------------
(* Roles and the gate *)

\* What one process relies on: its copy of the member's roles tells no role the
\* member has not held, and its copy of the row the role the row requires.
JobRoles(p) ==
    /\ pc[p] \in {"select", "commit"} => job[p].roles \subseteq held[job[p].actor]
    /\ pc[p] = "commit" => EligibleRole(job[p].item, job[p].roles)
    /\ pc[p] \in {"save", "record", "reason"} /\ job[p].act # "publish" =>
         job[p].copy.requiredRole = board[job[p].item].requiredRole

RolesInv ==
    /\ \A m \in Members : Registered(m) => members[m] \subseteq held[m]
    /\ \A r \in Runners : agent[r] # Off => agent[r] \subseteq held[AgentOf[r]]
    /\ \A p \in Procs : JobRoles(p)
    /\ GatedClaim

\* A step that leaves rows and members alone and moves one process.
LEMMA QuietRoles ==
    ASSUME BoardInv, RolesInv, NEW p \in Procs,
           UNCHANGED <<members, board, held, agent>>,
           \A q \in Procs \ {p} : pc'[q] = pc[q] /\ job'[q] = job[q],
           JobRoles(p)'
    PROVE  RolesInv'
<1>1. ASSUME NEW q \in Procs PROVE JobRoles(q)'
  <2>1. CASE q = p
    BY <2>1
  <2>2. CASE q # p
    BY <2>2 DEF RolesInv, JobRoles, EligibleRole
  <2> QED
    BY <2>1, <2>2
<1>2. GatedClaim'
  BY DEF RolesInv, GatedClaim
<1> QED
  BY <1>1, <1>2 DEF RolesInv, JobRoles, Registered

LEMMA FinishKeepsRoles ==
    ASSUME BoardInv, RolesInv, NEW p \in Procs, Finish(p),
           UNCHANGED <<members, board, held, agent>>
    PROVE  RolesInv'
<1>1. /\ pc'[p] = "idle"
      /\ \A q \in Procs \ {p} : pc'[q] = pc[q] /\ job'[q] = job[q]
  BY DEF BoardInv, TypeOK, Finish
<1>2. JobRoles(p)'
  BY <1>1 DEF JobRoles
<1> QED
  BY <1>1, <1>2, QuietRoles

\* A request starts with the member's row, which tells roles the member holds.
LEMMA AcceptKeepsRoles ==
    ASSUME BoardInv, RolesInv, NEW p \in Requests, NEW m \in Users,
           NEW label \in {"select", "read", "save"}, NEW act, NEW item, NEW copy,
           Accept(p, m, label, act, item, copy),
           label = "save" => act = "publish",
           UNCHANGED <<members, board, held, agent>>
    PROVE  RolesInv'
<1>1. /\ pc'[p] = label
      /\ job'[p] = [actor |-> m, roles |-> members[m], act |-> act,
                    item |-> item, copy |-> copy]
      /\ \A q \in Procs \ {p} : pc'[q] = pc[q] /\ job'[q] = job[q]
  BY DEF BoardInv, TypeOK, Accept
<1>2. members[m] \subseteq held[m] /\ UNCHANGED held
  BY ConstantsAssumption DEF RolesInv, Accept
<1>3. JobRoles(p)'
  BY <1>1, <1>2 DEF JobRoles
<1> QED
  BY <1>1, <1>3, QuietRoles

\* A step that changes one row, in its state and assignee at most, or inserts
\* a row that is unassigned.
LEMMA RowKeepsRoles ==
    ASSUME BoardInv, BoardInv', RolesInv, NEW p \in Procs, NEW i \in Items,
           job[p].item = i,
           UNCHANGED <<members, held, agent>>,
           \A q \in Procs \ {p} : pc'[q] = pc[q] /\ job'[q] = job[q],
           pc'[p] = "record",
           job'[p].act = job[p].act /\ job'[p].item = i,
           \A j \in Items \ {i} : board'[j] = board[j],
           ~Locked(i) \/ Holds(p, i),
           job[p].act # "publish" =>
               /\ board'[i].requiredRole = board[i].requiredRole
               /\ job'[p].copy.requiredRole = board[i].requiredRole,
           job[p].act = "publish" => arrived[i] = 0,
           /\ board'[i].assignee # NoMember
           /\ board'[i].requiredRole # NoRole
           => board'[i].requiredRole \in held[board'[i].assignee]
    PROVE  RolesInv'
<1>1. ASSUME NEW q \in Procs PROVE JobRoles(q)'
  <2>1. CASE q = p
    BY <2>1 DEF JobRoles
  <2>2. CASE q # p
    <3>1. JobRoles(q) /\ pc'[q] = pc[q] /\ job'[q] = job[q]
      BY <2>2 DEF RolesInv, JobRoles
    <3>2. CASE job[q].item # i
      <4>1. pc[q] \notin {"idle", "select"} => job[q].item \in Items
        BY JobFacts
      <4> QED
        BY <3>1, <3>2, <4>1 DEF JobRoles, EligibleRole
    <3>3. CASE job[q].item = i
      <4>1. pc[q] # "commit"
        <5>1. CASE ~Locked(i)
          BY <3>3, <5>1 DEF Locked, Holds
        <5>2. CASE Holds(p, i)
          <6>1. pc[p] = "commit" /\ job[p].act = "claim"
            BY <5>2 DEF Holds, BoardInv, JobInv
          <6>2. ASSUME pc[q] = "commit" PROVE FALSE
            <7>1. job[q].act = "claim"
              BY <6>2 DEF BoardInv, JobInv
            <7>2. i # NoItem
              BY ConstantsAssumption
            <7>3. Works(p) /\ Works(q)
              BY <3>3, <6>1, <7>1, <7>2 DEF Works
            <7> QED
              BY <2>2, <3>3, <7>3 DEF BoardInv, Exclusive
          <6> QED
            BY <6>2
        <5> QED
          BY <5>1, <5>2
      <4>2. CASE job[p].act # "publish"
        BY <3>1, <3>3, <4>1, <4>2 DEF JobRoles
      <4>3. CASE job[p].act = "publish"
        <5>1. board[i].assignee = NoMember /\ arrived[i] = 0
          BY <4>3 DEF BoardInv, ItemInv
        <5>2. ASSUME pc[q] \in {"save", "record", "reason"}, job[q].act # "publish"
              PROVE  FALSE
          <6>1. board[i].assignee = job[q].actor
            BY <3>3, <5>2 DEF BoardInv, JobInv
          <6>2. job[q].actor \in Members
            BY <5>2, JobFacts
          <6> QED
            BY <5>1, <6>1, <6>2, ConstantsAssumption
        <5> QED
          BY <3>1, <4>1, <5>2 DEF JobRoles
      <4> QED
        BY <4>2, <4>3
    <3> QED
      BY <3>2, <3>3
  <2> QED
    BY <2>1, <2>2
<1>2. GatedClaim'
  BY DEF RolesInv, GatedClaim
<1> QED
  BY <1>1, <1>2 DEF RolesInv, JobRoles, Registered

LEMMA CommitKeepsRoles ==
    ASSUME BoardInv, BoardInv', RolesInv, NEW p \in Procs, Commit(p)
    PROVE  RolesInv'
<1> DEFINE i == job[p].item
<1>1. /\ pc[p] = "commit"
      /\ i \in Items
      /\ job[p].copy \in Rows
      /\ job[p].actor \in Members
      /\ job[p].act = "claim"
      /\ board[i] = job[p].copy
  BY JobFacts DEF Commit, BoardInv, JobInv
<1>2. /\ board' = [board EXCEPT ![i] = ClaimBy(job[p].copy, job[p].actor)]
      /\ ClaimBy(job[p].copy, job[p].actor).assignee = job[p].actor
      /\ ClaimBy(job[p].copy, job[p].actor).requiredRole = board[i].requiredRole
  BY <1>1, CommitTyped, ClaimKeepsRows DEF BoardInv
<1>3. /\ pc'[p] = "record"
      /\ job'[p].act = job[p].act
      /\ job'[p].item = i
      /\ job'[p].copy = ClaimBy(job[p].copy, job[p].actor)
      /\ \A q \in Procs \ {p} : pc'[q] = pc[q] /\ job'[q] = job[q]
      /\ UNCHANGED <<members, held, agent>>
  BY <1>1 DEF Commit, BoardInv, TypeOK, Jobs
<1>4. /\ board'[i].assignee = job[p].actor
      /\ board'[i].requiredRole = board[i].requiredRole
      /\ \A j \in Items \ {i} : board'[j] = board[j]
  BY <1>1, <1>2 DEF BoardInv, TypeOK
<1>5. EligibleRole(i, job[p].roles) /\ job[p].roles \subseteq held[job[p].actor]
  BY <1>1 DEF RolesInv, JobRoles
<1>6. board'[i].requiredRole # NoRole =>
        board'[i].requiredRole \in held[board'[i].assignee]
  BY <1>4, <1>5 DEF EligibleRole
<1>7. Holds(p, i)
  BY <1>1 DEF Holds
<1> HIDE DEF i
<1> QED
  BY <1>1, <1>2, <1>3, <1>4, <1>6, <1>7, RowKeepsRoles DEF i

LEMMA SaveKeepsRoles ==
    ASSUME BoardInv, BoardInv', RolesInv, NEW p \in Procs, Save(p)
    PROVE  RolesInv'
<1> DEFINE i == job[p].item
<1>1. pc[p] = "save" /\ i \in Items /\ job[p].act # "none" /\ ~Locked(i)
  BY JobFacts DEF Save, BoardInv, JobInv
<1>2. /\ board'[i] = job[p].copy
      /\ \A j \in Items \ {i} : board'[j] = board[j]
      /\ pc'[p] = "record"
      /\ \A q \in Procs \ {p} : pc'[q] = pc[q]
      /\ UNCHANGED <<members, held, agent, job>>
  BY <1>1 DEF Save, BoardInv, TypeOK
<1>3. CASE job[p].act = "publish"
  <2>1. job[p].copy.assignee = NoMember /\ arrived[i] = 0
    <3>1. JobInv(p)
      BY DEF BoardInv
    <3> QED
      BY <1>1, <1>3, <3>1 DEF JobInv
  <2> HIDE DEF i
  <2> QED
    BY <1>1, <1>2, <1>3, <2>1, RowKeepsRoles DEF i
<1>4. CASE job[p].act # "publish"
  <2>1. /\ job[p].copy.requiredRole = board[i].requiredRole
        /\ job[p].copy.assignee = board[i].assignee
    <3>1. JobInv(p) /\ JobRoles(p)
      BY DEF BoardInv, RolesInv
    <3> QED
      BY <1>1, <1>4, <3>1 DEF JobInv, JobRoles
  <2>2. GatedClaim
    BY DEF RolesInv
  <2>3. /\ board'[i].assignee # NoMember
        /\ board'[i].requiredRole # NoRole
        => board'[i].requiredRole \in held[board'[i].assignee]
    BY <1>1, <1>2, <2>1, <2>2 DEF GatedClaim
  <2> HIDE DEF i
  <2> QED
    BY <1>1, <1>2, <1>4, <2>1, <2>3, RowKeepsRoles DEF i
<1> QED
  BY <1>3, <1>4

LEMMA UpsertKeepsRoles ==
    ASSUME BoardInv, RolesInv, NEW m \in Members, NEW roles \in SUBSET Roles,
           UpsertMember(m, roles)
    PROVE  RolesInv'
<1>1. /\ \A n \in Members : held[n] \subseteq held'[n]
      /\ members'[m] \subseteq held'[m]
      /\ \A n \in Members \ {m} : members'[n] = members[n]
      /\ UNCHANGED <<board, agent, pc, job>>
  BY DEF UpsertMember, BoardInv, TypeOK
<1>2. ASSUME NEW p \in Procs PROVE JobRoles(p)'
  <2>1. pc[p] # "idle" => job[p].actor \in Members
    BY JobFacts
  <2> QED
    BY <1>1, <2>1 DEF RolesInv, JobRoles, EligibleRole
<1>3. \A r \in Runners : agent'[r] # Off => agent'[r] \subseteq held'[AgentOf[r]]
  BY <1>1, ConstantsAssumption DEF RolesInv
<1>4. \A n \in Members : Registered(n)' => members'[n] \subseteq held'[n]
  BY <1>1 DEF RolesInv, Registered
<1>5. GatedClaim'
  <2>1. \A i \in Items : board[i].assignee \in Members \cup {NoMember}
    BY DEF BoardInv, TypeOK, Rows, WorkItemProps, NoRow
  <2> QED
    BY <1>1, <2>1 DEF RolesInv, GatedClaim
<1> QED
  BY <1>2, <1>3, <1>4, <1>5 DEF RolesInv

LEMMA NextKeepsRoles ==
    ASSUME BoardInv, BoardInv', RolesInv, [Next]_vars
    PROVE  RolesInv'
<1>1. CASE UNCHANGED vars
  BY <1>1 DEF vars, RolesInv, JobRoles, Registered, GatedClaim, EligibleRole
<1>2. ASSUME NEW p \in Requests, NEW m \in Users, NEW i \in Items,
             NEW role \in Roles \cup {NoRole}, NEW k \in Priorities,
             PublishRequest(p, m, i, role, k)
      PROVE  RolesInv'
  BY <1>2, AcceptKeepsRoles DEF PublishRequest
<1>3. ASSUME NEW p \in Requests, NEW m \in Users, ClaimRequest(p, m)
      PROVE  RolesInv'
  BY <1>3, AcceptKeepsRoles DEF ClaimRequest
<1>4. ASSUME NEW p \in Requests, NEW m \in Users,
             NEW act \in {"start", "complete"}, NEW i \in Items,
             TransitionRequest(p, m, act, i)
      PROVE  RolesInv'
  BY <1>4, AcceptKeepsRoles DEF TransitionRequest
<1>5. ASSUME NEW r \in Runners, Build(r) PROVE RolesInv'
  <2>1. /\ agent'[r] = IF Registered(AgentOf[r]) THEN members[AgentOf[r]] ELSE {}
        /\ \A s \in Runners \ {r} : agent'[s] = agent[s]
        /\ UNCHANGED <<members, board, pc, job, held>>
    BY <1>5 DEF Build, BoardInv, TypeOK
  <2>2. AgentOf[r] \in Members
    BY ConstantsAssumption
  <2>3. agent'[r] \subseteq held[AgentOf[r]]
    BY <2>1, <2>2 DEF RolesInv
  <2> QED
    BY <2>1, <2>3 DEF RolesInv, JobRoles, Registered, GatedClaim, EligibleRole
<1>6. ASSUME NEW r \in Runners, Stop(r) PROVE RolesInv'
  <2>1. /\ agent'[r] = Off
        /\ \A s \in Runners \ {r} : agent'[s] = agent[s]
        /\ UNCHANGED <<members, board, pc, job, held>>
    BY <1>6 DEF Stop, BoardInv, TypeOK
  <2> QED
    BY <2>1 DEF RolesInv, JobRoles, Registered, GatedClaim, EligibleRole
<1>7. ASSUME NEW r \in Runners, RunOnce(r) PROVE RolesInv'
  <2>1. /\ pc'[r] = "select"
        /\ job'[r].roles = agent[r]
        /\ job'[r].actor = AgentOf[r]
        /\ \A q \in Procs \ {r} : pc'[q] = pc[q] /\ job'[q] = job[q]
        /\ UNCHANGED <<members, board, agent, held>>
    BY <1>7 DEF RunOnce, BoardInv, TypeOK
  <2>2. agent[r] \subseteq held[AgentOf[r]]
    BY <1>7 DEF RunOnce, RolesInv
  <2>3. JobRoles(r)'
    BY <2>1, <2>2 DEF JobRoles
  <2> QED
    BY <2>1, <2>3, QuietRoles
<1>8. ASSUME NEW p \in Procs, SelectNone(p) \/ Rollback(p) \/ Refuse(p) \/ Fail(p)
      PROVE  RolesInv'
  BY <1>8, FinishKeepsRoles DEF SelectNone, Rollback, Refuse, Fail
<1>9. ASSUME NEW p \in Procs, Select(p) PROVE RolesInv'
  <2>1. PICK i \in Candidates(p) :
          job' = [job EXCEPT ![p].item = i, ![p].copy = board[i]]
    BY <1>9 DEF Select
  <2>2. EligibleRole(i, job[p].roles)
    BY DEF Candidates
  <2>3. /\ pc[p] = "select"
        /\ pc'[p] = "commit"
        /\ job'[p].item = i
        /\ job'[p].roles = job[p].roles
        /\ job'[p].actor = job[p].actor
        /\ \A q \in Procs \ {p} : pc'[q] = pc[q] /\ job'[q] = job[q]
        /\ UNCHANGED <<members, board, agent, held>>
    BY <1>9, <2>1 DEF Select, BoardInv, TypeOK, Jobs
  <2>4. JobRoles(p)'
    BY <2>2, <2>3 DEF JobRoles, RolesInv, EligibleRole
  <2> QED
    BY <2>3, <2>4, QuietRoles
<1>10. ASSUME NEW p \in Procs, Read(p) PROVE RolesInv'
  <2>1. job[p] \in Jobs /\ job[p].item \in Items /\ job[p].act \in {"start", "complete"}
    BY <1>10, JobFacts DEF Read, BoardInv, JobInv
  <2>2. Apply(board[job[p].item], job[p].act).requiredRole
          = board[job[p].item].requiredRole
    BY <2>1, NoRowFields DEF Apply, BoardInv, TypeOK, Rows, WorkItemProps
  <2>3. /\ pc'[p] = "save"
        /\ job'[p].item = job[p].item
        /\ job'[p].copy = Apply(board[job[p].item], job[p].act)
        /\ \A q \in Procs \ {p} : pc'[q] = pc[q] /\ job'[q] = job[q]
        /\ UNCHANGED <<members, board, agent, held>>
    BY <1>10, <2>1 DEF Read, BoardInv, TypeOK, Jobs
  <2>4. JobRoles(p)'
    BY <2>2, <2>3 DEF JobRoles
  <2> QED
    BY <2>3, <2>4, QuietRoles
<1>11. ASSUME NEW r \in Runners, Reason(r) PROVE RolesInv'
  <2>1. /\ job[r] \in Jobs
        /\ job[r].copy \in Rows
        /\ job[r].act = "claim"
        /\ job[r].copy.requiredRole = board[job[r].item].requiredRole
    <3>1. pc[r] = "reason"
      BY <1>11 DEF Reason
    <3>2. job[r].act = "claim"
      BY <3>1 DEF BoardInv, JobInv
    <3> QED
      BY <3>1, <3>2, JobFacts DEF RolesInv, JobRoles
  <2>2. Apply(Apply(job[r].copy, "start"), "complete").requiredRole
          = job[r].copy.requiredRole
    BY <2>1, NoRowFields DEF Apply, Rows, WorkItemProps
  <2>3. /\ pc'[r] = "save"
        /\ job'[r].item = job[r].item
        /\ job'[r].copy = Apply(Apply(job[r].copy, "start"), "complete")
        /\ \A q \in Procs \ {r} : pc'[q] = pc[q] /\ job'[q] = job[q]
        /\ UNCHANGED <<members, board, agent, held>>
    BY <1>11, <2>1 DEF Reason, BoardInv, TypeOK, Jobs
  <2>4. JobRoles(r)'
    BY <2>1, <2>2, <2>3 DEF JobRoles
  <2> QED
    BY <2>3, <2>4, QuietRoles
<1>12. ASSUME NEW p \in Procs, Record(p) PROVE RolesInv'
  <2>1. CASE p \in Runners /\ job[p].act = "claim"
    <3>1. /\ pc[p] = "record" /\ pc'[p] = "reason"
          /\ \A q \in Procs \ {p} : pc'[q] = pc[q]
          /\ UNCHANGED <<members, board, agent, held, job>>
      BY <1>12, <2>1 DEF Record, BoardInv, TypeOK
    <3>2. JobRoles(p)'
      BY <3>1 DEF JobRoles, RolesInv
    <3> QED
      BY <3>1, <3>2, QuietRoles
  <2>2. CASE ~(p \in Runners /\ job[p].act = "claim")
    BY <1>12, <2>2, FinishKeepsRoles DEF Record
  <2> QED
    BY <2>1, <2>2
<1> QED
  BY <1>1, <1>2, <1>3, <1>4, <1>5, <1>6, <1>7, <1>8, <1>9, <1>10, <1>11, <1>12,
     NextCases, CommitKeepsRoles, SaveKeepsRoles, UpsertKeepsRoles

\* A role-gated item only ever goes to a member who has held its role, however
\* stale the copy of the member its claim was decided on.
THEOREM GatedItemsStayGated == Spec => []GatedClaim
<1>1. Init => RolesInv
  BY ConstantsAssumption
  DEF Init, RolesInv, JobRoles, Registered, GatedClaim, NoRow
<1>2. BoardInv /\ BoardInv' /\ RolesInv /\ [Next]_vars => RolesInv'
  BY NextKeepsRoles
<1>3. RolesInv => GatedClaim
  BY DEF RolesInv
<1> QED
  BY <1>1, <1>2, <1>3, BoardInvariant, PTL DEF Spec

\* What claimNext leaves out when it answers null, it leaves out for its blank
\* role only: for every other item the query and the domain rule agree.
THEOREM NullAnswersAreRight == Spec => []NothingLeftOut
<1>1. NothingLeftOut
  BY DEF NothingLeftOut, Candidates, CanBeClaimedBy, Gated, EligibleRole
<1> QED
  BY <1>1, PTL

-----------------------------------------------------------------------------
(* The order of an item's life, when users wait for answers                  *)

\* How much of its life an item in a given state has behind it: as many of
\* claim, start and complete as Rank counts.
Stage == [absent |-> 0, open |-> 0, claimed |-> 1, in_progress |-> 2, done |-> 3]

TellsAtMost(i, n) ==
    \A k \in DOMAIN trail[i] :
        trail[i][k].act # "publish" => Rank[trail[i][k].act] <= n

\* No two requests act for one user.
Alone ==
    \A p, q \in Requests :
        p # q /\ job[p].actor # NoMember => job[p].actor # job[q].actor

\* Whoever is about to change or to record an assigned item knows its row.
JobOrder(p) ==
    LET i == job[p].item
    IN  job[p].act # "publish" =>
          /\ pc[p] = "save" =>
               /\ Stage[board[i].state] < Rank[job[p].act]
               /\ job[p].copy.state = Lifecycle[job[p].act].to
          /\ pc[p] = "record" =>
               /\ Stage[board[i].state] = Rank[job[p].act]
               /\ TellsAtMost(i, Rank[job[p].act] - 1)
          /\ pc[p] = "reason" => Stage[board[i].state] = 1

ItemOrder(i) ==
    /\ board[i].state \in DOMAIN Stage
    /\ TellsAtMost(i, Stage[board[i].state])

OrderInv ==
    /\ Alone
    /\ \A i \in Items : ItemOrder(i)
    /\ \A p \in Procs : JobOrder(p)
    /\ TrailInOrder

LEMMA StageFacts ==
    /\ DOMAIN Stage = {"absent", "open", "claimed", "in_progress", "done"}
    /\ Stage["absent"] = 0 /\ Stage["open"] = 0 /\ Stage["claimed"] = 1
    /\ Stage["in_progress"] = 2 /\ Stage["done"] = 3
    /\ Rank["publish"] = 0 /\ Rank["claim"] = 1 /\ Rank["start"] = 2
    /\ Rank["complete"] = 3
    /\ Lifecycle["start"].to = "in_progress" /\ Lifecycle["complete"].to = "done"
    /\ Lifecycle["start"].from = {"claimed"}
    /\ Lifecycle["complete"].from = {"in_progress"}
    /\ Phase["absent"] = 0 /\ Phase["open"] = 1 /\ Phase["claimed"] = 2
    /\ Phase["in_progress"] = 3 /\ Phase["done"] = 4
BY DEF Stage, Rank, Lifecycle, Phase

\* Who is about to change or to record an item it is assigned.
Busy(p, i) ==
    /\ pc[p] \in {"save", "record", "reason"}
    /\ job[p].act # "publish"
    /\ job[p].item = i

LEMMA BusyOwns ==
    ASSUME BoardInv, NEW p \in Procs, NEW i \in Items, Busy(p, i)
    PROVE  /\ board[i].assignee = job[p].actor
           /\ job[p].actor \in Members
           /\ job[p].actor # NoMember
           /\ arrived[i] # 0
           /\ board[i].state \notin {"absent", "open"}
<1>1. JobInv(p) /\ ItemInv(i)
  BY DEF BoardInv
<1>2. board[i].assignee = job[p].actor /\ job[p].actor \in Members
  BY <1>1, JobFacts DEF Busy, JobInv
<1> QED
  BY <1>1, <1>2, ConstantsAssumption DEF ItemInv

\* Nobody shares an assigned item: requests of one user do not overlap, runners
\* of one agent exclude each other, and no agent is a user.
LEMMA BusyAlone ==
    ASSUME BoardInv, Alone, NEW p \in Procs, NEW q \in Procs, p # q,
           NEW i \in Items, Busy(p, i), Busy(q, i)
    PROVE  FALSE
<1>1. /\ job[p].actor = job[q].actor
      /\ job[p].actor # NoMember
      /\ pc[p] # "idle" /\ pc[q] # "idle"
  BY BusyOwns DEF Busy
<1>2. CASE p \in Runners /\ q \in Runners
  <2>1. Works(p) /\ Works(q)
    BY <1>2, ConstantsAssumption DEF Works, Busy
  <2> QED
    BY <2>1 DEF Busy, BoardInv, Exclusive
<1>3. CASE p \in Runners /\ q \notin Runners
  BY <1>1, <1>3, JobFacts
<1>4. CASE p \notin Runners /\ q \in Runners
  BY <1>1, <1>4, JobFacts
<1>5. CASE p \notin Runners /\ q \notin Runners
  BY <1>1, <1>5 DEF Alone
<1> QED
  BY <1>2, <1>3, <1>4, <1>5

\* A step that leaves the tables alone and moves one process.
LEMMA QuietOrder ==
    ASSUME BoardInv, OrderInv, NEW p \in Procs,
           UNCHANGED <<board, trail>>,
           \A q \in Procs \ {p} : pc'[q] = pc[q] /\ job'[q] = job[q],
           JobOrder(p)', Alone'
    PROVE  OrderInv'
<1>1. ASSUME NEW q \in Procs PROVE JobOrder(q)'
  <2>1. CASE q = p
    BY <2>1
  <2>2. CASE q # p
    BY <2>2 DEF OrderInv, JobOrder, TellsAtMost
  <2> QED
    BY <2>1, <2>2
<1> QED
  BY <1>1 DEF OrderInv, ItemOrder, TellsAtMost, TrailInOrder

LEMMA FinishKeepsOrder ==
    ASSUME BoardInv, OrderInv, NEW p \in Procs, Finish(p),
           UNCHANGED <<board, trail>>
    PROVE  OrderInv'
<1>1. /\ pc'[p] = "idle"
      /\ job'[p].actor = NoMember
      /\ \A q \in Procs \ {p} : pc'[q] = pc[q] /\ job'[q] = job[q]
  BY DEF BoardInv, TypeOK, Finish, NoJob
<1>2. JobOrder(p)'
  BY <1>1 DEF JobOrder
<1>3. Alone'
  BY <1>1 DEF OrderInv, Alone
<1> QED
  BY <1>1, <1>2, <1>3, QuietOrder

LEMMA AcceptKeepsOrder ==
    ASSUME OneRequestPerUser, BoardInv, OrderInv, NEW p \in Requests,
           NEW m \in Users, NEW label \in {"select", "read", "save"},
           NEW act, NEW item, NEW copy,
           Accept(p, m, label, act, item, copy),
           label = "save" => act = "publish",
           UNCHANGED <<board, trail>>
    PROVE  OrderInv'
<1>1. /\ pc'[p] = label
      /\ job'[p].actor = m
      /\ job'[p].act = act
      /\ \A q \in Procs \ {p} : pc'[q] = pc[q] /\ job'[q] = job[q]
      /\ \A q \in Requests : job[q].actor # m
  BY DEF BoardInv, TypeOK, Accept
<1>2. JobOrder(p)'
  BY <1>1 DEF JobOrder
<1>3. Alone'
  BY <1>1 DEF OrderInv, Alone
<1> QED
  BY <1>1, <1>2, <1>3, QuietOrder

\* A step that changes the row of an item and leaves the process that made it
\* with the item to record.
LEMMA RowKeepsOrder ==
    ASSUME BoardInv, OrderInv, NEW p \in Procs, NEW i \in Items,
           UNCHANGED trail,
           \A q \in Procs \ {p} : pc'[q] = pc[q] /\ job'[q] = job[q],
           job'[p].actor = job[p].actor,
           \A j \in Items \ {i} : board'[j] = board[j],
           \A q \in Procs \ {p} : ~Busy(q, i),
           ItemOrder(i)', JobOrder(p)'
    PROVE  OrderInv'
<1>1. ASSUME NEW q \in Procs PROVE JobOrder(q)'
  <2>1. CASE q = p
    BY <2>1
  <2>2. CASE q # p
    <3>1. JobOrder(q) /\ ~Busy(q, i) /\ pc'[q] = pc[q] /\ job'[q] = job[q]
      BY <2>2 DEF OrderInv
    <3>2. pc[q] \in {"save", "record", "reason"} => job[q].item \in Items
      BY JobFacts
    <3> QED
      BY <3>1, <3>2 DEF JobOrder, Busy, TellsAtMost
  <2> QED
    BY <2>1, <2>2
<1>2. \A j \in Items : ItemOrder(j)'
  BY DEF OrderInv, ItemOrder, TellsAtMost
<1>3. Alone'
  BY DEF OrderInv, Alone
<1> QED
  BY <1>1, <1>2, <1>3 DEF OrderInv, TrailInOrder

LEMMA ReadKeepsOrder ==
    ASSUME BoardInv, OrderInv, NEW p \in Procs, Read(p)
    PROVE  OrderInv'
<1> DEFINE i == job[p].item
<1>1. /\ pc[p] = "read"
      /\ job[p] \in Jobs
      /\ i \in Items
      /\ job[p].act \in {"start", "complete"}
      /\ board[i].state \in Lifecycle[job[p].act].from
  BY JobFacts DEF Read, BoardInv, JobInv, MayTransition, CanApply
<1>2. /\ pc'[p] = "save"
      /\ job'[p].act = job[p].act
      /\ job'[p].item = i
      /\ job'[p].actor = job[p].actor
      /\ job'[p].copy = Apply(board[i], job[p].act)
      /\ \A q \in Procs \ {p} : pc'[q] = pc[q] /\ job'[q] = job[q]
      /\ UNCHANGED <<board, trail>>
  BY <1>1 DEF Read, BoardInv, TypeOK, Jobs
<1>3. Apply(board[i], job[p].act).state = Lifecycle[job[p].act].to
  BY <1>1, LifecycleKeepsRows, StageFacts DEF BoardInv, TypeOK
<1>4. Stage[board[i].state] < Rank[job[p].act]
  BY <1>1, StageFacts
<1>5. JobOrder(p)'
  BY <1>2, <1>3, <1>4 DEF JobOrder
<1>6. Alone'
  BY <1>2 DEF OrderInv, Alone
<1> QED
  BY <1>2, <1>5, <1>6, QuietOrder

LEMMA ReasonKeepsOrder ==
    ASSUME BoardInv, OrderInv, NEW r \in Runners, Reason(r)
    PROVE  OrderInv'
<1> DEFINE i == job[r].item
<1>1. /\ pc[r] = "reason"
      /\ job[r] \in Jobs
      /\ job[r].copy \in Rows
      /\ job[r].act = "claim"
      /\ Stage[board[i].state] = 1
  <2>1. pc[r] = "reason" /\ job[r].act = "claim"
    BY DEF Reason, BoardInv, JobInv
  <2> QED
    BY <2>1, JobFacts DEF OrderInv, JobOrder
<1>2. /\ pc'[r] = "save"
      /\ job'[r].act = "complete"
      /\ job'[r].item = i
      /\ job'[r].actor = job[r].actor
      /\ job'[r].copy = Apply(Apply(job[r].copy, "start"), "complete")
      /\ \A q \in Procs \ {r} : pc'[q] = pc[q] /\ job'[q] = job[q]
      /\ UNCHANGED <<board, trail>>
  BY <1>1 DEF Reason, BoardInv, TypeOK, Jobs
<1>3. Apply(Apply(job[r].copy, "start"), "complete").state = "done"
  BY <1>1, LifecycleKeepsRows DEF Rows
<1>4. JobOrder(r)'
  BY <1>1, <1>2, <1>3, StageFacts DEF JobOrder
<1>5. Alone'
  BY <1>2 DEF OrderInv, Alone
<1> QED
  BY <1>2, <1>4, <1>5, QuietOrder

LEMMA TrailFacts ==
    ASSUME BoardInv, NEW i \in Items
    PROVE  /\ trail[i] \in Seq(Records)
           /\ DOMAIN trail[i] = 1 .. Len(trail[i])
           /\ Len(trail[i]) \in Nat
           /\ \A k \in DOMAIN trail[i] :
                /\ trail[i][k].act \in Acts
                /\ Rank[trail[i][k].act] \in Nat
<1>1. trail[i] \in Seq(Records)
  BY DEF BoardInv, TypeOK
<1>2. \A k \in DOMAIN trail[i] : trail[i][k] \in Records
  BY <1>1
<1>3. \A k \in DOMAIN trail[i] : trail[i][k].act \in Acts
  BY <1>2 DEF Records
<1>4. \A a \in Acts : Rank[a] \in Nat
  BY StageFacts DEF Acts
<1> QED
  BY <1>1, <1>3, <1>4

LEMMA CommitKeepsOrder ==
    ASSUME BoardInv, OrderInv, NEW p \in Procs, Commit(p)
    PROVE  /\ OrderInv'
           /\ board[job[p].item].state = "open"
           /\ board'[job[p].item].state = "claimed"
           /\ \A j \in Items \ {job[p].item} : board'[j] = board[j]
<1> DEFINE i == job[p].item
<1>1. /\ pc[p] = "commit"
      /\ i \in Items
      /\ job[p] \in Jobs
      /\ job[p].copy \in Rows
      /\ job[p].actor \in Members
      /\ job[p].act = "claim"
      /\ board[i] = job[p].copy
      /\ board[i].state = "open"
  <2>1. pc[p] = "commit" /\ JobInv(p)
    BY DEF Commit, BoardInv
  <2> QED
    BY <2>1, JobFacts DEF JobInv, CanBeClaimedBy
<1>2. /\ board' = [board EXCEPT ![i] = ClaimBy(job[p].copy, job[p].actor)]
      /\ ClaimBy(job[p].copy, job[p].actor).state = "claimed"
  BY <1>1, CommitTyped, ClaimKeepsRows DEF BoardInv
<1>3. /\ pc'[p] = "record"
      /\ job'[p].act = "claim"
      /\ job'[p].item = i
      /\ job'[p].actor = job[p].actor
      /\ \A q \in Procs \ {p} : pc'[q] = pc[q] /\ job'[q] = job[q]
      /\ UNCHANGED trail
  BY <1>1 DEF Commit, BoardInv, TypeOK, Jobs
<1>4. /\ board'[i].state = "claimed"
      /\ \A j \in Items \ {i} : board'[j] = board[j]
  BY <1>1, <1>2 DEF BoardInv, TypeOK
<1>5. \A q \in Procs \ {p} : ~Busy(q, i)
  BY <1>1, BusyOwns
<1>6. TellsAtMost(i, 0)
  BY <1>1, StageFacts DEF OrderInv, ItemOrder
<1>7. \A k \in DOMAIN trail[i] : Rank[trail[i][k].act] \in Nat
  BY <1>1, TrailFacts
<1>8. ItemOrder(i)'
  BY <1>3, <1>4, <1>6, <1>7, StageFacts DEF ItemOrder, TellsAtMost
<1>9. JobOrder(p)'
  BY <1>3, <1>4, <1>6, StageFacts DEF JobOrder, TellsAtMost
<1> HIDE DEF i
<1> QED
  BY <1>1, <1>3, <1>4, <1>5, <1>8, <1>9, RowKeepsOrder DEF i

LEMMA SaveKeepsOrder ==
    ASSUME BoardInv, OrderInv, NEW p \in Procs, Save(p)
    PROVE  /\ OrderInv'
           /\ \A j \in Items : Phase[board[j].state] <= Phase[board'[j].state]
<1>0. pc[p] = "save" /\ job[p].item \in Items
  BY JobFacts DEF Save
<1> PICK i \in Items : i = job[p].item
  BY <1>0
<1>1. /\ pc[p] = "save"
      /\ i = job[p].item
      /\ JobInv(p)
      /\ ItemInv(i)
  BY <1>0 DEF BoardInv
<1>2. /\ board'[i] = job[p].copy
      /\ \A j \in Items \ {i} : board'[j] = board[j]
      /\ pc'[p] = "record"
      /\ \A q \in Procs \ {p} : pc'[q] = pc[q]
      /\ UNCHANGED <<trail, job>>
  BY <1>1 DEF Save, BoardInv, TypeOK
<1>3. \A j \in Items : board[j].state \in DOMAIN Stage /\ TellsAtMost(j, Stage[board[j].state])
  BY DEF OrderInv, ItemOrder
<1>4. \A k \in DOMAIN trail[i] : Rank[trail[i][k].act] \in Nat
  BY <1>1, TrailFacts
<1>5. CASE job[p].act = "publish"
  <2>1. /\ job[p].copy.state = "open"
        /\ arrived[i] = 0
        /\ board[i].state = "absent"
    BY <1>1, <1>5 DEF JobInv, ItemInv
  <2>2. \A q \in Procs \ {p} : ~Busy(q, i)
    BY <1>1, <2>1, BusyOwns
  <2>3. ItemOrder(i)'
    BY <1>1, <1>2, <1>3, <2>1, StageFacts DEF ItemOrder, TellsAtMost
  <2>4. JobOrder(p)'
    BY <1>2, <1>5 DEF JobOrder
  <2>5. \A j \in Items : Phase[board[j].state] <= Phase[board'[j].state]
    BY <1>2, <1>3, <2>1, StageFacts
  <2> QED
    BY <1>1, <1>2, <2>2, <2>3, <2>4, <2>5, RowKeepsOrder
<1>6. CASE job[p].act # "publish"
  <2>1. /\ job[p].act \in {"start", "complete"}
        /\ Stage[board[i].state] < Rank[job[p].act]
        /\ job[p].copy.state = Lifecycle[job[p].act].to
    BY <1>1, <1>6 DEF JobInv, OrderInv, JobOrder
  <2>2. \A q \in Procs \ {p} : ~Busy(q, i)
    BY <1>1, <1>6, BusyAlone DEF Busy, OrderInv
  <2>3. Stage[job[p].copy.state] = Rank[job[p].act] /\ job[p].copy.state \in DOMAIN Stage
    BY <2>1, StageFacts
  <2>4. board[i].state \in DOMAIN Stage /\ TellsAtMost(i, Stage[board[i].state])
    BY <1>1, <1>3
  <2>5. /\ Stage[board[i].state] \in Nat
        /\ Rank[job[p].act] \in Nat
    BY <2>1, <2>4, StageFacts
  <2>6. TellsAtMost(i, Rank[job[p].act] - 1)
    BY <1>4, <2>1, <2>4, <2>5 DEF TellsAtMost
  <2>7. ItemOrder(i)'
    BY <1>2, <1>4, <2>3, <2>5, <2>6 DEF ItemOrder, TellsAtMost
  <2>8. JobOrder(p)'
    BY <1>2, <2>3, <2>6 DEF JobOrder, TellsAtMost
  <2>9. \A j \in Items : Phase[board[j].state] <= Phase[board'[j].state]
    BY <1>2, <1>3, <2>1, StageFacts
  <2> QED
    BY <1>1, <1>2, <2>2, <2>7, <2>8, <2>9, RowKeepsOrder
<1> QED
  BY <1>5, <1>6

LEMMA RecordKeepsOrder ==
    ASSUME BoardInv, OrderInv, NEW p \in Procs, Record(p)
    PROVE  OrderInv'
<1>0. job[p].item \in Items
  BY JobFacts DEF Record
<1> PICK i \in Items : i = job[p].item
  BY <1>0
<1> DEFINE a == job[p].act
           n == Len(trail[i])
<1>1. /\ pc[p] = "record"
      /\ i = job[p].item
      /\ a \in Acts
      /\ job[p] \in Jobs
  <2>1. pc[p] = "record" /\ JobInv(p)
    BY DEF Record, BoardInv
  <2> QED
    BY <2>1, JobFacts DEF JobInv, Jobs
<1>2. trail[i] \in Seq(Records) /\ n \in Nat
  BY <1>1 DEF BoardInv, TypeOK
<1>3. /\ trail'[i] = Append(trail[i], [act |-> a, by |-> job[p].actor])
      /\ \A j \in Items \ {i} : trail'[j] = trail[j]
      /\ UNCHANGED board
  BY <1>1 DEF Record, BoardInv, TypeOK
<1>4. /\ DOMAIN trail[i] = 1 .. n
      /\ DOMAIN trail'[i] = 1 .. (n + 1)
      /\ \A k \in 1 .. n : trail'[i][k] = trail[i][k] /\ trail[i][k].act \in Acts
      /\ trail'[i][n + 1].act = a
  <2>1. \A k \in DOMAIN trail[i] : trail[i][k].act \in Acts
    BY <1>1, TrailFacts
  <2> QED
    BY <1>2, <1>3, <2>1
<1>5. /\ \A q \in Procs \ {p} : pc'[q] = pc[q] /\ job'[q] = job[q]
      /\ \/ pc'[p] = "reason" /\ job'[p] = job[p] /\ a = "claim"
         \/ pc'[p] = "idle" /\ job'[p].actor = NoMember
  BY DEF Record, Finish, NoJob, BoardInv, TypeOK
<1>6. Alone'
  BY <1>5 DEF OrderInv, Alone
<1>7. /\ JobOrder(p)
      /\ ItemOrder(i)
      /\ TrailInOrder
  BY <1>1 DEF OrderInv
<1>8. \A b \in Acts : Rank[b] \in Nat
  BY StageFacts DEF Acts
<1>9. a # "publish" =>
        /\ Stage[board[i].state] = Rank[a]
        /\ \A k \in 1 .. n : trail[i][k].act # "publish" =>
             Rank[trail[i][k].act] < Rank[a]
  <2>1. a # "publish" =>
          /\ Stage[board[i].state] = Rank[a]
          /\ TellsAtMost(i, Rank[a] - 1)
    BY <1>1, <1>7 DEF JobOrder
  <2>2. \A k \in 1 .. n : Rank[trail[i][k].act] \in Nat
    BY <1>4, <1>8
  <2>3. Rank[a] \in Nat
    BY <1>1, <1>8
  <2> HIDE DEF a, n
  <2> QED
    BY <1>4, <2>1, <2>2, <2>3 DEF TellsAtMost
<1>10. ASSUME NEW j \in Items PROVE ItemOrder(j)'
  <2>1. ItemOrder(j)
    BY DEF OrderInv
  <2>2. CASE j = i
    <3>1. \A k \in 1 .. (n + 1) : k \in 1 .. n \/ k = n + 1
      BY <1>2
    <3>2. a # "publish" => Rank[a] <= Stage[board[i].state]
      BY <1>1, <1>8, <1>9
    <3> HIDE DEF a, n
    <3>3. ASSUME NEW k \in DOMAIN trail'[j], trail'[j][k].act # "publish"
          PROVE  Rank[trail'[j][k].act] <= Stage[board[j].state]
      <4>1. CASE k \in 1 .. n
        BY <1>4, <2>1, <2>2, <3>3, <4>1 DEF ItemOrder, TellsAtMost
      <4>2. CASE k = n + 1
        BY <1>4, <2>2, <3>2, <3>3, <4>2
      <4> QED
        BY <1>4, <2>2, <3>1, <4>1, <4>2
    <3> QED
      BY <1>3, <2>1, <3>3 DEF ItemOrder, TellsAtMost
  <2>3. CASE j # i
    BY <1>3, <2>1, <2>3 DEF ItemOrder, TellsAtMost
  <2> QED
    BY <2>2, <2>3
<1>11. ASSUME NEW q \in Procs PROVE JobOrder(q)'
  <2>1. CASE q = p
    BY <1>1, <1>3, <1>5, <1>9, <2>1, StageFacts DEF JobOrder
  <2>2. CASE q # p
    <3>1. JobOrder(q) /\ pc'[q] = pc[q] /\ job'[q] = job[q]
      BY <1>5, <2>2 DEF OrderInv
    <3>2. CASE ~Busy(q, i)
      <4>1. pc[q] \in {"save", "record", "reason"} => job[q].item \in Items
        BY JobFacts
      <4> QED
        BY <1>3, <3>1, <3>2, <4>1 DEF JobOrder, TellsAtMost, Busy
    <3>3. CASE Busy(q, i) /\ a = "publish"
      <4>1. \A k \in 1 .. (n + 1) : k \in 1 .. n \/ k = n + 1
        BY <1>2
      <4> HIDE DEF a, n
      <4>2. ASSUME NEW m, TellsAtMost(i, m) PROVE TellsAtMost(i, m)'
        <5> SUFFICES ASSUME NEW k \in DOMAIN trail'[i], trail'[i][k].act # "publish"
                     PROVE  Rank[trail'[i][k].act] <= m
          BY DEF TellsAtMost
        <5> QED
          BY <1>4, <3>3, <4>1, <4>2 DEF TellsAtMost
      <4>3. TellsAtMost(i, Rank[job[q].act] - 1)
              => TellsAtMost(i, Rank[job[q].act] - 1)'
        BY <3>1, <4>2
      <4>4. job'[q] = job[q] /\ pc'[q] = pc[q] /\ job[q].item = i
        BY <3>1, <3>3 DEF Busy
      <4> QED
        BY <1>3, <3>1, <4>3, <4>4 DEF JobOrder, TellsAtMost
    <3>4. CASE Busy(q, i) /\ a # "publish"
      BY <1>1, <2>2, <3>4, BusyAlone DEF Busy, OrderInv
    <3> QED
      BY <3>2, <3>3, <3>4
  <2> QED
    BY <2>1, <2>2
<1>12. TrailInOrder'
  <2>1. \A k \in 1 .. (n + 1) : k \in 1 .. n \/ k = n + 1
    BY <1>2
  <2> HIDE DEF a, n
  <2>2. ASSUME NEW j \in DOMAIN trail'[i], NEW k \in DOMAIN trail'[i], j < k,
               trail'[i][j].act # "publish", trail'[i][k].act # "publish"
        PROVE  Rank[trail'[i][j].act] < Rank[trail'[i][k].act]
    <3>1. CASE k \in 1 .. n
      <4>1. j \in 1 .. n
        BY <1>2, <1>4, <2>2, <3>1 DEF n
      <4> QED
        BY <1>1, <1>4, <1>7, <2>2, <3>1, <4>1 DEF TrailInOrder
    <3>2. CASE k = n + 1
      <4>1. j \in 1 .. n
        BY <1>2, <1>4, <2>2, <3>2 DEF n
      <4> QED
        BY <1>4, <1>9, <2>2, <3>2, <4>1
    <3> QED
      BY <1>4, <2>1, <3>1, <3>2
  <2> QED
    BY <1>3, <1>7, <2>2 DEF TrailInOrder
<1> QED
  BY <1>6, <1>10, <1>11, <1>12 DEF OrderInv

LEMMA InitOrder == Init => OrderInv
<1> SUFFICES ASSUME Init PROVE OrderInv
  OBVIOUS
<1>1. \A i \in Items : ItemOrder(i)
  BY StageFacts DEF Init, ItemOrder, TellsAtMost, NoRow
<1>2. Alone /\ TrailInOrder
  BY DEF Init, Alone, NoJob, TrailInOrder
<1>3. \A p \in Procs : JobOrder(p)
  BY DEF Init, JobOrder
<1> QED
  BY <1>1, <1>2, <1>3 DEF OrderInv

LEMMA NextKeepsOrder ==
    ASSUME OneRequestPerUser, BoardInv, OrderInv, [Next]_vars
    PROVE  /\ OrderInv'
           /\ \A i \in Items : Phase[board[i].state] <= Phase[board'[i].state]
<1>0. ASSUME UNCHANGED board
      PROVE  \A i \in Items : Phase[board[i].state] <= Phase[board'[i].state]
  <2>1. \A i \in Items : board[i].state \in DOMAIN Stage
    BY DEF OrderInv, ItemOrder
  <2> QED
    BY <1>0, <2>1, StageFacts
<1>1. CASE UNCHANGED vars
  BY <1>0, <1>1
  DEF vars, OrderInv, Alone, ItemOrder, JobOrder, TellsAtMost, TrailInOrder
<1>2. ASSUME NEW p \in Requests, NEW m \in Users, NEW i \in Items,
             NEW role \in Roles \cup {NoRole}, NEW k \in Priorities,
             PublishRequest(p, m, i, role, k)
      PROVE  OrderInv' /\ UNCHANGED board
  BY <1>2, AcceptKeepsOrder DEF PublishRequest
<1>3. ASSUME NEW p \in Requests, NEW m \in Users, ClaimRequest(p, m)
      PROVE  OrderInv' /\ UNCHANGED board
  BY <1>3, AcceptKeepsOrder DEF ClaimRequest
<1>4. ASSUME NEW p \in Requests, NEW m \in Users,
             NEW act \in {"start", "complete"}, NEW i \in Items,
             TransitionRequest(p, m, act, i)
      PROVE  OrderInv' /\ UNCHANGED board
  BY <1>4, AcceptKeepsOrder DEF TransitionRequest
<1>5. ASSUME UNCHANGED <<board, trail, pc, job>>
      PROVE  OrderInv' /\ UNCHANGED board
  BY <1>5 DEF OrderInv, Alone, ItemOrder, JobOrder, TellsAtMost, TrailInOrder
<1>6. ASSUME NEW r \in Runners, RunOnce(r)
      PROVE  OrderInv' /\ UNCHANGED board
  <2>1. /\ pc'[r] = "select"
        /\ \A q \in Procs \ {r} : pc'[q] = pc[q] /\ job'[q] = job[q]
        /\ UNCHANGED <<board, trail>>
    BY <1>6 DEF RunOnce, BoardInv, TypeOK
  <2>2. JobOrder(r)'
    BY <2>1 DEF JobOrder
  <2>3. Alone'
    BY <2>1, ConstantsAssumption DEF OrderInv, Alone
  <2> QED
    BY <2>1, <2>2, <2>3, QuietOrder
<1>7. ASSUME NEW p \in Procs, SelectNone(p) \/ Rollback(p) \/ Refuse(p) \/ Fail(p)
      PROVE  OrderInv' /\ UNCHANGED board
  BY <1>7, FinishKeepsOrder DEF SelectNone, Rollback, Refuse, Fail
<1>8. ASSUME NEW p \in Procs, Select(p)
      PROVE  OrderInv' /\ UNCHANGED board
  <2>1. /\ pc'[p] = "commit"
        /\ job'[p].actor = job[p].actor
        /\ \A q \in Procs \ {p} : pc'[q] = pc[q] /\ job'[q] = job[q]
        /\ UNCHANGED <<board, trail>>
    BY <1>8 DEF Select, BoardInv, TypeOK, Jobs
  <2>2. JobOrder(p)'
    BY <2>1 DEF JobOrder
  <2>3. Alone'
    BY <2>1 DEF OrderInv, Alone
  <2> QED
    BY <2>1, <2>2, <2>3, QuietOrder
<1>9. ASSUME NEW p \in Procs, Read(p) PROVE OrderInv' /\ UNCHANGED board
  BY <1>9, ReadKeepsOrder DEF Read
<1>10. ASSUME NEW r \in Runners, Reason(r) PROVE OrderInv' /\ UNCHANGED board
  BY <1>10, ReasonKeepsOrder DEF Reason
<1>11. ASSUME NEW p \in Procs, Record(p) PROVE OrderInv' /\ UNCHANGED board
  BY <1>11, RecordKeepsOrder DEF Record
<1>12. ASSUME NEW p \in Procs, Commit(p)
       PROVE  /\ OrderInv'
              /\ \A i \in Items : Phase[board[i].state] <= Phase[board'[i].state]
  <2>1. \A i \in Items : board[i].state \in DOMAIN Stage
    BY DEF OrderInv, ItemOrder
  <2> QED
    BY <1>12, <2>1, CommitKeepsOrder, StageFacts
<1>13. CASE UNCHANGED vars \/ \E p \in Procs : Commit(p) \/ Save(p)
  BY <1>0, <1>1, <1>12, <1>13, SaveKeepsOrder DEF vars
<1>14. CASE Next /\ ~(\E p \in Procs : Commit(p) \/ Save(p))
  <2>1. OrderInv' /\ UNCHANGED board
    BY <1>14, <1>2, <1>3, <1>4, <1>5, <1>6, <1>7, <1>8, <1>9, <1>10, <1>11,
       NextCases DEF Build, Stop, UpsertMember
  <2> QED
    BY <1>0, <2>1
<1> QED
  BY <1>13, <1>14

LEMMA OrderInvariant == ASSUME OneRequestPerUser PROVE Spec => []OrderInv
<1>1. Init => OrderInv
  BY InitOrder
<1>2. BoardInv /\ OrderInv /\ [Next]_vars => OrderInv'
  BY NextKeepsOrder
<1> QED
  BY <1>1, <1>2, BoardInvariant, PTL DEF Spec

\* When users wait for answers, no stale write, crash or repeated call takes an
\* item back in its lifecycle.
THEOREM LifecycleOnlyForward ==
    ASSUME OneRequestPerUser PROVE Spec => LifecycleForward
<1>1. BoardInv /\ OrderInv /\ [Next]_vars =>
        [\A i \in Items : Phase[board[i].state] <= Phase[board'[i].state]]_vars
  BY NextKeepsOrder
<1> QED
  BY <1>1, BoardInvariant, OrderInvariant, PTL DEF Spec, LifecycleForward

\* Under the same condition the activity log tells claim, start and complete of
\* an item in this order and once each.
THEOREM TrailTellsTheLife ==
    ASSUME OneRequestPerUser PROVE Spec => []TrailInOrder
<1>1. OrderInv => TrailInOrder
  BY DEF OrderInv
<1> QED
  BY <1>1, OrderInvariant, PTL

-----------------------------------------------------------------------------
(* The audit, when nothing fails                                             *)

CopyTells(p) ==
    pc[p] = "save" /\ job[p].act \in {"start", "complete"} =>
        job[p].copy.state = Lifecycle[job[p].act].to

ItemAudited(i) ==
    /\ board[i].state # "absent" => OnRecord(i, "publish")
    /\ board[i].state \notin {"absent", "open"} => OnRecord(i, "claim")
    /\ board[i].state = "in_progress" => OnRecord(i, "start")
    /\ board[i].state = "done" => OnRecord(i, "complete")

AuditInv ==
    /\ \A i \in Items : ItemAudited(i)
    /\ \A p \in Procs : CopyTells(p)

\* What is on record, or owed by a process that does not move, stays so.
LEMMA MoveKeepsRecord ==
    ASSUME NEW p \in Procs, pc[p] # "record", UNCHANGED trail,
           \A q \in Procs \ {p} : pc'[q] = pc[q] /\ job'[q] = job[q],
           NEW i \in Items, NEW act, OnRecord(i, act)
    PROVE  OnRecord(i, act)'
BY DEF OnRecord, Recorded, Owed

LEMMA QuietAudit ==
    ASSUME AuditInv, NEW p \in Procs, pc[p] # "record",
           UNCHANGED <<board, trail>>,
           \A q \in Procs \ {p} : pc'[q] = pc[q] /\ job'[q] = job[q],
           CopyTells(p)'
    PROVE  AuditInv'
<1>1. \A i \in Items, act \in Acts : OnRecord(i, act) => OnRecord(i, act)'
  BY MoveKeepsRecord
<1>2. \A i \in Items : ItemAudited(i)'
  BY <1>1 DEF AuditInv, ItemAudited, Acts
<1>3. \A q \in Procs : CopyTells(q)'
  BY DEF AuditInv, CopyTells
<1> QED
  BY <1>2, <1>3 DEF AuditInv

LEMMA FinishKeepsAudit ==
    ASSUME BoardInv, AuditInv, NEW p \in Procs, Finish(p), pc[p] # "record",
           UNCHANGED <<board, trail>>
    PROVE  AuditInv'
<1>1. /\ pc'[p] = "idle"
      /\ \A q \in Procs \ {p} : pc'[q] = pc[q] /\ job'[q] = job[q]
  BY DEF BoardInv, TypeOK, Finish
<1>2. CopyTells(p)'
  BY <1>1 DEF CopyTells
<1> QED
  BY <1>1, <1>2, QuietAudit

LEMMA AcceptKeepsAudit ==
    ASSUME BoardInv, AuditInv, NEW p \in Requests, NEW m, NEW label,
           NEW act, NEW item, NEW copy,
           Accept(p, m, label, act, item, copy),
           label = "save" => act = "publish",
           UNCHANGED <<board, trail>>
    PROVE  AuditInv'
<1>1. /\ pc[p] = "idle"
      /\ pc'[p] = label
      /\ job'[p].act = act
      /\ \A q \in Procs \ {p} : pc'[q] = pc[q] /\ job'[q] = job[q]
  BY DEF BoardInv, TypeOK, Accept
<1>2. CopyTells(p)'
  BY <1>1 DEF CopyTells
<1> QED
  BY <1>1, <1>2, QuietAudit

LEMMA CommitKeepsAudit ==
    ASSUME BoardInv, AuditInv, NEW p \in Procs, Commit(p)
    PROVE  AuditInv'
<1>0. job[p].item \in Items
  BY JobFacts DEF Commit
<1> PICK i \in Items : i = job[p].item
  BY <1>0
<1>1. /\ pc[p] = "commit"
      /\ job[p] \in Jobs
      /\ job[p].copy \in Rows
      /\ job[p].actor \in Members
      /\ job[p].act = "claim"
      /\ board[i] = job[p].copy
      /\ board[i].state = "open"
  <2>1. pc[p] = "commit" /\ JobInv(p)
    BY DEF Commit, BoardInv
  <2> QED
    BY <2>1, JobFacts DEF JobInv, CanBeClaimedBy
<1>2. /\ board' = [board EXCEPT ![i] = ClaimBy(job[p].copy, job[p].actor)]
      /\ ClaimBy(job[p].copy, job[p].actor).state = "claimed"
  BY <1>1, CommitTyped, ClaimKeepsRows DEF BoardInv
<1>3. /\ pc'[p] = "record"
      /\ job'[p].act = "claim"
      /\ job'[p].item = i
      /\ \A q \in Procs \ {p} : pc'[q] = pc[q] /\ job'[q] = job[q]
      /\ UNCHANGED trail
  BY <1>1 DEF Commit, BoardInv, TypeOK, Jobs
<1>4. /\ board'[i].state = "claimed"
      /\ \A j \in Items \ {i} : board'[j] = board[j]
  BY <1>2 DEF BoardInv, TypeOK
<1>5. \A j \in Items, act \in Acts : OnRecord(j, act) => OnRecord(j, act)'
  BY <1>1, <1>3, MoveKeepsRecord
<1>6. OnRecord(i, "claim")'
  BY <1>3 DEF OnRecord, Owed
<1>7. \A j \in Items : ItemAudited(j)'
  BY <1>1, <1>4, <1>5, <1>6 DEF AuditInv, ItemAudited, Acts
<1>8. \A q \in Procs : CopyTells(q)'
  BY <1>3 DEF AuditInv, CopyTells
<1> QED
  BY <1>7, <1>8 DEF AuditInv

LEMMA SaveKeepsAudit ==
    ASSUME BoardInv, AuditInv, NEW p \in Procs, Save(p)
    PROVE  AuditInv'
<1>0. pc[p] = "save" /\ job[p].item \in Items
  BY JobFacts DEF Save
<1> PICK i \in Items : i = job[p].item
  BY <1>0
<1>1. JobInv(p) /\ CopyTells(p) /\ ItemAudited(i)
  BY DEF BoardInv, AuditInv
<1>2. /\ board'[i] = job[p].copy
      /\ \A j \in Items \ {i} : board'[j] = board[j]
      /\ pc'[p] = "record"
      /\ \A q \in Procs \ {p} : pc'[q] = pc[q]
      /\ UNCHANGED <<trail, job>>
  BY <1>0 DEF Save, BoardInv, TypeOK
<1>3. \A j \in Items, act \in Acts : OnRecord(j, act) => OnRecord(j, act)'
  BY <1>0, <1>2, MoveKeepsRecord
<1>4. ASSUME NEW act, act = job[p].act
      PROVE  OnRecord(i, act)'
  BY <1>2, <1>4 DEF OnRecord, Owed
<1>5. CASE job[p].act = "publish"
  <2>1. board'[i].state = "open"
    BY <1>0, <1>1, <1>2, <1>5 DEF JobInv
  <2>2. OnRecord(i, "publish")'
    BY <1>4, <1>5
  <2>3. ItemAudited(i)'
    BY <2>1, <2>2 DEF ItemAudited
  <2> QED
    BY <1>2, <1>3, <2>3 DEF AuditInv, ItemAudited, CopyTells, Acts
<1>6. CASE job[p].act # "publish"
  <2>1. /\ job[p].act \in {"start", "complete"}
        /\ board'[i].state = Lifecycle[job[p].act].to
    BY <1>0, <1>1, <1>2, <1>6 DEF JobInv, CopyTells
  <2>2. board[i].state \notin {"absent", "open"}
    BY <1>0, <1>6, BusyOwns DEF Busy
  <2>3. OnRecord(i, "publish")' /\ OnRecord(i, "claim")'
    BY <1>1, <1>3, <2>2 DEF ItemAudited, Acts
  <2>4. ItemAudited(i)'
    <3>1. CASE job[p].act = "start"
      <4>1. OnRecord(i, "start")' /\ board'[i].state = "in_progress"
        BY <1>4, <2>1, <3>1 DEF Lifecycle
      <4> QED
        BY <2>3, <4>1 DEF ItemAudited
    <3>2. CASE job[p].act = "complete"
      <4>1. OnRecord(i, "complete")' /\ board'[i].state = "done"
        BY <1>4, <2>1, <3>2 DEF Lifecycle
      <4> QED
        BY <2>3, <4>1 DEF ItemAudited
    <3> QED
      BY <2>1, <3>1, <3>2
  <2> QED
    BY <1>2, <1>3, <2>4 DEF AuditInv, ItemAudited, CopyTells, Acts
<1> QED
  BY <1>5, <1>6

LEMMA RecordKeepsAudit ==
    ASSUME BoardInv, AuditInv, NEW p \in Procs, Record(p)
    PROVE  AuditInv'
<1>0. pc[p] = "record" /\ job[p].item \in Items
  BY JobFacts DEF Record
<1> PICK i \in Items : i = job[p].item
  BY <1>0
<1> DEFINE e == [act |-> job[p].act, by |-> job[p].actor]
<1>1. /\ trail'[i] = Append(trail[i], e)
      /\ trail[i] \in Seq(Records)
      /\ \A j \in Items \ {i} : trail'[j] = trail[j]
      /\ \A q \in Procs \ {p} : pc'[q] = pc[q] /\ job'[q] = job[q]
      /\ pc'[p] \in {"reason", "idle"}
      /\ UNCHANGED board
  BY <1>0 DEF Record, Finish, BoardInv, TypeOK
<1>2. e.act = job[p].act
  OBVIOUS
<1> HIDE DEF e
<1>3. /\ DOMAIN trail'[i] = DOMAIN trail[i] \cup {Len(trail[i]) + 1}
      /\ \A k \in DOMAIN trail[i] : trail'[i][k] = trail[i][k]
      /\ trail'[i][Len(trail[i]) + 1] = e
  BY <1>1
<1>4. ASSUME NEW j \in Items, NEW act, OnRecord(j, act)
      PROVE  OnRecord(j, act)'
  <2>1. CASE Recorded(j, act)
    <3>1. Recorded(j, act)'
      <4>1. CASE j = i
        BY <1>3, <2>1, <4>1 DEF Recorded
      <4>2. CASE j # i
        BY <1>1, <2>1, <4>2 DEF Recorded
      <4> QED
        BY <4>1, <4>2
    <3> QED
      BY <3>1 DEF OnRecord
  <2>2. CASE Owed(j, act)
    <3>1. PICK q \in Procs : pc[q] = "record" /\ job[q].item = j /\ job[q].act = act
      BY <2>2 DEF Owed
    <3>2. CASE q = p
      <4>1. Recorded(j, act)'
        BY <1>2, <1>3, <3>1, <3>2 DEF Recorded
      <4> QED
        BY <4>1 DEF OnRecord
    <3>3. CASE q # p
      BY <1>1, <3>1, <3>3 DEF OnRecord, Owed
    <3> QED
      BY <3>2, <3>3
  <2> QED
    BY <1>4, <2>1, <2>2 DEF OnRecord
<1>5. \A j \in Items : ItemAudited(j)'
  BY <1>1, <1>4 DEF AuditInv, ItemAudited
<1>6. \A q \in Procs : CopyTells(q)'
  BY <1>1 DEF AuditInv, CopyTells
<1> QED
  BY <1>5, <1>6 DEF AuditInv

LEMMA NextKeepsAudit ==
    ASSUME ~Failures, BoardInv, AuditInv, [Next]_vars
    PROVE  AuditInv'
<1>1. ASSUME UNCHANGED <<board, trail, pc, job>> PROVE AuditInv'
  BY <1>1 DEF AuditInv, ItemAudited, OnRecord, Recorded, Owed, CopyTells
<1>2. ASSUME NEW p \in Requests, NEW m \in Users, NEW i \in Items,
             NEW role \in Roles \cup {NoRole}, NEW k \in Priorities,
             PublishRequest(p, m, i, role, k)
      PROVE  AuditInv'
  BY <1>2, AcceptKeepsAudit DEF PublishRequest
<1>3. ASSUME NEW p \in Requests, NEW m \in Users, ClaimRequest(p, m)
      PROVE  AuditInv'
  BY <1>3, AcceptKeepsAudit DEF ClaimRequest
<1>4. ASSUME NEW p \in Requests, NEW m \in Users,
             NEW act \in {"start", "complete"}, NEW i \in Items,
             TransitionRequest(p, m, act, i)
      PROVE  AuditInv'
  BY <1>4, AcceptKeepsAudit DEF TransitionRequest
<1>5. ASSUME NEW r \in Runners, RunOnce(r) PROVE AuditInv'
  <2>1. /\ pc[r] = "idle" /\ pc'[r] = "select"
        /\ \A q \in Procs \ {r} : pc'[q] = pc[q] /\ job'[q] = job[q]
        /\ UNCHANGED <<board, trail>>
    BY <1>5 DEF RunOnce, BoardInv, TypeOK
  <2>2. CopyTells(r)'
    BY <2>1 DEF CopyTells
  <2> QED
    BY <2>1, <2>2, QuietAudit
<1>6. ASSUME NEW p \in Procs, SelectNone(p) \/ Rollback(p) \/ Refuse(p)
      PROVE  AuditInv'
  BY <1>6, FinishKeepsAudit DEF SelectNone, Rollback, Refuse
<1>7. ASSUME NEW p \in Procs, Select(p) PROVE AuditInv'
  <2>1. /\ pc[p] = "select" /\ pc'[p] = "commit"
        /\ \A q \in Procs \ {p} : pc'[q] = pc[q] /\ job'[q] = job[q]
        /\ UNCHANGED <<board, trail>>
    BY <1>7 DEF Select, BoardInv, TypeOK
  <2>2. CopyTells(p)'
    BY <2>1 DEF CopyTells
  <2> QED
    BY <2>1, <2>2, QuietAudit
<1>8. ASSUME NEW p \in Procs, Read(p) PROVE AuditInv'
  <2>1. job[p] \in Jobs /\ job[p].item \in Items /\ job[p].act \in {"start", "complete"}
    BY <1>8, JobFacts DEF Read, BoardInv, JobInv
  <2>2. /\ pc[p] = "read"
        /\ job'[p].act = job[p].act
        /\ job'[p].copy = Apply(board[job[p].item], job[p].act)
        /\ \A q \in Procs \ {p} : pc'[q] = pc[q] /\ job'[q] = job[q]
        /\ UNCHANGED <<board, trail>>
    BY <1>8, <2>1 DEF Read, BoardInv, TypeOK, Jobs
  <2>3. Apply(board[job[p].item], job[p].act).state = Lifecycle[job[p].act].to
    BY <2>1, LifecycleKeepsRows, StageFacts DEF BoardInv, TypeOK
  <2>4. CopyTells(p)'
    BY <2>2, <2>3 DEF CopyTells
  <2> QED
    BY <2>2, <2>4, QuietAudit
<1>9. ASSUME NEW r \in Runners, Reason(r) PROVE AuditInv'
  <2>1. job[r] \in Jobs /\ job[r].copy \in Rows
    BY JobFacts
  <2>2. /\ pc[r] = "reason"
        /\ job'[r].act = "complete"
        /\ job'[r].copy = Apply(Apply(job[r].copy, "start"), "complete")
        /\ \A q \in Procs \ {r} : pc'[q] = pc[q] /\ job'[q] = job[q]
        /\ UNCHANGED <<board, trail>>
    BY <1>9, <2>1 DEF Reason, BoardInv, TypeOK, Jobs
  <2>3. Apply(Apply(job[r].copy, "start"), "complete").state = "done"
    BY <2>1, LifecycleKeepsRows DEF Rows
  <2>4. CopyTells(r)'
    BY <2>2, <2>3, StageFacts DEF CopyTells
  <2> QED
    BY <2>2, <2>4, QuietAudit
<1>10. CASE UNCHANGED vars
  BY <1>1, <1>10 DEF vars
<1>11. CASE Next
  BY <1>1, <1>2, <1>3, <1>4, <1>5, <1>6, <1>7, <1>8, <1>9, <1>11, NextCases,
     CommitKeepsAudit, SaveKeepsAudit, RecordKeepsAudit
  DEF Build, Stop, UpsertMember, Fail
<1> QED
  BY <1>10, <1>11

\* While nothing fails, whatever has happened to an item is on its trail, or the
\* process that did it is about to write it there - stale writes included.
THEOREM NothingGoesUnrecorded ==
    ASSUME ~Failures PROVE Spec => []AuditComplete
<1>1. Init => AuditInv
  BY DEF Init, AuditInv, ItemAudited, CopyTells, NoRow
<1>2. BoardInv /\ AuditInv /\ [Next]_vars => AuditInv'
  BY NextKeepsAudit
<1>3. AuditInv => AuditComplete
  BY DEF AuditInv, ItemAudited, AuditComplete
<1> QED
  BY <1>1, <1>2, <1>3, BoardInvariant, PTL DEF Spec

-----------------------------------------------------------------------------
(* The order in which open items are handed out, when nothing fails          *)

Present == {i \in Items : arrived[i] # 0}

\* A row that is going to be written has the priority it has in the table.
CopyRanks(p) ==
    pc[p] \in {"save", "record", "reason"} /\ job[p].act # "publish" =>
        job[p].copy.priority = board[job[p].item].priority

\* A member who has a row keeps one, and a request acts for such a member.
ActsForMember(p) ==
    p \in Requests /\ pc[p] # "idle" => Registered(job[p].actor)

TurnInv ==
    /\ \A i \in Items : arrived[i] <= Cardinality(Present)
    /\ \A p \in Procs : CopyRanks(p) /\ ActsForMember(p)
    /\ InOrder

\* The numbers the order compares.
LEMMA TurnTypes ==
    ASSUME TypeOK
    PROVE  /\ IsFiniteSet(Present)
           /\ Cardinality(Present) \in Nat
           /\ \A i \in Items : /\ arrived[i] \in Nat /\ created[i] \in Nat
                             /\ board[i].priority \in Nat
<1>1. IsFiniteSet(Present) /\ Cardinality(Items) \in Nat
  BY ConstantsAssumption, FS_Subset, FS_CardinalityType DEF Present
<1>2. Cardinality(Present) \in Nat
  BY <1>1, FS_CardinalityType
<1>3. ASSUME NEW i \in Items
      PROVE  arrived[i] \in Nat /\ created[i] \in Nat /\ board[i].priority \in Nat
  <2>1. arrived[i] \in Nat /\ created[i] \in Nat /\ board[i] \in Rows
    BY <1>1 DEF TypeOK
  <2>2. board[i].priority \in Priorities
    BY <2>1, NoRowFields DEF Rows, WorkItemProps
  <2> QED
    BY <2>1, <2>2, ConstantsAssumption
<1> QED
  BY <1>1, <1>2, <1>3

\* While nothing fails and agents are registered before there is work, no claim
\* rolls back: what was selected is committed.
LEMMA ClaimsAreAccepted ==
    ASSUME BoardInv, TurnInv, AgentsFirst, NEW p \in Procs, pc[p] = "commit"
    PROVE  ClaimAccepted(p)
<1>1. /\ board[job[p].item] = job[p].copy
      /\ CanBeClaimedBy(job[p].copy, job[p].roles)
      /\ job[p].item \in Items
      /\ p \in Runners => job[p].actor = AgentOf[p]
  BY JobFacts DEF BoardInv, JobInv
<1>2. arrived[job[p].item] # 0
  BY <1>1 DEF BoardInv, ItemInv, CanBeClaimedBy
<1>3. CASE p \in Runners
  BY <1>1, <1>2, <1>3 DEF AgentsFirst, ClaimAccepted
<1>4. CASE p \in Requests
  BY <1>1, <1>4 DEF TurnInv, ActsForMember, ClaimAccepted
<1> QED
  BY <1>3, <1>4

\* A step that leaves the tables alone and moves a process that holds no row.
LEMMA QuietTurns ==
    ASSUME TurnInv, NEW p \in Procs,
           UNCHANGED <<members, board, arrived, created>>,
           \A q \in Procs \ {p} : pc'[q] = pc[q] /\ job'[q] = job[q],
           pc[p] # "commit", pc'[p] # "commit",
           CopyRanks(p)', ActsForMember(p)'
    PROVE  TurnInv'
<1>1. ASSUME NEW q \in Procs PROVE CopyRanks(q)' /\ ActsForMember(q)'
  BY DEF TurnInv, CopyRanks, ActsForMember, Registered
<1>2. \A i \in Items : Locked(i)' <=> Locked(i)
  BY DEF Locked, Holds
<1>3. InOrder'
  BY <1>2 DEF TurnInv, InOrder
<1> QED
  BY <1>1, <1>3 DEF TurnInv, Present

LEMMA FinishKeepsTurns ==
    ASSUME BoardInv, TurnInv, NEW p \in Procs, Finish(p), pc[p] # "commit",
           UNCHANGED <<members, board, arrived, created>>
    PROVE  TurnInv'
<1>1. /\ pc'[p] = "idle"
      /\ \A q \in Procs \ {p} : pc'[q] = pc[q] /\ job'[q] = job[q]
  BY DEF BoardInv, TypeOK, Finish
<1> QED
  BY <1>1, QuietTurns DEF CopyRanks, ActsForMember

LEMMA AcceptKeepsTurns ==
    ASSUME BoardInv, TurnInv, NEW p \in Requests, NEW m \in Users,
           NEW label \in {"select", "read", "save"}, NEW act, NEW item, NEW copy,
           Accept(p, m, label, act, item, copy),
           label = "save" => act = "publish",
           UNCHANGED <<members, board, arrived, created>>
    PROVE  TurnInv'
<1>1. /\ pc[p] = "idle" /\ pc'[p] = label
      /\ job'[p] = [actor |-> m, roles |-> members[m], act |-> act,
                    item |-> item, copy |-> copy]
      /\ \A q \in Procs \ {p} : pc'[q] = pc[q] /\ job'[q] = job[q]
  BY DEF BoardInv, TypeOK, Accept
<1>2. CopyRanks(p)' /\ ActsForMember(p)'
  BY <1>1 DEF Accept, CopyRanks, ActsForMember, Registered
<1> QED
  BY <1>1, <1>2, QuietTurns

\* The row a SELECT locks is preceded by no row it could have had instead; an
\* unrestricted row that precedes it was somebody else's already.
LEMMA SelectKeepsTurns ==
    ASSUME BoardInv, TurnInv, NEW p \in Procs, Select(p)
    PROVE  TurnInv'
<1>1. PICK k \in Candidates(p) :
        /\ \A j \in Candidates(p) : ~Precedes(j, k)
        /\ job' = [job EXCEPT ![p].item = k, ![p].copy = board[k]]
  BY DEF Select
<1>2. /\ k \in Items
      /\ pc[p] = "select" /\ pc'[p] = "commit"
      /\ job'[p].item = k /\ job'[p].actor = job[p].actor
      /\ \A q \in Procs \ {p} : pc'[q] = pc[q] /\ job'[q] = job[q]
      /\ UNCHANGED <<members, board, arrived, created>>
  BY <1>1 DEF Select, Candidates, BoardInv, TypeOK, Jobs
<1>3. \A q \in Procs : CopyRanks(q)' /\ ActsForMember(q)'
  BY <1>2 DEF TurnInv, CopyRanks, ActsForMember, Registered
<1>4. \A i \in Items : Locked(i)' <=> Locked(i) \/ i = k
  BY <1>2 DEF Locked, Holds
<1>5. ASSUME NEW i \in Items, NEW j \in Items,
             0 < arrived[j], arrived[j] < arrived[i],
             \/ board[j].priority > board[i].priority
             \/ board[j].priority = board[i].priority /\ created[j] < created[i],
             board[j].requiredRole = NoRole,
             board[j].state = "open",
             board[i].state # "open" \/ Locked(i)',
             ~Locked(j)'
      PROVE  FALSE
  <2>1. ~Locked(j)
    BY <1>4, <1>5
  <2>2. i = k
    BY <1>4, <1>5, <2>1 DEF TurnInv, InOrder
  <2>3. j \in Candidates(p)
    BY <1>5, <2>1 DEF Candidates, EligibleRole
  <2>4. Precedes(j, k)
    BY <1>5, <2>2, TurnTypes DEF Precedes, BoardInv
  <2> QED
    BY <1>1, <2>3, <2>4
<1>6. InOrder'
  BY <1>2, <1>5 DEF InOrder
<1> QED
  BY <1>2, <1>3, <1>6 DEF TurnInv, Present

\* A step that writes row k of an item that is not open afterwards, and was not
\* open or locked before, and keeps what the order depends on.
LEMMA RowKeepsTurns ==
    ASSUME BoardInv, TurnInv, NEW p \in Procs, NEW k \in Items,
           job[p].item = k, job'[p].item = k, job'[p].actor = job[p].actor,
           UNCHANGED <<members, arrived, created>>,
           \A q \in Procs \ {p} : pc'[q] = pc[q] /\ job'[q] = job[q],
           pc[p] # "idle", pc'[p] = "record",
           \A j \in Items \ {k} : board'[j] = board[j],
           board[k].state # "open" \/ Locked(k),
           board'[k].state # "open",
           board'[k].priority = board[k].priority,
           job'[p].copy.priority = board[k].priority
    PROVE  TurnInv'
<1>1. ASSUME NEW q \in Procs PROVE CopyRanks(q)' /\ ActsForMember(q)'
  <2>1. CASE q = p
    BY <2>1 DEF TurnInv, CopyRanks, ActsForMember, Registered
  <2>2. CASE q # p
    <3>1. pc[q] \in {"save", "record", "reason"} => job[q].item \in Items
      BY JobFacts
    <3>2. pc'[q] = pc[q] /\ job'[q] = job[q] /\ CopyRanks(q) /\ ActsForMember(q)
      BY <2>2 DEF TurnInv
    <3> QED
      BY <3>1, <3>2 DEF CopyRanks, ActsForMember, Registered
  <2> QED
    BY <2>1, <2>2
<1>2. \A j \in Items \ {k} : Locked(j)' <=> Locked(j)
  BY DEF Locked, Holds
<1>3. ASSUME NEW i \in Items, NEW j \in Items,
             0 < arrived[j], arrived[j] < arrived[i],
             \/ board'[j].priority > board'[i].priority
             \/ board'[j].priority = board'[i].priority /\ created[j] < created[i],
             board'[j].requiredRole = NoRole,
             board'[j].state = "open",
             board'[i].state # "open" \/ Locked(i)'
      PROVE  Locked(j)'
  <2>1. j # k /\ board'[j] = board[j]
    BY <1>3
  <2>2. /\ board'[i].priority = board[i].priority
        /\ board[i].state # "open" \/ Locked(i)
    BY <1>2, <1>3
  <2>3. Locked(j)
    BY <1>3, <2>1, <2>2 DEF TurnInv, InOrder
  <2> QED
    BY <1>2, <2>1, <2>3
<1>4. InOrder'
  BY <1>3 DEF InOrder
<1> QED
  BY <1>1, <1>4 DEF TurnInv, Present

LEMMA CommitKeepsTurns ==
    ASSUME BoardInv, TurnInv, NEW p \in Procs, Commit(p)
    PROVE  TurnInv'
<1> DEFINE k == job[p].item
<1>1. /\ pc[p] = "commit"
      /\ k \in Items
      /\ job[p].copy \in Rows
      /\ job[p].actor \in Members
      /\ board[k] = job[p].copy
  BY JobFacts DEF Commit, BoardInv, JobInv
<1>2. /\ board' = [board EXCEPT ![k] = ClaimBy(job[p].copy, job[p].actor)]
      /\ ClaimBy(job[p].copy, job[p].actor).state = "claimed"
      /\ ClaimBy(job[p].copy, job[p].actor).priority = board[k].priority
  BY <1>1, CommitTyped, ClaimKeepsRows DEF BoardInv
<1>3. /\ pc'[p] = "record"
      /\ job'[p].item = k
      /\ job'[p].actor = job[p].actor
      /\ job'[p].copy = ClaimBy(job[p].copy, job[p].actor)
      /\ \A q \in Procs \ {p} : pc'[q] = pc[q] /\ job'[q] = job[q]
      /\ UNCHANGED <<members, arrived, created>>
  BY <1>1 DEF Commit, BoardInv, TypeOK, Jobs
<1>4. /\ board'[k].state = "claimed"
      /\ board'[k].priority = board[k].priority
      /\ \A j \in Items \ {k} : board'[j] = board[j]
  BY <1>1, <1>2 DEF BoardInv, TypeOK
<1>5. Locked(k)
  BY <1>1 DEF Locked, Holds
<1> HIDE DEF k
<1> QED
  BY <1>1, <1>2, <1>3, <1>4, <1>5, RowKeepsTurns DEF k

\* An insert is the latest row there is, and nobody has it yet.
LEMMA InsertKeepsTurns ==
    ASSUME BoardInv, TurnInv, NEW p \in Procs, Save(p), job[p].act = "publish"
    PROVE  TurnInv'
<1> DEFINE k == job[p].item
           n == Cardinality(Present)
<1>1. /\ pc[p] = "save" /\ k \in Items /\ ~Locked(k)
      /\ arrived[k] = 0
      /\ job[p].copy.state = "open"
  BY JobFacts DEF Save, BoardInv, JobInv
<1>2. /\ board'[k] = job[p].copy
      /\ \A j \in Items \ {k} : board'[j] = board[j]
      /\ arrived' = [arrived EXCEPT ![k] = n + 1]
      /\ arrived'[k] = n + 1
      /\ \A j \in Items \ {k} : arrived'[j] = arrived[j] /\ created'[j] = created[j]
      /\ pc'[p] = "record"
      /\ \A q \in Procs \ {p} : pc'[q] = pc[q]
      /\ UNCHANGED <<members, job>>
  BY <1>1, Stamps DEF Save, BoardInv, TypeOK, Present
<1>3. /\ n \in Nat /\ IsFiniteSet(Present)
      /\ \A j \in Items : arrived[j] \in Nat /\ arrived[j] <= n
  BY TurnTypes DEF BoardInv, TurnInv
<1>4. Cardinality(Present') = n + 1
  <2> HIDE DEF n
  <2>1. \A j \in Items : arrived'[j] # 0 <=> (arrived[j] # 0 \/ j = k)
    BY <1>2, <1>3
  <2>2. Present' = Present \cup {k} /\ k \notin Present
    <3> HIDE DEF k
    <3> QED
      BY <1>1, <2>1 DEF Present
  <2> QED
    BY <1>3, <2>2, FS_AddElement DEF n
<1>5. ASSUME NEW q \in Procs PROVE CopyRanks(q)' /\ ActsForMember(q)'
  <2>1. CASE q = p
    BY <1>1, <1>2, <2>1 DEF TurnInv, CopyRanks, ActsForMember, Registered
  <2>2. CASE q # p
    <3>1. ASSUME pc[q] \in {"save", "record", "reason"}, job[q].act # "publish"
          PROVE  job[q].item \in Items \ {k}
      <4>1. /\ job[q].item \in Items
            /\ board[job[q].item].assignee = job[q].actor
            /\ job[q].actor \in Members
        BY <3>1, JobFacts DEF BoardInv, JobInv
      <4>2. board[k].assignee = NoMember
        BY <1>1 DEF BoardInv, ItemInv
      <4> QED
        BY <4>1, <4>2, ConstantsAssumption
    <3> QED
      BY <1>2, <2>2, <3>1 DEF TurnInv, CopyRanks, ActsForMember, Registered
  <2> QED
    BY <2>1, <2>2
<1>6. \A j \in Items : Locked(j)' <=> Locked(j)
  BY <1>1, <1>2 DEF Locked, Holds
<1>7. ASSUME NEW i \in Items, NEW j \in Items,
             0 < arrived'[j], arrived'[j] < arrived'[i],
             \/ board'[j].priority > board'[i].priority
             \/ board'[j].priority = board'[i].priority /\ created'[j] < created'[i],
             board'[j].requiredRole = NoRole,
             board'[j].state = "open",
             board'[i].state # "open" \/ Locked(i)'
      PROVE  Locked(j)'
  <2>1. j # k
    BY <1>2, <1>3, <1>7
  <2>2. i # k
    BY <1>1, <1>2, <1>6, <1>7
  <2>3. Locked(j)
    BY <1>2, <1>6, <1>7, <2>1, <2>2 DEF TurnInv, InOrder
  <2> QED
    BY <1>6, <2>3
<1>8. InOrder'
  BY <1>7 DEF InOrder
<1>9. \A j \in Items : arrived'[j] <= Cardinality(Present')
  BY <1>2, <1>3, <1>4
<1> QED
  BY <1>5, <1>8, <1>9 DEF TurnInv

LEMMA SaveKeepsTurns ==
    ASSUME BoardInv, TurnInv, NEW p \in Procs, Save(p)
    PROVE  TurnInv'
<1> DEFINE k == job[p].item
<1>1. CASE job[p].act # "publish"
  <2>1. /\ pc[p] = "save" /\ k \in Items
        /\ job[p].copy.state \in {"in_progress", "done"}
        /\ board[k].assignee = job[p].actor
        /\ job[p].actor \in Members
        /\ job[p].copy.priority = board[k].priority
    BY <1>1, JobFacts DEF Save, BoardInv, JobInv, TurnInv, CopyRanks
  <2>2. board[k].state # "open" /\ arrived[k] # 0
    BY <2>1, ConstantsAssumption DEF BoardInv, ItemInv
  <2>3. /\ board'[k] = job[p].copy
        /\ \A j \in Items \ {k} : board'[j] = board[j]
        /\ pc'[p] = "record"
        /\ \A q \in Procs \ {p} : pc'[q] = pc[q]
        /\ UNCHANGED <<members, job>>
    BY <2>1 DEF Save, BoardInv, TypeOK
  <2>4. UNCHANGED <<arrived, created>>
    BY <2>1, <2>2, Stamps DEF Save, BoardInv
  <2> HIDE DEF k
  <2> QED
    BY <2>1, <2>2, <2>3, <2>4, RowKeepsTurns DEF k
<1> QED
  BY <1>1, InsertKeepsTurns

LEMMA UpsertKeepsTurns ==
    ASSUME BoardInv, TurnInv, NEW m \in Members, NEW roles \in SUBSET Roles,
           UpsertMember(m, roles)
    PROVE  TurnInv'
<1>1. /\ \A n \in Members : Registered(n) => Registered(n)'
      /\ UNCHANGED <<board, arrived, created, pc, job>>
  BY ConstantsAssumption DEF UpsertMember, Registered, BoardInv, TypeOK
<1>2. ASSUME NEW p \in Procs PROVE CopyRanks(p)' /\ ActsForMember(p)'
  BY <1>1, JobFacts DEF TurnInv, CopyRanks, ActsForMember
<1>3. InOrder'
  BY <1>1 DEF TurnInv, InOrder, Locked, Holds
<1> QED
  BY <1>1, <1>2, <1>3 DEF TurnInv, Present

LEMMA NextKeepsTurns ==
    ASSUME ~Failures, BoardInv, TurnInv, AgentsFirst, [Next]_vars
    PROVE  TurnInv'
<1>1. CASE UNCHANGED vars
  BY <1>1 DEF vars, TurnInv, Present, CopyRanks, ActsForMember, Registered,
              InOrder, Locked, Holds
<1>2. ASSUME NEW p \in Requests, NEW m \in Users, NEW i \in Items,
             NEW role \in Roles \cup {NoRole}, NEW k \in Priorities,
             PublishRequest(p, m, i, role, k)
      PROVE  TurnInv'
  BY <1>2, AcceptKeepsTurns DEF PublishRequest
<1>3. ASSUME NEW p \in Requests, NEW m \in Users, ClaimRequest(p, m)
      PROVE  TurnInv'
  BY <1>3, AcceptKeepsTurns DEF ClaimRequest
<1>4. ASSUME NEW p \in Requests, NEW m \in Users,
             NEW act \in {"start", "complete"}, NEW i \in Items,
             TransitionRequest(p, m, act, i)
      PROVE  TurnInv'
  BY <1>4, AcceptKeepsTurns DEF TransitionRequest
<1>5. ASSUME NEW r \in Runners, Build(r) \/ Stop(r) PROVE TurnInv'
  BY <1>5 DEF Build, Stop, TurnInv, Present, CopyRanks, ActsForMember,
              Registered, InOrder, Locked, Holds
<1>6. ASSUME NEW r \in Runners, RunOnce(r) PROVE TurnInv'
  <2>1. /\ pc[r] = "idle" /\ pc'[r] = "select"
        /\ \A q \in Procs \ {r} : pc'[q] = pc[q] /\ job'[q] = job[q]
        /\ r \in Procs /\ r \notin Requests
        /\ UNCHANGED <<members, board, arrived, created>>
    BY <1>6, ConstantsAssumption DEF RunOnce, BoardInv, TypeOK
  <2> QED
    BY <2>1, QuietTurns DEF CopyRanks, ActsForMember
<1>7. ASSUME NEW p \in Procs, SelectNone(p) \/ Rollback(p) \/ Refuse(p) \/ Fail(p)
      PROVE  TurnInv'
  <2>1. pc[p] # "commit" /\ Finish(p) /\ UNCHANGED <<members, board, arrived, created>>
    BY <1>7, ClaimsAreAccepted DEF SelectNone, Rollback, Refuse, Fail
  <2> QED
    BY <2>1, FinishKeepsTurns
<1>8. ASSUME NEW p \in Procs, Read(p) PROVE TurnInv'
  <2>1. /\ pc[p] = "read" /\ pc'[p] = "save"
        /\ job[p].item \in Items
        /\ job[p].act \in {"start", "complete"}
        /\ job'[p].item = job[p].item /\ job'[p].actor = job[p].actor
        /\ job'[p].copy = Apply(board[job[p].item], job[p].act)
        /\ \A q \in Procs \ {p} : pc'[q] = pc[q] /\ job'[q] = job[q]
        /\ UNCHANGED <<members, board, arrived, created>>
    BY <1>8, JobFacts DEF Read, BoardInv, TypeOK, JobInv, Jobs
  <2>2. job'[p].copy.priority = board[job[p].item].priority
    BY <2>1 DEF Apply, BoardInv, TypeOK, Rows, WorkItemProps, NoRow
  <2>3. CopyRanks(p)' /\ ActsForMember(p)'
    BY <2>1, <2>2 DEF TurnInv, CopyRanks, ActsForMember, Registered
  <2> QED
    BY <2>1, <2>3, QuietTurns
<1>9. ASSUME NEW r \in Runners, Reason(r) PROVE TurnInv'
  <2>1. /\ pc[r] = "reason" /\ pc'[r] = "save"
        /\ job[r].act = "claim"
        /\ job[r].copy \in Rows
        /\ job'[r].item = job[r].item /\ job'[r].actor = job[r].actor
        /\ job'[r].copy = Apply(Apply(job[r].copy, "start"), "complete")
        /\ \A q \in Procs \ {r} : pc'[q] = pc[q] /\ job'[q] = job[q]
        /\ UNCHANGED <<members, board, arrived, created>>
    BY <1>9, JobFacts DEF Reason, BoardInv, TypeOK, JobInv, Jobs
  <2>2. job'[r].copy.priority = job[r].copy.priority
    BY <2>1 DEF Apply, Rows, WorkItemProps, NoRow
  <2>3. CopyRanks(r)' /\ ActsForMember(r)'
    BY <2>1, <2>2 DEF TurnInv, CopyRanks, ActsForMember, Registered
  <2> QED
    BY <2>1, <2>3, QuietTurns
<1>10. ASSUME NEW p \in Procs, Record(p) PROVE TurnInv'
  <2>1. /\ pc[p] = "record"
        /\ \A q \in Procs \ {p} : pc'[q] = pc[q] /\ job'[q] = job[q]
        /\ UNCHANGED <<members, board, arrived, created>>
        /\ \/ pc'[p] = "idle"
           \/ pc'[p] = "reason" /\ UNCHANGED job
    BY <1>10 DEF Record, Finish, BoardInv, TypeOK
  <2>2. CopyRanks(p)' /\ ActsForMember(p)'
    BY <2>1 DEF TurnInv, CopyRanks, ActsForMember, Registered
  <2> QED
    BY <2>1, <2>2, QuietTurns
<1>11. ASSUME NEW m \in Members, NEW roles \in SUBSET Roles,
              UpsertMember(m, roles)
       PROVE  TurnInv'
  BY <1>11, UpsertKeepsTurns
<1>12. CASE Next
  BY <1>2, <1>3, <1>4, <1>5, <1>6, <1>7, <1>8, <1>9, <1>10, <1>11, <1>12,
     NextCases, SelectKeepsTurns, CommitKeepsTurns, SaveKeepsTurns
<1> QED
  BY <1>1, <1>12

LEMMA InitTurns == Init => TurnInv
<1> SUFFICES ASSUME Init PROVE TurnInv
  OBVIOUS
<1>1. TypeOK
  BY InitTyped
<1>2. \A i \in Items : arrived[i] = 0 /\ arrived[i] <= Cardinality(Present)
  BY <1>1, TurnTypes DEF Init
<1>3. \A p \in Procs : pc[p] = "idle"
  BY DEF Init
<1>4. InOrder
  BY <1>2 DEF InOrder
<1> QED
  BY <1>2, <1>3, <1>4 DEF TurnInv, CopyRanks, ActsForMember

\* While nothing fails and agents are registered before there is work, no item
\* that anybody may take is overtaken by one that came later and is behind it in
\* the order of priority and created_at, however many claimers pass each other's
\* locked rows, and whatever stamps concurrent publishers were given.
THEOREM NobodyIsOvertaken ==
    ASSUME ~Failures PROVE Spec => NoOvertaking
<1>1. BoardInv /\ TurnInv /\ AgentsFirst /\ [Next]_vars => TurnInv'
  BY NextKeepsTurns
<1>2. TurnInv => InOrder
  BY DEF TurnInv
<1> QED
  BY <1>1, <1>2, InitTurns, BoardInvariant, PTL DEF Spec, NoOvertaking
=============================================================================
