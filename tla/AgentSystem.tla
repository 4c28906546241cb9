----------------------------- MODULE AgentSystem -----------------------------
(***************************************************************************)
(* The agent loop (AgentRunner.runOnce) between its two partners: the board *)
(* it claims items from, taken at what SharedBoard promises - WorkBoard is *)
(* proved to keep that promise - and the ModelGateway it reasons through,  *)
(* whose only callers runners are.  A runner claims first and learns only  *)
(* then whether the gateway will serve it; whatever it throws ends the turn *)
(* and leaves the item where it is.  Runners live in the process of the    *)
(* gateway and end with it.                                                *)
(***************************************************************************)
EXTENDS ModelGateway

CONSTANTS
    Items,
    Agents,   \* the members runners are built for
    NoMember, Unpublished, NoItem

Runners == Callers

ASSUME AgentAssumption ==
    /\ IsFiniteSet(Items)
    /\ NoItem \notin Items
    /\ Agents \subseteq Members
    /\ NoMember \notin Members
    /\ Unpublished \notin Members \cup {NoMember}

VARIABLES
    owner, credited,  \* the board, as in SharedBoard
    deps,       \* the agent and the gateway task of each runner
    turn,       \* where each runner is in runOnce, and with which item
    done,       \* the items saved as done
    failures    \* may statements, providers and runners fail?

board == <<owner, credited>>

agentVars == <<vars, board, deps, turn, done, failures>>

Board == INSTANCE SharedBoard

Turns == [pc : {"idle", "report", "reason", "await", "save", "reportDone"},
          item : Items \cup {NoItem}]

NoTurn == [pc |-> "idle", item |-> NoItem]

AgentTypeOK ==
    /\ owner \in [Items -> Members \cup {NoMember, Unpublished}]
    /\ credited \subseteq Items \X Members
    /\ deps \in [Runners -> [agent : Agents, task : Tasks]]
    /\ turn \in [Runners -> Turns]
    /\ done \subseteq Items
    /\ failures \in BOOLEAN

AgentInit ==
    /\ Init
    /\ Board!Init
    /\ deps \in [Runners -> [agent : Agents, task : Tasks]]
    /\ turn = [r \in Runners |-> NoTurn]
    /\ done = {}
    /\ failures \in BOOLEAN

Agent(r) == deps[r].agent

Goes(r, from, to) ==
    /\ turn[r].pc = from
    /\ turn' = [turn EXCEPT ![r].pc = to]

\* runOnce returns or throws.
TurnEnds(r) == turn' = [turn EXCEPT ![r] = NoTurn]

-----------------------------------------------------------------------------
(* Other users of the board *)

PublishItem(i) ==
    /\ Board!Publish(i)
    /\ UNCHANGED <<vars, deps, turn, done, failures>>

\* A request claims an item for m; only people send requests.
ClaimElsewhere(i, m) ==
    /\ Board!Claim(i, m)
    /\ UNCHANGED <<vars, deps, turn, done, failures>>

-----------------------------------------------------------------------------
(* runOnce *)

\* Mutant: a runner takes up what its agent has begun and not finished.
ClaimNextResumes(r) ==
    \E i \in Items \ done :
        /\ turn[r].pc = "idle"
        /\ \/ /\ Board!Claim(i, Agent(r))
              /\ turn' = [turn EXCEPT ![r] = [pc |-> "report", item |-> i]]
           \/ /\ <<i, Agent(r)>> \in credited
              /\ UNCHANGED board
              /\ turn' = [turn EXCEPT ![r] = [pc |-> "reason", item |-> i]]
        /\ UNCHANGED <<vars, deps, done, failures>>

ClaimNext(r) ==
    \E i \in Items :
        /\ turn[r].pc = "idle"
        /\ turn' = [turn EXCEPT ![r] = [pc |-> "report", item |-> i]]
        /\ Board!Claim(i, Agent(r))
        /\ UNCHANGED <<vars, deps, done, failures>>

ReportClaim(r) ==
    /\ Goes(r, "report", "reason")
    /\ Board!Credit(turn[r].item)
    /\ UNCHANGED <<vars, deps, done, failures>>

\* The gateway lets the call through.
Reason(r) ==
    /\ Goes(r, "reason", "await")
    /\ Dispatch(r, Agent(r), deps[r].task)
    /\ UNCHANGED <<board, deps, done, failures>>

\* Mutant: a runner without quota waits for some.
RefusedUnlessQuota(r) ==
    /\ turn[r].pc = "reason"
    /\ \/ UnknownTask(r, Agent(r), deps[r].task)
       \/ UnknownProvider(r, Agent(r), deps[r].task)
       \/ NoEgressViolation(r, Agent(r), deps[r].task)
    /\ TurnEnds(r)
    /\ UNCHANGED <<board, deps, done, failures>>

\* The gateway throws, and nobody catches.
Refused(r) ==
    /\ turn[r].pc = "reason"
    /\ \/ UnknownTask(r, Agent(r), deps[r].task)
       \/ UnknownProvider(r, Agent(r), deps[r].task)
       \/ NoEgressViolation(r, Agent(r), deps[r].task)
       \/ QuotaExceeded(r, Agent(r), deps[r].task)
    /\ TurnEnds(r)
    /\ UNCHANGED <<board, deps, done, failures>>

Answered(r, cost) ==
    /\ Goes(r, "await", "save")
    /\ Answer(r, cost)
    /\ UNCHANGED <<board, deps, done, failures>>

Rejected(r) ==
    /\ failures
    /\ turn[r].pc = "await"
    /\ ProviderFails(r)
    /\ TurnEnds(r)
    /\ UNCHANGED <<board, deps, done, failures>>

\* Mutant: the turn ends with the answer and leaves the item as it was.
SaveNothing(r) ==
    /\ Goes(r, "save", "reportDone")
    /\ UNCHANGED <<vars, board, deps, done, failures>>

\* claimed.start().complete() and board.save.
Save(r) ==
    /\ Goes(r, "save", "reportDone")
    /\ done' = done \cup {turn[r].item}
    /\ UNCHANGED <<vars, board, deps, failures>>

ReportDone(r) ==
    /\ turn[r].pc = "reportDone"
    /\ TurnEnds(r)
    /\ UNCHANGED <<vars, board, deps, done, failures>>

\* A statement fails: the turn ends, and nobody takes it up again.
TurnFails(r) ==
    /\ failures
    /\ turn[r].pc \in {"report", "save", "reportDone"}
    /\ TurnEnds(r)
    /\ UNCHANGED <<vars, board, deps, done, failures>>

\* The process ends in the middle of everything; the next one may be set up
\* with other runners.
RestartProcess ==
    /\ failures
    /\ Restart
    /\ deps' \in [Runners -> [agent : Agents, task : Tasks]]
    /\ turn' = [r \in Runners |-> NoTurn]
    /\ UNCHANGED <<board, done, failures>>

RunOnce(r) ==
    \/ ReportClaim(r)
    \/ Reason(r)
    \/ Refused(r)
    \/ \E cost \in 0..MaxCost : Answered(r, cost)
    \/ Rejected(r)
    \/ Save(r)
    \/ ReportDone(r)

AgentNext ==
    \/ \E i \in Items : PublishItem(i)
    \/ \E i \in Items, m \in Members \ Agents : ClaimElsewhere(i, m)
    \/ \E r \in Runners : ClaimNext(r) \/ RunOnce(r) \/ TurnFails(r)
    \/ RestartProcess

AgentSpec == AgentInit /\ [][AgentNext]_agentVars

\* A turn that has begun goes on: statements are answered and a provider, in
\* the end, answers or fails.  No code makes it do so.
FairAgents == AgentSpec /\ \A r \in Runners : WF_agentVars(RunOnce(r))

-----------------------------------------------------------------------------
Holding(i) == {r \in Runners : turn[r].item = i}

\* Every token an agent was given went into an item of its own, each paid for
\* at most once - whatever was retried, refused, lost or restarted.
SpentOnOwnItems ==
    \A m \in Members :
        spent[m] <= MaxCost * Cardinality({i \in Items : owner[i] = m})

\* Without failures an item that a runner claimed is only ever left unfinished
\* because the gateway refuses that agent: races alone strand nothing.  It is
\* left then, claimed for good, and the refusal still stands.
StrandedMeansRefused ==
    ~failures => \A i \in Items, m \in Members :
        /\ <<i, m>> \in credited
        /\ i \notin done
        /\ Holding(i) = {}
        => \E r \in Runners :
               /\ Agent(r) = m
               /\ \/ ~Routed(deps[r].task)
                  \/ Blocked(deps[r].task)
                  \/ OverQuota(m)

\* No turn lasts for ever, and one that got as far as the provider finishes its
\* item.
TurnsAreSettled ==
    \A r \in Runners :
        /\ turn[r].pc # "idle" ~> turn[r].pc = "idle"
        /\ \A i \in Items :
              turn[r].pc = "await" /\ turn[r].item = i /\ ~failures ~> i \in done

\* What each turn may rely on.
TurnInv(r) ==
    LET t == turn[r]
    IN  /\ t.pc = "idle" <=> t.item = NoItem
        /\ t.pc = "await" <=> Awaits(r)
        /\ t.pc = "await" => call[r].member = Agent(r)
        /\ t.pc # "idle" => owner[t.item] = Agent(r)
        /\ t.pc = "report" => \A m \in Members : <<t.item, m>> \notin credited
        /\ t.pc \in {"report", "reason", "await", "save"} => t.item \notin done

\* The items of m that have been paid for, or never will be.
Settled(m) ==
    {i \in Items : /\ owner[i] = m
                   /\ \A r \in Runners : turn[r].item = i =>
                        turn[r].pc \notin {"report", "reason", "await"}}

\* The inductive invariant.
AgentInv ==
    /\ GatewayInv
    /\ AgentTypeOK
    /\ \A r \in Runners : TurnInv(r)
    /\ \A i \in Items : owner[i] \notin Members =>
           i \notin done /\ \A m \in Members : <<i, m>> \notin credited
    /\ \A q, r \in Runners :
           q # r /\ turn[q].item # NoItem => turn[q].item # turn[r].item
    /\ \A m \in Members : spent[m] <= MaxCost * Cardinality(Settled(m))
=============================================================================
