---------------------------- MODULE ModelGateway ----------------------------
(***************************************************************************)
(* The gateway every model call goes through (packages/agent/src/model).   *)
(* complete() checks the route, the egress mode and the member's quota in  *)
(* one go, then awaits the provider, then meters the answer.  Between the  *)
(* check and the metering any number of other calls pass the same check;   *)
(* and the meter is a Map of the process, so a restart, perhaps with       *)
(* another configuration, starts it from nothing.                          *)
(***************************************************************************)
EXTENDS Naturals, FiniteSets

CONSTANTS
    Callers,      \* the calls that can be under way at one time
    Members, Tasks, ProviderNames,
    NoRoute, NoCall,
    Quota,        \* quotaTokensPerMember, where there is one
    MaxCost,      \* the most tokens one call can take
    MaxRestarts   \* bound: restarts of the process

Outcomes == {"answered", "unknown-task", "unknown-provider", "no-egress",
             "quota-exceeded", "provider-failed"}

Calls == [member: Members, task: Tasks, status: {"awaiting"} \cup Outcomes]

ASSUME GatewayAssumption ==
    /\ IsFiniteSet(Callers)
    /\ NoRoute \notin ProviderNames
    /\ NoCall \notin Calls
    /\ Quota \in Nat
    /\ MaxCost \in Nat
    /\ MaxRestarts \in Nat

VARIABLES
    config,    \* what the gateway was constructed with
    call,      \* each caller's last call, under way or answered
    usage,     \* total tokens metered for each member
    spent,     \* tokens each member was really given answers for, for ever
    restarts

vars == <<config, call, usage, spent, restarts>>

\* "local" and "external" are registered providers.
Configs == [route: [Tasks -> ProviderNames \cup {NoRoute}],
            kind: [ProviderNames -> {"unregistered", "local", "external"}],
            noEgress: BOOLEAN,
            limited: BOOLEAN]    \* is there a quotaTokensPerMember?

TypeOK ==
    /\ config \in Configs
    /\ call \in [Callers -> Calls \cup {NoCall}]
    /\ usage \in [Members -> Nat]
    /\ spent \in [Members -> Nat]
    /\ restarts \in Nat

Init ==
    /\ config \in Configs
    /\ call = [c \in Callers |-> NoCall]
    /\ usage = [m \in Members |-> 0]
    /\ spent = [m \in Members |-> 0]
    /\ restarts = 0

Awaits(c) == call[c] # NoCall /\ call[c].status = "awaiting"

\* A new call of c gets this far.
Reaches(c, m, t, status) ==
    /\ ~Awaits(c)
    /\ call' = [call EXCEPT ![c] = [member |-> m, task |-> t, status |-> status]]
    /\ UNCHANGED <<config, usage, spent, restarts>>

\* The call of c is over.
Ends(c, status) == call' = [call EXCEPT ![c].status = status]

-----------------------------------------------------------------------------
(* complete(), up to the await *)

Provider(t) == config.route[t]

Blocked(t) == config.noEgress /\ config.kind[Provider(t)] = "external"

\* Mutant: the cap itself still passes.
OverQuotaStrictly(m) == config.limited /\ usage[m] > Quota

OverQuota(m) == config.limited /\ usage[m] >= Quota

UnknownTask(c, m, t) ==
    /\ Provider(t) = NoRoute
    /\ Reaches(c, m, t, "unknown-task")

UnknownProvider(c, m, t) ==
    /\ Provider(t) # NoRoute
    /\ config.kind[Provider(t)] = "unregistered"
    /\ Reaches(c, m, t, "unknown-provider")

\* The route leads to a provider of this workspace.
Routed(t) ==
    /\ Provider(t) # NoRoute
    /\ config.kind[Provider(t)] # "unregistered"

NoEgressViolation(c, m, t) ==
    /\ Routed(t)
    /\ Blocked(t)
    /\ Reaches(c, m, t, "no-egress")

QuotaExceeded(c, m, t) ==
    /\ Routed(t)
    /\ ~Blocked(t)
    /\ OverQuota(m)
    /\ Reaches(c, m, t, "quota-exceeded")

\* The call goes out.  The tokens it will take are not known yet, and nothing
\* is reserved for it.
Dispatch(c, m, t) ==
    /\ Routed(t)
    /\ ~Blocked(t)
    /\ ~OverQuota(m)
    /\ Reaches(c, m, t, "awaiting")

-----------------------------------------------------------------------------
(* complete(), after the await *)

\* Mutant: the meter holds the last call and not the sum.
AnswerOverwrites(c, cost) ==
    /\ Awaits(c)
    /\ usage' = [usage EXCEPT ![call[c].member] = cost]
    /\ spent' = [spent EXCEPT ![call[c].member] = @ + cost]
    /\ Ends(c, "answered")
    /\ UNCHANGED <<config, restarts>>

\* meter(): read and written after the await, without another in between.
Answer(c, cost) ==
    /\ Awaits(c)
    /\ usage' = [usage EXCEPT ![call[c].member] = @ + cost]
    /\ spent' = [spent EXCEPT ![call[c].member] = @ + cost]
    /\ Ends(c, "answered")
    /\ UNCHANGED <<config, restarts>>

\* The provider rejects: the error passes through and nothing is metered.
ProviderFails(c) ==
    /\ Awaits(c)
    /\ Ends(c, "provider-failed")
    /\ UNCHANGED <<config, usage, spent, restarts>>

\* The process ends and another one is built, with any configuration; but a
\* workspace with quotas stays one.
Restart ==
    /\ restarts < MaxRestarts
    /\ restarts' = restarts + 1
    /\ config' \in {c \in Configs : c.limited = config.limited}
    /\ call' = [c \in Callers |-> NoCall]
    /\ usage' = [m \in Members |-> 0]
    /\ UNCHANGED spent

Complete(c, m, t) ==
    \/ UnknownTask(c, m, t)
    \/ UnknownProvider(c, m, t)
    \/ NoEgressViolation(c, m, t)
    \/ QuotaExceeded(c, m, t)
    \/ Dispatch(c, m, t)

Next ==
    \/ \E c \in Callers, m \in Members, t \in Tasks : Complete(c, m, t)
    \/ \E c \in Callers, cost \in 0..MaxCost : Answer(c, cost)
    \/ \E c \in Callers : ProviderFails(c)
    \/ Restart

Spec == Init /\ [][Next]_vars

-----------------------------------------------------------------------------
CallsOf(m) == {c \in Callers : Awaits(c) /\ call[c].member = m}

\* What a quota is worth: the last token below it, and then whatever the calls
\* cost that pass the check together.
Worth == IF Quota = 0 THEN 0 ELSE Quota - 1 + MaxCost * Cardinality(Callers)

\* Where there is a quota: a member's tokens, and what its calls under way may still add to them, are
\* within that: the check does not bound the total, but this much is sure.
OvershootBounded ==
    config.limited => \A m \in Members :
        usage[m] + MaxCost * Cardinality(CallsOf(m)) <= Worth

\* Over all processes nobody is given more than a quota is worth in each.
SpendBounded ==
    config.limited => \A m \in Members : spent[m] <= (restarts + 1) * Worth

\* Of the same, what the processes before this one are answerable for.
SpentBefore ==
    config.limited => \A m \in Members : spent[m] <= restarts * Worth + usage[m]

\* Nothing a member was given is lost from the meter while a process lives.
UsageIsSpent ==
    /\ \A m \in Members : usage[m] <= spent[m]
    /\ restarts = 0 => usage = spent

\* Who was refused for the quota is refused for as long as the process lives:
\* no answer that comes in late makes room again.
RefusalsStand ==
    \A c \in Callers :
        /\ call[c] # NoCall
        /\ call[c].status = "quota-exceeded"
        => OverQuota(call[c].member)

\* Under no-egress mode no call is ever outside, whatever was configured when.
EgressConfined ==
    config.noEgress => \A c \in Callers :
        Awaits(c) => config.kind[Provider(call[c].task)] = "local"

\* The inductive invariant.
GatewayInv ==
    /\ TypeOK
    /\ SpentBefore
    /\ OvershootBounded
    /\ UsageIsSpent
    /\ RefusalsStand
    /\ \A c \in Callers : Awaits(c) => /\ Routed(call[c].task)
                                       /\ ~Blocked(call[c].task)
=============================================================================
