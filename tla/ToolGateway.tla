---------------------------- MODULE ToolGateway -----------------------------
(***************************************************************************)
(* Tool calls (packages/agent/src/tools): the persona's allow-list, the    *)
(* policy decision, the secrets one by one, the tool, the audit entry -    *)
(* each after an await of its own, and each may be the last thing a call   *)
(* does.  The audit goes to the activity log, whose foreign key refuses an *)
(* actor that is no row of members.                                        *)
(***************************************************************************)
EXTENDS PolicyEngine, Naturals, Sequences

CONSTANTS
    Calls,      \* calls of invoke()
    Members, Tools, Secrets,
    Failures    \* may the process or a statement fail?

ASSUME ToolAssumption == Failures \in BOOLEAN

VARIABLES
    setup,      \* persona, tool registry, policy and environment, for ever
    members,    \* the members that have a row
    call,       \* each call, wherever it is
    executed,   \* the calls whose tool was invoked
    log         \* the activity log

vars == <<setup, members, call, executed, log>>

Setups ==
    [allowed: SUBSET Tools,             \* the persona's allowedTools
     registered: SUBSET Tools,          \* the tools the gateway was given
     needs: [Tools -> SUBSET Secrets],  \* their requiredSecrets
     policy: [Tools -> ActionDefinitions \cup {Unclassified}],
     env: SUBSET Secrets]               \* what the secrets broker has

Answers == {"invoked", "requires_approval", "denied"}
Errors == {"credential-error", "tool-error", "server-error"}
Stages == {"new", "broker", "running", "audit"}

CallRecords ==
    [member: Members, roles: SUBSET Roles, tool: Tools,
     credentials: SUBSET Secrets,
     outcome: Answers,                  \* what the call will answer
     stage: Stages \cup Answers \cup Errors]

TypeOK ==
    /\ setup \in Setups
    /\ members \subseteq Members
    /\ call \in [Calls -> CallRecords]
    /\ executed \subseteq Calls
    /\ log \in Seq([call: Calls, by: Members, tool: Tools, outcome: Answers])

Init ==
    /\ setup \in Setups
    /\ members \in SUBSET Members
    /\ call \in [Calls -> [member: Members, roles: SUBSET Roles, tool: Tools,
                           credentials: {{}}, outcome: {"denied"},
                           stage: {"new"}]]
    /\ executed = {}
    /\ log = <<>>

\* What authorize() says of the call: the gateway passes no relationships.
Decision(c) ==
    Authorize(setup.policy[call[c].tool], call[c].roles, {})

Offered(c) == call[c].tool \in setup.allowed \cap setup.registered

\* The call goes to this stage, to answer this, with these credentials.
Moves(c, stage, outcome, credentials) ==
    call' = [call EXCEPT ![c] = [@ EXCEPT !.stage = stage, !.outcome = outcome,
                                         !.credentials = credentials]]

\* The answer is known: the entry that says so is next.
Settle(c, outcome) == Moves(c, "audit", outcome, {})

\* The call ends in an error.
Throw(c, error) == Moves(c, error, call[c].outcome, {})

Deny(c) ==
    /\ call[c].stage = "new"
    /\ ~Offered(c) \/ Decision(c) = "deny"
    /\ Settle(c, "denied")
    /\ UNCHANGED <<setup, members, executed, log>>

Propose(c) ==
    /\ call[c].stage = "new"
    /\ Offered(c)
    /\ Decision(c) = "requires_approval"
    /\ Settle(c, "requires_approval")
    /\ UNCHANGED <<setup, members, executed, log>>

Allow(c) ==
    /\ call[c].stage = "new"
    /\ Offered(c)
    /\ Decision(c) = "allow"
    /\ Moves(c, "broker", call[c].outcome, {})
    /\ UNCHANGED <<setup, members, executed, log>>

Missing(c) == setup.needs[call[c].tool] \ call[c].credentials

\* Mutant: a missing secret skips the call and reports it as done.
BrokerSkips(c, s) ==
    /\ call[c].stage = "broker"
    /\ s \in Missing(c)
    /\ IF s \in setup.env
         THEN Moves(c, "broker", call[c].outcome, call[c].credentials \cup {s})
         ELSE Settle(c, "invoked")
    /\ UNCHANGED <<setup, members, executed, log>>

\* The next secret (in the order of the tool's list, which is left open).
Broker(c, s) ==
    /\ call[c].stage = "broker"
    /\ s \in Missing(c)
    /\ IF s \in setup.env
         THEN Moves(c, "broker", call[c].outcome, call[c].credentials \cup {s})
         ELSE Throw(c, "credential-error")
    /\ UNCHANGED <<setup, members, executed, log>>

\* tool.invoke is called, with every secret it needs.
Execute(c) ==
    /\ call[c].stage = "broker"
    /\ Missing(c) = {}
    /\ Moves(c, "running", call[c].outcome, call[c].credentials)
    /\ executed' = executed \cup {c}
    /\ UNCHANGED <<setup, members, log>>

ToolReturns(c) ==
    /\ call[c].stage = "running"
    /\ Settle(c, "invoked")
    /\ UNCHANGED <<setup, members, executed, log>>

\* The tool throws: an MCP server that answers isError has run it all the same.
ToolThrows(c) ==
    /\ call[c].stage = "running"
    /\ Throw(c, "tool-error")
    /\ UNCHANGED <<setup, members, executed, log>>

Entry(c) == [call |-> c, by |-> call[c].member, tool |-> call[c].tool,
             outcome |-> call[c].outcome]

\* Mutant: the insert is not awaited, and its rejection not seen.
AuditUnawaited(c) ==
    /\ call[c].stage = "audit"
    /\ Moves(c, call[c].outcome, call[c].outcome, {})
    /\ log' = IF call[c].member \in members THEN Append(log, Entry(c)) ELSE log
    /\ UNCHANGED <<setup, members, executed>>

\* activity.record, and only then the answer.
Audit(c) ==
    /\ call[c].stage = "audit"
    /\ IF call[c].member \in members
         THEN /\ log' = Append(log, Entry(c))
              /\ Moves(c, call[c].outcome, call[c].outcome, {})
         ELSE /\ Throw(c, "server-error")
              /\ UNCHANGED log
    /\ UNCHANGED <<setup, members, executed>>

\* A statement, the broker's store or the process fails: the insert of the entry
\* before or after its commit.
Fail(c) ==
    /\ Failures
    /\ call[c].stage \in Stages
    /\ \/ UNCHANGED log
       \/ /\ call[c].stage = "audit"
          /\ call[c].member \in members
          /\ log' = Append(log, Entry(c))
    /\ Throw(c, "server-error")
    /\ UNCHANGED <<setup, members, executed>>

\* Members get their rows while calls are under way.
Register(m) ==
    /\ m \notin members
    /\ members' = members \cup {m}
    /\ UNCHANGED <<setup, call, executed, log>>

Invoke(c) ==
    \/ Deny(c) \/ Propose(c) \/ Allow(c)
    \/ \E s \in Secrets : Broker(c, s)
    \/ Execute(c) \/ ToolReturns(c) \/ ToolThrows(c)
    \/ Audit(c)

Next ==
    \/ \E c \in Calls : Invoke(c) \/ Fail(c)
    \/ \E m \in Members : Register(m)

Spec == Init /\ [][Next]_vars

-----------------------------------------------------------------------------
\* Everybody agreed to the call: the persona lists the tool, the gateway has
\* it, and the policy names its action, as a routine one without a gate this
\* member does not pass.
Permitted(c) ==
    LET action == setup.policy[call[c].tool]
    IN  /\ call[c].tool \in setup.allowed
        /\ call[c].tool \in setup.registered
        /\ action # Unclassified
        /\ action.consequence = "routine"
        /\ action.requiredRoles # NoGate =>
             \E role \in action.requiredRoles : role \in call[c].roles
        /\ action.requiredRelationship = NoGate

\* A consequential action is proposed and never executed, and no action that
\* anything forbids is.
OnlyPermittedExecutes == \A c \in executed : Permitted(c)

\* Secrets are taken out of the vault for permitted calls only - though the
\* call may find another one missing and end there -, are never kept once the
\* tool has run or the call is over, and the tool runs with exactly those it needs.
CredentialsConfined ==
    \A c \in Calls :
        /\ call[c].credentials # {} =>
             Permitted(c) /\ call[c].stage \in {"broker", "running"}
        /\ call[c].credentials \subseteq setup.needs[call[c].tool] \cap setup.env
        /\ call[c].stage = "running" =>
             call[c].credentials = setup.needs[call[c].tool]

\* The log tells the truth: "invoked" of calls that ran, "denied" and
\* "requires_approval" of calls that did not and never will, in the name of
\* the member that called.
LogTruthful ==
    \A k \in DOMAIN log :
        /\ log[k].outcome = "invoked" <=> log[k].call \in executed
        /\ log[k].by = call[log[k].call].member

EntriesOf(c) == {k \in DOMAIN log : log[k].call = c}

OneEntry(c, outcome) ==
    \E k \in EntriesOf(c) : EntriesOf(c) = {k} /\ log[k].outcome = outcome

\* Whoever got an answer got it after exactly one entry that says the same.  Of
\* calls that are under way or ended with the tool's or the vault's error there
\* is none, and of one the server failed there is at most the one it would have
\* answered with.
AnswersAreLogged ==
    \A c \in Calls :
        /\ call[c].stage \in Answers => OneEntry(c, call[c].stage)
        /\ call[c].stage \notin Answers =>
             \/ EntriesOf(c) = {}
             \/ call[c].stage = "server-error" /\ OneEntry(c, call[c].outcome)

\* What makes the four above inductive.
CallInv(c) ==
    /\ call[c].stage \in {"new", "broker"} => c \notin executed
    /\ call[c].stage = "broker" => Permitted(c)
    /\ call[c].stage = "running" => c \in executed
    /\ call[c].stage \in {"audit"} \cup Answers =>
         (call[c].outcome = "invoked" <=> c \in executed)

ToolInv ==
    /\ TypeOK
    /\ \A c \in Calls : CallInv(c)
    /\ OnlyPermittedExecutes
    /\ CredentialsConfined
    /\ LogTruthful
    /\ AnswersAreLogged

\* "Every call is audited": what a tool was made to do is on the log when the
\* call is over.
ExecutionsAreLogged ==
    \A c \in executed : call[c].stage \in Answers \cup Errors => EntriesOf(c) # {}
=============================================================================
