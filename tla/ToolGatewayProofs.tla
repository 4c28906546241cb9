------------------------- MODULE ToolGatewayProofs --------------------------
(***************************************************************************)
(* ToolInv is inductive, for any persona, tools, policy, environment and   *)
(* number of calls.                                                        *)
(***************************************************************************)
EXTENDS ToolGateway, SequenceTheorems, TLAPS

\* A call the gateway lets through is one everybody agreed to.
LEMMA AllowedIsPermitted ==
    ASSUME TypeOK, NEW c \in Calls, Offered(c), Decision(c) = "allow"
    PROVE  Permitted(c)
<1> DEFINE action == setup.policy[call[c].tool]
<1>1. action # Unclassified /\ Eligible(action, call[c].roles, {})
  BY DEF Decision, Authorize
<1>2. action.consequence = "routine"
  BY <1>1 DEF Decision, Authorize, DecideByConsequence
<1>3. /\ action.requiredRoles # NoGate =>
           \E role \in action.requiredRoles : role \in call[c].roles
      /\ action.requiredRelationship = NoGate
  BY <1>1 DEF Eligible
<1> QED
  BY <1>1, <1>2, <1>3 DEF Permitted, Offered

LEMMA LoggedCall ==
    ASSUME TypeOK, NEW k \in DOMAIN log
    PROVE  log[k].call \in Calls
<1>1. k \in 1..Len(log)
  BY DEF TypeOK
<1>2. log[k] \in [call: Calls, by: Members, tool: Tools, outcome: Answers]
  BY <1>1, ElementOfSeq DEF TypeOK
<1> QED
  BY <1>2

LEMMA InitTool == Init => ToolInv
<1> SUFFICES ASSUME Init PROVE ToolInv
  OBVIOUS
<1>1. TypeOK
  BY DEF Init, TypeOK, CallRecords, Stages, Answers
<1>2. \A c \in Calls : /\ call[c].stage = "new"
                       /\ call[c].credentials = {}
                       /\ c \notin executed
                       /\ EntriesOf(c) = {}
  BY DEF Init, EntriesOf
<1> QED
  BY <1>1, <1>2
     DEF ToolInv, CallInv, OnlyPermittedExecutes, CredentialsConfined,
         LogTruthful, AnswersAreLogged, Init, Answers

\* A step of c that writes nothing to the log and changes neither whose call
\* it is nor what for; its outcome and stage fit CallInv.
LEMMA QuietStep ==
    ASSUME ToolInv, NEW c \in Calls,
           UNCHANGED <<setup, members, log>>,
           executed' \in {executed, executed \cup {c}},
           NEW stage \in Stages \cup Errors, NEW outcome \in Answers,
           NEW credentials \in SUBSET Secrets,
           call[c].stage \in Stages,
           Moves(c, stage, outcome, credentials),
           CallInv(c)',
           c \in executed' => Permitted(c),
           credentials # {} => Permitted(c) /\ stage \in {"broker", "running"},
           credentials \subseteq setup.needs[call[c].tool] \cap setup.env,
           stage = "running" => credentials = setup.needs[call[c].tool]
    PROVE  ToolInv'
<1>1. /\ call[c] \in CallRecords
      /\ call'[c] = [call[c] EXCEPT !.stage = stage, !.outcome = outcome,
                                    !.credentials = credentials]
      /\ \A d \in Calls \ {c} : call'[d] = call[d]
      /\ call' \in [Calls -> CallRecords]
  BY DEF ToolInv, TypeOK, CallRecords, Moves
<1>2. /\ call'[c].member = call[c].member
      /\ call'[c].roles = call[c].roles
      /\ call'[c].tool = call[c].tool
      /\ call'[c].stage = stage
      /\ call'[c].credentials = credentials
  BY <1>1 DEF CallRecords
<1>3. TypeOK'
  BY <1>1 DEF ToolInv, TypeOK
<1>4. \A d \in Calls : Permitted(d)' <=> Permitted(d)
  BY <1>1, <1>2 DEF Permitted
<1>5. \A d \in Calls : CallInv(d)'
  <2> SUFFICES ASSUME NEW d \in Calls, d # c PROVE CallInv(d)'
    OBVIOUS
  <2>1. call'[d] = call[d] /\ (d \in executed' <=> d \in executed) /\ CallInv(d)
    BY <1>1 DEF ToolInv
  <2> QED
    BY <1>4, <2>1 DEF CallInv
<1>6. OnlyPermittedExecutes'
  BY <1>4 DEF ToolInv, OnlyPermittedExecutes, TypeOK
<1>7. CredentialsConfined'
  <2> SUFFICES ASSUME NEW d \in Calls
               PROVE  /\ call'[d].credentials # {} =>
                           /\ Permitted(d)'
                           /\ call'[d].stage \in {"broker", "running"}
                      /\ call'[d].credentials
                           \subseteq setup.needs[call'[d].tool] \cap setup.env
                      /\ call'[d].stage = "running" =>
                           call'[d].credentials = setup.needs[call'[d].tool]
    BY DEF CredentialsConfined
  <2>1. CASE d = c
    BY <1>2, <1>4, <2>1
  <2>2. CASE d # c
    BY <1>1, <1>4, <2>2 DEF ToolInv, CredentialsConfined
  <2> QED
    BY <2>1, <2>2
<1>8. EntriesOf(c) = {}
  BY DEF ToolInv, AnswersAreLogged, Stages, Answers
<1>9. LogTruthful'
  <2> SUFFICES ASSUME NEW k \in DOMAIN log
               PROVE  /\ log[k].outcome = "invoked" <=> log[k].call \in executed'
                      /\ log[k].by = call'[log[k].call].member
    BY DEF LogTruthful
  <2>1. log[k].call # c
    BY <1>8 DEF EntriesOf
  <2>2. log[k].call \in Calls
    BY LoggedCall DEF ToolInv
  <2> QED
    BY <1>1, <2>1, <2>2 DEF ToolInv, LogTruthful
<1>10. AnswersAreLogged'
  <2>1. \A d \in Calls : EntriesOf(d)' = EntriesOf(d)
    BY DEF EntriesOf
  <2>2. call'[c].stage \notin Answers
    BY <1>2 DEF Stages, Errors, Answers
  <2> SUFFICES ASSUME NEW d \in Calls
               PROVE  /\ call'[d].stage \in Answers => OneEntry(d, call[d].stage)'
                      /\ call'[d].stage \notin Answers =>
                           \/ EntriesOf(d)' = {}
                           \/ /\ call'[d].stage = "server-error"
                              /\ OneEntry(d, call[d].outcome)'
    BY DEF AnswersAreLogged
  <2>3. CASE d = c
    BY <1>8, <2>1, <2>2, <2>3
  <2>4. CASE d # c
    BY <1>1, <2>1, <2>4 DEF ToolInv, AnswersAreLogged, OneEntry
  <2> QED
    BY <2>3, <2>4
<1> QED
  BY <1>3, <1>5, <1>6, <1>7, <1>9, <1>10 DEF ToolInv

\* What every step may use of the call that takes it.
LEMMA OfCall ==
    ASSUME ToolInv, NEW c \in Calls
    PROVE  /\ TypeOK
           /\ CallInv(c)
           /\ c \in executed => Permitted(c)
           /\ call[c].credentials # {} =>
                Permitted(c) /\ call[c].stage \in {"broker", "running"}
           /\ call[c].credentials \subseteq setup.needs[call[c].tool] \cap setup.env
           /\ call[c] \in CallRecords
BY DEF ToolInv, OnlyPermittedExecutes, CredentialsConfined, TypeOK

\* What Moves does to the call itself.
LEMMA Moved ==
    ASSUME ToolInv, NEW c \in Calls, NEW stage, NEW outcome, NEW credentials,
           Moves(c, stage, outcome, credentials)
    PROVE  /\ call'[c].stage = stage
           /\ call'[c].outcome = outcome
           /\ call'[c].tool = call[c].tool
           /\ call'[c].roles = call[c].roles
           /\ call[c].outcome \in Answers
           /\ call[c].credentials \in SUBSET Secrets
BY DEF ToolInv, TypeOK, CallRecords, Moves

\* The entry of c is written, and c is answered or fails.
LEMMA LoggedStep ==
    ASSUME ToolInv, NEW c \in Calls, call[c].stage = "audit",
           UNCHANGED <<setup, members, executed>>,
           log' = Append(log, Entry(c)),
           NEW stage \in {call[c].outcome, "server-error"},
           Moves(c, stage, call[c].outcome, {})
    PROVE  ToolInv'
<1>1. /\ c \in executed => Permitted(c)
      /\ call[c] \in CallRecords
      /\ call[c].outcome = "invoked" <=> c \in executed
      /\ EntriesOf(c) = {}
      /\ stage \in Answers \cup {"server-error"}
      /\ stage \in Stages \cup Answers \cup Errors
  BY OfCall DEF CallInv, Stages, Answers, Errors, ToolInv, AnswersAreLogged, CallRecords
<1> DEFINE n == Len(log) + 1
<1>2. /\ call' \in [Calls -> CallRecords]
      /\ call'[c].member = call[c].member
      /\ call'[c].tool = call[c].tool
      /\ call'[c].roles = call[c].roles
      /\ call'[c].stage = stage
      /\ call'[c].outcome = call[c].outcome
      /\ call'[c].credentials = {}
      /\ \A d \in Calls \ {c} : call'[d] = call[d]
  BY <1>1, <1>1 DEF Moves, ToolInv, TypeOK, CallRecords
<1>3. call[c].outcome \in Answers /\ Entry(c) \in
        [call: Calls, by: Members, tool: Tools, outcome: Answers]
  BY <1>1 DEF Entry, CallRecords
<1>4. /\ log' \in Seq([call: Calls, by: Members, tool: Tools, outcome: Answers])
      /\ DOMAIN log' = DOMAIN log \cup {n}
      /\ n \notin DOMAIN log
      /\ \A k \in DOMAIN log : log'[k] = log[k]
      /\ log'[n] = Entry(c)
  BY <1>3, AppendProperties DEF ToolInv, TypeOK
<1>5. /\ log'[n].call = c
      /\ log'[n].by = call[c].member
      /\ log'[n].outcome = call[c].outcome
  BY <1>4 DEF Entry
<1> HIDE DEF n
<1>6. TypeOK'
  BY <1>1, <1>2, <1>4 DEF ToolInv, TypeOK
<1>7. \A d \in Calls : Permitted(d)' <=> Permitted(d)
  BY <1>1, <1>2 DEF Permitted
<1>8. \A d \in Calls : CallInv(d)'
  <2> SUFFICES ASSUME NEW d \in Calls PROVE CallInv(d)'
    OBVIOUS
  <2>1. CASE d = c
    BY <1>1, <1>2, <1>3, <2>1 DEF CallInv, Answers
  <2>2. CASE d # c
    <3>1. call'[d] = call[d] /\ CallInv(d)
      BY <1>2, <2>2 DEF ToolInv
    <3> QED
      BY <1>1, <1>7, <3>1 DEF CallInv
  <2> QED
    BY <2>1, <2>2
<1>9. OnlyPermittedExecutes'
  BY <1>1, <1>7 DEF ToolInv, OnlyPermittedExecutes, TypeOK
<1>10. CredentialsConfined'
  <2> SUFFICES ASSUME NEW d \in Calls
               PROVE  /\ call'[d].credentials # {} =>
                           /\ Permitted(d)'
                           /\ call'[d].stage \in {"broker", "running"}
                      /\ call'[d].credentials
                           \subseteq setup.needs[call'[d].tool] \cap setup.env
                      /\ call'[d].stage = "running" =>
                           call'[d].credentials = setup.needs[call'[d].tool]
    BY <1>1 DEF CredentialsConfined
  <2>1. CASE d = c
    BY <1>2, <1>3, <2>1 DEF Answers
  <2>2. CASE d # c
    BY <1>2, <1>7, <2>2 DEF ToolInv, CredentialsConfined
  <2> QED
    BY <2>1, <2>2
<1>11. LogTruthful'
  <2> SUFFICES ASSUME NEW k \in DOMAIN log'
               PROVE  /\ log'[k].outcome = "invoked" <=> log'[k].call \in executed
                      /\ log'[k].by = call'[log'[k].call].member
    BY <1>1 DEF LogTruthful
  <2>1. CASE k = n
    BY <1>1, <1>2, <1>5, <2>1
  <2>2. CASE k # n
    <3>1. k \in DOMAIN log /\ log'[k] = log[k]
      BY <1>4, <2>2
    <3>2. log[k].call \in Calls
      BY <3>1, LoggedCall DEF ToolInv
    <3>3. call'[log[k].call].member = call[log[k].call].member
      BY <1>2, <3>2
    <3> QED
      BY <3>1, <3>3 DEF ToolInv, LogTruthful
  <2> QED
    BY <2>1, <2>2
<1>12. AnswersAreLogged'
  <2>1. EntriesOf(c)' = {n}
    BY <1>1, <1>4, <1>5 DEF EntriesOf
  <2>2. \A d \in Calls \ {c} : EntriesOf(d)' = EntriesOf(d)
    BY <1>4, <1>5 DEF EntriesOf
  <2>3. \A d \in Calls : \A k \in EntriesOf(d) : log'[k] = log[k]
    BY <1>4 DEF EntriesOf
  <2> SUFFICES ASSUME NEW d \in Calls
               PROVE  /\ call'[d].stage \in Answers => OneEntry(d, call[d].stage)'
                      /\ call'[d].stage \notin Answers =>
                           \/ EntriesOf(d)' = {}
                           \/ /\ call'[d].stage = "server-error"
                              /\ OneEntry(d, call[d].outcome)'
    BY DEF AnswersAreLogged
  <2>4. CASE d = c
    <3>1. n \in EntriesOf(c)' /\ log'[n].outcome = call'[c].outcome
      BY <1>2, <1>5, <2>1
    <3>2. call'[c].stage = call'[c].outcome \/ call'[c].stage = "server-error"
      BY <1>2
    <3>3. OneEntry(c, call[c].outcome)'
      BY <2>1, <3>1 DEF OneEntry
    <3>4. call'[c].stage = call'[c].outcome => OneEntry(c, call[c].stage)'
      BY <2>1, <3>1 DEF OneEntry
    <3>5. call'[c].stage = "server-error" => call'[c].stage \notin Answers
      BY DEF Answers
    <3> QED
      BY <1>2, <1>3, <2>4, <3>2, <3>3, <3>4, <3>5
  <2>5. CASE d # c
    <3>1. call'[d] = call[d] /\ EntriesOf(d)' = EntriesOf(d)
      BY <1>2, <2>2, <2>5
    <3>2. ASSUME NEW outcome, OneEntry(d, outcome)
          PROVE  \E k \in EntriesOf(d)' :
                     EntriesOf(d)' = {k} /\ log'[k].outcome = outcome
      BY <2>3, <3>1, <3>2 DEF OneEntry
    <3>3. OneEntry(d, call[d].stage) => OneEntry(d, call[d].stage)'
      <4>1. OneEntry(d, call[d].stage) =>
              \E k \in EntriesOf(d)' : EntriesOf(d)' = {k} /\ log'[k].outcome = call'[d].stage
        BY <3>1, <3>2
      <4> QED
        BY <4>1 DEF OneEntry
    <3>4. OneEntry(d, call[d].outcome) => OneEntry(d, call[d].outcome)'
      <4>1. OneEntry(d, call[d].outcome) =>
              \E k \in EntriesOf(d)' : EntriesOf(d)' = {k} /\ log'[k].outcome = call'[d].outcome
        BY <3>1, <3>2
      <4> QED
        BY <4>1 DEF OneEntry
    <3> QED
      BY <3>1, <3>3, <3>4 DEF ToolInv, AnswersAreLogged
  <2> QED
    BY <2>4, <2>5
<1> QED
  BY <1>6, <1>8, <1>9, <1>10, <1>11, <1>12 DEF ToolInv

LEMMA StepNew ==
    ASSUME ToolInv, NEW c \in Calls, Deny(c) \/ Propose(c) \/ Allow(c)
    PROVE  ToolInv'
<1>1. /\ call[c].stage = "new" /\ "new" \in Stages
      /\ UNCHANGED <<setup, members, executed, log>>
      /\ c \notin executed
  BY OfCall DEF Deny, Propose, Allow, CallInv, Stages
<1>2. CASE Allow(c)
  <2>1. Moves(c, "broker", call[c].outcome, {})
    BY <1>2 DEF Allow
  <2>2. Permitted(c)
    BY <1>2, OfCall, AllowedIsPermitted DEF Allow
  <2>3. CallInv(c)'
    BY <1>1, <2>1, <2>2, Moved DEF CallInv, Permitted, Answers
  <2>4. "broker" \in Stages /\ call[c].outcome \in Answers
    BY <2>1, Moved DEF Stages
  <2> QED
    BY <1>1, <2>1, <2>3, <2>4, QuietStep
<1>3. CASE Deny(c) \/ Propose(c)
  <2>1. PICK outcome \in {"denied", "requires_approval"} :
          Moves(c, "audit", outcome, {})
    BY <1>3 DEF Deny, Propose, Settle
  <2>2. CallInv(c)'
    BY <1>1, <2>1, Moved DEF CallInv
  <2>3. outcome \in Answers /\ "audit" \in Stages
    BY DEF Answers, Stages
  <2> QED
    BY <1>1, <2>1, <2>2, <2>3, QuietStep
<1> QED
  BY <1>2, <1>3

LEMMA StepBroker ==
    ASSUME ToolInv, NEW c \in Calls, NEW s \in Secrets, Broker(c, s)
    PROVE  ToolInv'
<1>1. /\ call[c].stage = "broker" /\ "broker" \in Stages
      /\ s \in setup.needs[call[c].tool]
      /\ UNCHANGED <<setup, members, executed, log>>
      /\ c \notin executed
      /\ Permitted(c)
      /\ call[c] \in CallRecords
  BY OfCall DEF Broker, Missing, CallInv, Stages
<1>2. CASE s \in setup.env
  <2> DEFINE credentials == call[c].credentials \cup {s}
  <2>1. Moves(c, "broker", call[c].outcome, credentials)
    BY <1>2 DEF Broker
  <2>2. credentials \in SUBSET Secrets
    BY <1>1 DEF CallRecords
  <2>3. credentials \subseteq setup.needs[call[c].tool] \cap setup.env
    BY <1>1, <1>2, OfCall
  <2> HIDE DEF credentials
  <2>4. CallInv(c)'
    BY <1>1, <2>1, Moved DEF CallInv, Permitted, Answers
  <2>5. call[c].outcome \in Answers
    BY <2>1, Moved
  <2> QED
    BY <1>1, <2>1, <2>2, <2>3, <2>4, <2>5, QuietStep
<1>3. CASE s \notin setup.env
  <2>1. Moves(c, "credential-error", call[c].outcome, {})
    BY <1>3 DEF Broker, Throw
  <2>2. CallInv(c)'
    BY <2>1, Moved DEF CallInv, Answers
  <2>3. "credential-error" \in Errors /\ call[c].outcome \in Answers
    BY <2>1, Moved DEF Errors
  <2> QED
    BY <1>1, <2>1, <2>2, <2>3, QuietStep
<1> QED
  BY <1>2, <1>3

LEMMA StepExecute ==
    ASSUME ToolInv, NEW c \in Calls, Execute(c)
    PROVE  ToolInv'
<1>1. /\ call[c].stage = "broker" /\ "broker" \in Stages
      /\ UNCHANGED <<setup, members, log>>
      /\ executed' = executed \cup {c}
      /\ setup.needs[call[c].tool] \subseteq call[c].credentials
      /\ Permitted(c)
      /\ Moves(c, "running", call[c].outcome, call[c].credentials)
  BY OfCall DEF Execute, Missing, CallInv, Stages
<1>2. CallInv(c)'
  BY <1>1, Moved DEF CallInv, Answers
<1>3. /\ "running" \in Stages
      /\ call[c].outcome \in Answers
      /\ call[c].credentials \in SUBSET Secrets
  BY <1>1, Moved DEF Stages
<1>4. /\ call[c].credentials \subseteq setup.needs[call[c].tool] \cap setup.env
      /\ call[c].credentials = setup.needs[call[c].tool]
  BY <1>1, OfCall
<1> QED
  BY <1>1, <1>2, <1>3, <1>4, QuietStep

\* The tool returns or throws, or anything fails: the credentials are gone.
LEMMA StepEnd ==
    ASSUME ToolInv, NEW c \in Calls, ToolReturns(c) \/ ToolThrows(c) \/ Fail(c)
    PROVE  ToolInv'
<1>1. /\ call[c].stage \in Stages
      /\ UNCHANGED <<setup, members, executed>>
      /\ c \in executed => Permitted(c)
  BY OfCall DEF ToolReturns, ToolThrows, Fail, Stages
<1>2. CASE ToolReturns(c)
  <2>1. Moves(c, "audit", "invoked", {}) /\ UNCHANGED log
    BY <1>2 DEF ToolReturns, Settle
  <2>2. c \in executed
    BY <1>2, OfCall DEF ToolReturns, CallInv
  <2>3. CallInv(c)'
    BY <1>1, <2>1, <2>2, Moved DEF CallInv
  <2>4. "audit" \in Stages /\ "invoked" \in Answers
    BY DEF Stages, Answers
  <2> QED
    BY <1>1, <2>1, <2>3, <2>4, QuietStep
<1>3. CASE (ToolThrows(c) \/ Fail(c)) /\ UNCHANGED log
  <2>1. PICK error \in Errors : Moves(c, error, call[c].outcome, {})
    BY <1>3 DEF ToolThrows, Fail, Errors, Throw
  <2>2. CallInv(c)'
    BY <2>1, Moved DEF CallInv, Answers, Errors
  <2>3. error # "running" /\ call[c].outcome \in Answers
    BY <2>1, Moved DEF Errors
  <2> QED
    BY <1>1, <1>3, <2>1, <2>2, <2>3, QuietStep
<1>4. CASE Fail(c) /\ call[c].stage = "audit" /\ log' = Append(log, Entry(c))
  <2>1. Moves(c, "server-error", call[c].outcome, {})
    BY <1>4 DEF Fail, Throw
  <2> QED
    BY <1>1, <1>4, <2>1, LoggedStep
<1> QED
  BY <1>2, <1>3, <1>4 DEF ToolThrows, Fail

LEMMA StepAudit ==
    ASSUME ToolInv, NEW c \in Calls, Audit(c)
    PROVE  ToolInv'
<1>1. /\ call[c].stage = "audit" /\ "audit" \in Stages
      /\ UNCHANGED <<setup, members, executed>>
      /\ c \in executed => Permitted(c)
      /\ call[c] \in CallRecords
      /\ call[c].outcome = "invoked" <=> c \in executed
      /\ EntriesOf(c) = {}
  BY OfCall DEF Audit, CallInv, Stages, Answers, ToolInv, AnswersAreLogged
<1>2. CASE call[c].member \notin members
  <2>1. Moves(c, "server-error", call[c].outcome, {}) /\ UNCHANGED log
    BY <1>2 DEF Audit, Throw
  <2>2. CallInv(c)'
    BY <2>1, Moved DEF CallInv, Answers
  <2>3. "server-error" \in Errors /\ call[c].outcome \in Answers
    BY <2>1, Moved DEF Errors
  <2> QED
    BY <1>1, <2>1, <2>2, <2>3, QuietStep
<1>3. CASE call[c].member \in members
  <2>1. /\ log' = Append(log, Entry(c))
        /\ Moves(c, call[c].outcome, call[c].outcome, {})
    BY <1>3 DEF Audit
  <2> QED
    BY <1>1, <2>1, LoggedStep
<1> QED
  BY <1>2, <1>3

LEMMA StepRegister ==
    ASSUME ToolInv, NEW m \in Members, Register(m)
    PROVE  ToolInv'
<1>1. UNCHANGED <<setup, call, executed, log>> /\ TypeOK'
  BY DEF Register, ToolInv, TypeOK
<1>2. \A c \in Calls : /\ Permitted(c)' <=> Permitted(c)
                       /\ EntriesOf(c)' = EntriesOf(c)
                       /\ CallInv(c)' <=> CallInv(c)
  BY <1>1 DEF Permitted, EntriesOf, CallInv
<1>3. OnlyPermittedExecutes' /\ CredentialsConfined'
  BY <1>1, <1>2
     DEF ToolInv, OnlyPermittedExecutes, CredentialsConfined, TypeOK
<1>4. LogTruthful' /\ AnswersAreLogged'
  BY <1>1, <1>2 DEF ToolInv, LogTruthful, AnswersAreLogged, OneEntry
<1> QED
  BY <1>1, <1>2, <1>3, <1>4 DEF ToolInv

LEMMA StepTool == ToolInv /\ [Next]_vars => ToolInv'
<1> SUFFICES ASSUME ToolInv, [Next]_vars PROVE ToolInv'
  OBVIOUS
<1>1. ASSUME NEW c \in Calls, Invoke(c) \/ Fail(c) PROVE ToolInv'
  BY <1>1, StepNew, StepBroker, StepExecute, StepEnd, StepAudit DEF Invoke
<1>2. ASSUME NEW m \in Members, Register(m) PROVE ToolInv'
  BY <1>2, StepRegister
<1>3. CASE UNCHANGED vars
  <2>1. UNCHANGED <<setup, members, call, executed, log>>
    BY <1>3 DEF vars
  <2>2. \A c \in Calls : /\ Permitted(c)' <=> Permitted(c)
                         /\ EntriesOf(c)' = EntriesOf(c)
                         /\ CallInv(c)' <=> CallInv(c)
    BY <2>1 DEF Permitted, EntriesOf, CallInv
  <2>3. OnlyPermittedExecutes' /\ CredentialsConfined' /\ TypeOK'
    BY <2>1, <2>2
       DEF ToolInv, OnlyPermittedExecutes, CredentialsConfined, TypeOK
  <2>4. LogTruthful' /\ AnswersAreLogged'
    BY <2>1, <2>2 DEF ToolInv, LogTruthful, AnswersAreLogged, OneEntry
  <2> QED
    BY <2>2, <2>3, <2>4 DEF ToolInv
<1> QED
  BY <1>1, <1>2, <1>3 DEF Next

\* Calls, executions, credentials and log fit together in every state.
THEOREM ToolInvariant == Spec => []ToolInv
BY InitTool, StepTool, PTL DEF Spec

\* "Agents propose consequential actions; they never execute them"
\* (tool-gateway.ts:101), whatever the persona, the registry and the policy.
THEOREM NothingForbiddenExecutes == Spec => []OnlyPermittedExecutes
<1>1. ToolInv => OnlyPermittedExecutes
  BY DEF ToolInv
<1> QED
  BY <1>1, ToolInvariant, PTL

\* Secrets are brokered per call and for calls that are allowed (:106-114).
THEOREM SecretsStayHome == Spec => []CredentialsConfined
<1>1. ToolInv => CredentialsConfined
  BY DEF ToolInv
<1> QED
  BY <1>1, ToolInvariant, PTL

\* Whatever the log says of a call is what happened (:82-119), failures
\* included.
THEOREM LogIsTruthful == Spec => []LogTruthful
<1>1. ToolInv => LogTruthful
  BY DEF ToolInv
<1> QED
  BY <1>1, ToolInvariant, PTL

\* A call that was answered is on the log exactly once, with its answer: the
\* entry is awaited before the answer (:82-119).  Of the others only one that the
\* server failed may be there, once, its entry inserted and the answer lost.
THEOREM AnswersReachTheLog == Spec => []AnswersAreLogged
<1>1. ToolInv => AnswersAreLogged
  BY DEF ToolInv
<1> QED
  BY <1>1, ToolInvariant, PTL
=============================================================================
