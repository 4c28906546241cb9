----------------------------- MODULE AgentProofs -----------------------------
(***************************************************************************)
(* First, what a quota is worth, for any quota, any number of callers and  *)
(* any cost of a call.  The argument: a call that passes the check finds   *)
(* the member below its quota, and the calls of one member are at most all *)
(* callers; from then on an answer only moves tokens from "may still cost" *)
(* to "metered".                                                           *)
(*                                                                         *)
(* Then the agent loop implements both its partners: every step of it is   *)
(* one of the gateway, or leaves the gateway alone, and one of the board,  *)
(* or leaves the board alone.  GatewayInv therefore carries over, and      *)
(* AgentInv adds that turns never share an item and that each item is paid *)
(* for once.                                                               *)
(***************************************************************************)
EXTENDS AgentSystem, FiniteSetTheorems, TLAPS

-----------------------------------------------------------------------------
(* The model gateway *)

LEMMA CallersCount ==
    /\ Cardinality(Callers) \in Nat
    /\ \A S \in SUBSET Callers : /\ IsFiniteSet(S)
                                 /\ Cardinality(S) \in Nat
                                 /\ Cardinality(S) <= Cardinality(Callers)
BY GatewayAssumption, FS_Subset, FS_CardinalityType

LEMMA WorthType == Worth \in Nat
<1>1. MaxCost * Cardinality(Callers) \in Nat
  BY CallersCount, GatewayAssumption
<1> QED
  BY <1>1, GatewayAssumption DEF Worth

\* Fewer calls cost no more, and one call less costs MaxCost less.
LEMMA CostOfCalls ==
    ASSUME NEW S \in SUBSET Callers
    PROVE  /\ MaxCost * Cardinality(S) \in Nat
           /\ \A T \in SUBSET S :
                MaxCost * Cardinality(T) <= MaxCost * Cardinality(S)
           /\ \A c \in S : MaxCost * Cardinality(S \ {c}) + MaxCost
                              = MaxCost * Cardinality(S)
<1> DEFINE k == Cardinality(S)
<1>1. k \in Nat /\ IsFiniteSet(S)
  BY CallersCount
<1>2. ASSUME NEW T \in SUBSET S
      PROVE  MaxCost * Cardinality(T) <= MaxCost * k
  <2>1. Cardinality(T) \in Nat /\ Cardinality(T) <= k
    BY <1>1, FS_Subset, FS_CardinalityType
  <2> HIDE DEF k
  <2>2. PICK d \in Nat : k = Cardinality(T) + d
    <3>1. k - Cardinality(T) \in Nat /\ k = Cardinality(T) + (k - Cardinality(T))
      BY <1>1, <2>1
    <3> QED
      BY <3>1
  <2>3. MaxCost * k = MaxCost * Cardinality(T) + MaxCost * d
    BY <2>1, <2>2, GatewayAssumption
  <2>4. MaxCost * d \in Nat /\ MaxCost * Cardinality(T) \in Nat
    BY <2>1, <2>2, GatewayAssumption
  <2> QED
    BY <2>3, <2>4
<1>3. ASSUME NEW c \in S
      PROVE  MaxCost * Cardinality(S \ {c}) + MaxCost = MaxCost * k
  <2>1. Cardinality(S \ {c}) = k - 1
    BY <1>1, FS_RemoveElement
  <2> HIDE DEF k
  <2>2. MaxCost * (k - 1) = MaxCost * k - MaxCost
    BY <1>1, GatewayAssumption
  <2>3. MaxCost * k \in Nat
    BY <1>1, GatewayAssumption
  <2> QED
    BY <2>1, <2>2, <2>3, GatewayAssumption
<1>4. MaxCost * k \in Nat
  BY <1>1, GatewayAssumption
<1> QED
  BY <1>2, <1>3, <1>4

LEMMA InitGateway == Init => GatewayInv
<1> SUFFICES ASSUME Init PROVE GatewayInv
  OBVIOUS
<1>1. TypeOK
  BY DEF Init, TypeOK
<1>2. \A c \in Callers : ~Awaits(c)
  BY DEF Init, Awaits
<1>3. OvershootBounded
  <2> SUFFICES ASSUME NEW m \in Members
               PROVE  usage[m] + MaxCost * Cardinality(CallsOf(m)) <= Worth
    BY DEF OvershootBounded
  <2>1. CallsOf(m) = {} /\ usage[m] = 0
    BY <1>2 DEF CallsOf, Init
  <2>2. MaxCost * Cardinality({}) = 0
    BY FS_EmptySet, GatewayAssumption
  <2> QED
    BY <2>1, <2>2, WorthType
<1>4. SpentBefore
  BY WorthType DEF Init, SpentBefore
<1>5. UsageIsSpent /\ RefusalsStand
  BY DEF Init, UsageIsSpent, RefusalsStand
<1> QED
  BY <1>1, <1>2, <1>3, <1>4, <1>5 DEF GatewayInv

\* A refusal, or any call that gets no further than a status other than
\* "awaiting", leaves the calls under way as they are.
LEMMA RefusalKeeps ==
    ASSUME GatewayInv, NEW c \in Callers, NEW m \in Members, NEW t \in Tasks,
           NEW status \in Outcomes,
           status = "quota-exceeded" => OverQuota(m),
           Reaches(c, m, t, status)
    PROVE  GatewayInv'
<1>1. TypeOK'
  BY DEF GatewayInv, TypeOK, Reaches, Calls, Outcomes
<1>2. \A d \in Callers : /\ Awaits(d)' <=> Awaits(d)
                         /\ Awaits(d) => call'[d] = call[d]
  BY GatewayAssumption DEF GatewayInv, TypeOK, Reaches, Awaits, Outcomes, Calls
<1>3. \A n \in Members : CallsOf(n)' = CallsOf(n)
  BY <1>2 DEF CallsOf
<1>4. OvershootBounded'
  BY <1>3, WorthType DEF GatewayInv, OvershootBounded, Reaches, Worth
<1>5. RefusalsStand'
  BY GatewayAssumption
     DEF GatewayInv, TypeOK, RefusalsStand, Reaches, OverQuota, Calls
<1>6. UsageIsSpent' /\ SpentBefore'
  BY DEF GatewayInv, UsageIsSpent, SpentBefore, Reaches, Worth
<1>7. \A d \in Callers : Awaits(d)' => /\ Routed(call[d].task)'
                                       /\ ~Blocked(call[d].task)'
  BY <1>2 DEF GatewayInv, Reaches, Routed, Blocked, Provider
<1> QED
  BY <1>1, <1>4, <1>5, <1>6, <1>7 DEF GatewayInv

LEMMA DispatchKeeps ==
    ASSUME GatewayInv, NEW c \in Callers, NEW m \in Members, NEW t \in Tasks,
           Dispatch(c, m, t)
    PROVE  GatewayInv'
<1> USE DEF Dispatch
<1>1. TypeOK'
  BY DEF GatewayInv, TypeOK, Reaches, Calls
<1>2. \A d \in Callers \ {c} : call'[d] = call[d]
  BY DEF GatewayInv, TypeOK, Reaches
<1>3. call'[c] = [member |-> m, task |-> t, status |-> "awaiting"]
  BY DEF GatewayInv, TypeOK, Reaches
<1>4. \A n \in Members \ {m} : CallsOf(n)' = CallsOf(n)
  BY <1>2, <1>3 DEF CallsOf, Awaits, Reaches
<1>5. OvershootBounded'
  <2> SUFFICES ASSUME config'.limited, NEW n \in Members
               PROVE  usage'[n] + MaxCost * Cardinality(CallsOf(n)') <= Worth
    BY DEF OvershootBounded, Worth
  <2>0. config.limited
    BY DEF Reaches
  <2>1. CASE n # m
    BY <1>4, <2>0, <2>1 DEF GatewayInv, OvershootBounded, Reaches
  <2>2. CASE n = m
    <3>1. usage'[n] = usage[n] /\ usage[n] \in Nat /\ usage[n] < Quota
      BY <2>0, <2>2, GatewayAssumption DEF GatewayInv, TypeOK, Reaches, OverQuota
    <3>2. /\ MaxCost * Cardinality(CallsOf(n)') \in Nat
          /\ MaxCost * Cardinality(CallsOf(n)') <= MaxCost * Cardinality(Callers)
          /\ MaxCost * Cardinality(Callers) \in Nat
      <4>1. CallsOf(n)' \in SUBSET Callers
        BY DEF CallsOf
      <4> HIDE DEF Dispatch
      <4> QED
        BY <4>1, CostOfCalls
    <3>3. Worth = Quota - 1 + MaxCost * Cardinality(Callers)
      BY <3>1, GatewayAssumption DEF Worth
    <3> QED
      BY <3>1, <3>2, <3>3, GatewayAssumption
  <2> QED
    BY <2>1, <2>2
<1>6. RefusalsStand'
  BY <1>2, <1>3 DEF GatewayInv, RefusalsStand, Reaches, OverQuota
<1>7. UsageIsSpent' /\ SpentBefore'
  BY DEF GatewayInv, UsageIsSpent, SpentBefore, Reaches, Worth
<1>8. \A d \in Callers : Awaits(d)' => /\ Routed(call[d].task)'
                                       /\ ~Blocked(call[d].task)'
  BY <1>2, <1>3 DEF GatewayInv, Reaches, Routed, Blocked, Provider, Awaits
<1> QED
  BY <1>1, <1>5, <1>6, <1>7, <1>8 DEF GatewayInv

\* What an answer and a provider's failure have in common: the call of c is
\* over, in no way that a refusal for the quota would be.
LEMMA EndKeeps ==
    ASSUME GatewayInv, NEW c \in Callers, Awaits(c),
           NEW status \in {"answered", "provider-failed"}, Ends(c, status)
    PROVE  /\ call' \in [Callers -> Calls \cup {NoCall}]
           /\ call[c] \in Calls
           /\ c \in CallsOf(call[c].member)
           /\ \A n \in Members :
                CallsOf(n)' = IF n = call[c].member THEN CallsOf(n) \ {c}
                                                    ELSE CallsOf(n)
           /\ \A d \in Callers : Awaits(d)' => Awaits(d) /\ call'[d] = call[d]
           /\ \A d \in Callers :
                /\ call'[d] # NoCall
                /\ call'[d].status = "quota-exceeded"
                => call'[d] = call[d]
<1>1. call[c] \in Calls
  BY DEF GatewayInv, TypeOK, Awaits
<1>2. /\ call' \in [Callers -> Calls \cup {NoCall}]
      /\ call'[c].status = status
      /\ \A d \in Callers \ {c} : call'[d] = call[d]
  BY <1>1 DEF GatewayInv, TypeOK, Ends, Calls, Outcomes
<1>3. ~Awaits(c)'
  BY <1>2 DEF Awaits
<1>4. \A d \in Callers : Awaits(d)' => Awaits(d) /\ call'[d] = call[d]
  BY <1>2, <1>3 DEF Awaits
<1>5. \A d \in Callers \ {c} : Awaits(d)' <=> Awaits(d)
  BY <1>2 DEF Awaits
<1>6. \A n \in Members :
         CallsOf(n)' = IF n = call[c].member THEN CallsOf(n) \ {c}
                                             ELSE CallsOf(n)
  BY <1>2, <1>3, <1>5 DEF CallsOf
<1>7. c \in CallsOf(call[c].member)
  BY DEF CallsOf
<1> QED
  BY <1>1, <1>2, <1>4, <1>6, <1>7

LEMMA AnswerKeeps ==
    ASSUME GatewayInv, NEW c \in Callers, NEW cost \in 0..MaxCost,
           Answer(c, cost)
    PROVE  GatewayInv'
<1> DEFINE n == call[c].member
<1>1. Awaits(c) /\ Ends(c, "answered")
  BY DEF Answer
<1>2. /\ call' \in [Callers -> Calls \cup {NoCall}]
      /\ call[c] \in Calls
      /\ c \in CallsOf(n)
      /\ \A k \in Members :
           CallsOf(k)' = IF k = n THEN CallsOf(k) \ {c} ELSE CallsOf(k)
      /\ \A d \in Callers : Awaits(d)' => Awaits(d) /\ call'[d] = call[d]
      /\ \A d \in Callers :
           call'[d] # NoCall /\ call'[d].status = "quota-exceeded"
           => call'[d] = call[d]
  BY <1>1, EndKeeps
<1>3. n \in Members /\ cost \in Nat /\ cost <= MaxCost
  BY <1>2, GatewayAssumption DEF Calls
<1> HIDE DEF n
<1>4. /\ usage' = [usage EXCEPT ![n] = @ + cost]
      /\ spent' = [spent EXCEPT ![n] = @ + cost]
      /\ UNCHANGED <<config, restarts>>
  BY DEF Answer, n
<1>5. usage \in [Members -> Nat] /\ spent \in [Members -> Nat] /\ restarts \in Nat
  BY DEF GatewayInv, TypeOK
<1>6. TypeOK'
  BY <1>2, <1>3, <1>4, <1>5 DEF GatewayInv, TypeOK
<1>7. OvershootBounded'
  <2> SUFFICES ASSUME config.limited, NEW k \in Members
               PROVE  usage'[k] + MaxCost * Cardinality(CallsOf(k)') <= Worth
    BY <1>4 DEF OvershootBounded, Worth
  <2>1. usage[k] + MaxCost * Cardinality(CallsOf(k)) <= Worth
    BY DEF GatewayInv, OvershootBounded
  <2>2. CASE k # n
    BY <1>2, <1>4, <1>5, <2>1, <2>2
  <2>3. CASE k = n
    <3>1. MaxCost * Cardinality(CallsOf(k) \ {c}) + MaxCost
            = MaxCost * Cardinality(CallsOf(k))
      <4>1. CallsOf(k) \in SUBSET Callers /\ c \in CallsOf(k)
        BY <1>2, <2>3 DEF CallsOf
      <4> QED
        BY <4>1, CostOfCalls
    <3>2. MaxCost * Cardinality(CallsOf(k) \ {c}) \in Nat
      <4>1. CallsOf(k) \ {c} \in SUBSET Callers
        BY DEF CallsOf
      <4> QED
        BY <4>1, CostOfCalls
    <3>3. CallsOf(k)' = CallsOf(k) \ {c}
      BY <1>2, <2>3
    <3>4. usage'[k] = usage[k] + cost /\ usage[k] \in Nat
      BY <1>3, <1>4, <1>5, <2>3
    <3> QED
      BY <1>3, <2>1, <3>1, <3>2, <3>3, <3>4, WorthType, GatewayAssumption
  <2> QED
    BY <2>2, <2>3
<1>8. SpentBefore'
  <2>1. restarts * Worth \in Nat
    BY <1>5, WorthType
  <2>2. config.limited =>
          \A k \in Members : spent[k] <= restarts * Worth + usage[k]
    BY DEF GatewayInv, SpentBefore
  <2>3. ASSUME config.limited, NEW k \in Members
        PROVE  spent'[k] <= restarts * Worth + usage'[k]
    <3> DEFINE w == restarts * Worth
    <3>1. w \in Nat /\ spent[k] <= w + usage[k]
      BY <2>1, <2>2, <2>3
    <3> HIDE DEF w
    <3>2. spent'[k] <= w + usage'[k]
      BY <1>3, <1>4, <1>5, <3>1
    <3> QED
      BY <3>2 DEF w
  <2> QED
    BY <1>4, <2>3 DEF SpentBefore, Worth
<1>9. UsageIsSpent'
  <2>1. UsageIsSpent
    BY DEF GatewayInv
  <2>2. ASSUME NEW k \in Members PROVE usage'[k] <= spent'[k]
    <3>1. usage[k] <= spent[k] /\ usage[k] \in Nat /\ spent[k] \in Nat
      BY <1>5, <2>1 DEF UsageIsSpent
    <3> QED
      BY <1>3, <1>4, <1>5, <3>1
  <2>3. ASSUME restarts = 0 PROVE usage' = spent'
    BY <1>4, <2>1, <2>3 DEF UsageIsSpent
  <2> QED
    BY <1>4, <2>2, <2>3 DEF UsageIsSpent
<1>10. RefusalsStand'
  <2> SUFFICES ASSUME NEW d \in Callers,
                      call'[d] # NoCall, call'[d].status = "quota-exceeded"
               PROVE  config.limited /\ usage'[call'[d].member] >= Quota
    BY <1>4 DEF RefusalsStand, OverQuota
  <2>1. call'[d] = call[d] /\ call[d] \in Calls
    BY <1>2 DEF GatewayInv, TypeOK
  <2>2. /\ config.limited /\ usage[call[d].member] >= Quota
        /\ call[d].member \in Members
    BY <2>1 DEF GatewayInv, RefusalsStand, OverQuota, Calls
  <2> QED
    BY <1>3, <1>4, <1>5, <2>1, <2>2, GatewayAssumption
<1>11. \A d \in Callers : Awaits(d)' => /\ Routed(call[d].task)'
                                        /\ ~Blocked(call[d].task)'
  BY <1>2, <1>4 DEF GatewayInv, Routed, Blocked, Provider
<1> QED
  BY <1>6, <1>7, <1>8, <1>9, <1>10, <1>11 DEF GatewayInv

LEMMA FailureKeeps ==
    ASSUME GatewayInv, NEW c \in Callers, ProviderFails(c)
    PROVE  GatewayInv'
<1>1. /\ Awaits(c) /\ Ends(c, "provider-failed")
      /\ UNCHANGED <<config, usage, spent, restarts>>
  BY DEF ProviderFails
<1>2. /\ call' \in [Callers -> Calls \cup {NoCall}]
      /\ \A k \in Members : CallsOf(k)' \in SUBSET CallsOf(k)
      /\ \A d \in Callers : Awaits(d)' => Awaits(d) /\ call'[d] = call[d]
      /\ \A d \in Callers :
           call'[d] # NoCall /\ call'[d].status = "quota-exceeded"
           => call'[d] = call[d]
  BY <1>1, EndKeeps
<1>3. OvershootBounded'
  <2> SUFFICES ASSUME config.limited, NEW k \in Members
               PROVE  usage[k] + MaxCost * Cardinality(CallsOf(k)') <= Worth
    BY <1>1 DEF OvershootBounded, Worth
  <2>1. usage[k] + MaxCost * Cardinality(CallsOf(k)) <= Worth /\ usage[k] \in Nat
    BY DEF GatewayInv, OvershootBounded, TypeOK
  <2>2. CallsOf(k) \in SUBSET Callers /\ CallsOf(k)' \in SUBSET Callers
    BY DEF CallsOf
  <2>3. /\ MaxCost * Cardinality(CallsOf(k)) \in Nat
        /\ MaxCost * Cardinality(CallsOf(k)') \in Nat
        /\ MaxCost * Cardinality(CallsOf(k)') <= MaxCost * Cardinality(CallsOf(k))
    BY <1>2, <2>2, CostOfCalls
  <2> QED
    BY <2>1, <2>3, WorthType
<1>4. TypeOK'
  BY <1>1, <1>2 DEF GatewayInv, TypeOK
<1>5. UsageIsSpent' /\ SpentBefore'
  BY <1>1 DEF GatewayInv, UsageIsSpent, SpentBefore, Worth
<1>6. RefusalsStand'
  BY <1>1, <1>2 DEF GatewayInv, RefusalsStand, OverQuota
<1>7. \A d \in Callers : Awaits(d)' => /\ Routed(call[d].task)'
                                       /\ ~Blocked(call[d].task)'
  BY <1>1, <1>2 DEF GatewayInv, Routed, Blocked, Provider
<1> QED
  BY <1>3, <1>4, <1>5, <1>6, <1>7 DEF GatewayInv

\* What a process has metered is within Worth, so it may be forgotten for one
\* more restart.
LEMMA WithinWorth ==
    ASSUME GatewayInv, config.limited, NEW m \in Members
    PROVE  usage[m] <= Worth /\ spent[m] <= (restarts + 1) * Worth
<1>1. /\ usage[m] \in Nat /\ spent[m] \in Nat /\ restarts \in Nat
      /\ usage[m] + MaxCost * Cardinality(CallsOf(m)) <= Worth
      /\ spent[m] <= restarts * Worth + usage[m]
  BY DEF GatewayInv, TypeOK, OvershootBounded, SpentBefore
<1>2. MaxCost * Cardinality(CallsOf(m)) \in Nat
  <2>1. CallsOf(m) \in SUBSET Callers
    BY DEF CallsOf
  <2> QED
    BY <2>1, CostOfCalls
<1>3. usage[m] <= Worth
  BY <1>1, <1>2, WorthType
<1> DEFINE w == Worth
<1>4. w \in Nat
  BY WorthType
<1> HIDE DEF w
<1>5. (restarts + 1) * w = restarts * w + w /\ restarts * w \in Nat
  BY <1>1, <1>4
<1>6. spent[m] <= (restarts + 1) * w
  <2>1. usage[m] <= w /\ spent[m] <= restarts * w + usage[m]
    BY <1>1, <1>3 DEF w
  <2> QED
    BY <1>1, <1>4, <1>5, <2>1
<1> QED
  BY <1>3, <1>6 DEF w

LEMMA RestartKeeps ==
    ASSUME GatewayInv, Restart
    PROVE  GatewayInv'
<1>1. \A c \in Callers : call'[c] = NoCall /\ ~Awaits(c)'
  BY DEF Restart, Awaits
<1>2. TypeOK'
  BY DEF GatewayInv, TypeOK, Restart
<1>3. OvershootBounded'
  <2> SUFFICES ASSUME NEW m \in Members
               PROVE  usage'[m] + MaxCost * Cardinality(CallsOf(m)') <= Worth
    BY DEF OvershootBounded, Worth
  <2>1. CallsOf(m)' = {} /\ usage'[m] = 0
    BY <1>1 DEF CallsOf, Restart
  <2>2. MaxCost * Cardinality({}) = 0
    BY FS_EmptySet, GatewayAssumption
  <2> QED
    BY <2>1, <2>2, WorthType
<1>4. SpentBefore'
  <2> SUFFICES ASSUME config.limited, NEW m \in Members
               PROVE  spent[m] <= (restarts + 1) * Worth + 0
    BY DEF Restart, SpentBefore, Worth
  <2> DEFINE b == (restarts + 1) * Worth
  <2>1. b \in Nat /\ spent[m] <= b
    BY WithinWorth, WorthType DEF GatewayInv, TypeOK
  <2> HIDE DEF b
  <2>2. spent[m] <= b + 0
    BY <2>1
  <2> QED
    BY <2>2 DEF b
<1>5. UsageIsSpent'
  BY DEF GatewayInv, TypeOK, UsageIsSpent, Restart
<1>6. RefusalsStand'
  BY <1>1 DEF RefusalsStand
<1> QED
  BY <1>1, <1>2, <1>3, <1>4, <1>5, <1>6 DEF GatewayInv

LEMMA StepGateway == GatewayInv /\ [Next]_vars => GatewayInv'
<1> SUFFICES ASSUME GatewayInv, [Next]_vars PROVE GatewayInv'
  OBVIOUS
<1>1. ASSUME NEW c \in Callers, NEW m \in Members, NEW t \in Tasks,
             Complete(c, m, t)
      PROVE  GatewayInv'
  <2>1. CASE Dispatch(c, m, t)
    BY <2>1, DispatchKeeps
  <2>2. CASE UnknownTask(c, m, t)
    BY <2>2, RefusalKeeps DEF UnknownTask, Outcomes
  <2>3. CASE UnknownProvider(c, m, t)
    BY <2>3, RefusalKeeps DEF UnknownProvider, Outcomes
  <2>4. CASE NoEgressViolation(c, m, t)
    BY <2>4, RefusalKeeps DEF NoEgressViolation, Outcomes
  <2>5. CASE QuotaExceeded(c, m, t)
    BY <2>5, RefusalKeeps DEF QuotaExceeded, Outcomes
  <2> QED
    BY <1>1, <2>1, <2>2, <2>3, <2>4, <2>5 DEF Complete
<1>2. ASSUME NEW c \in Callers, NEW cost \in 0..MaxCost, Answer(c, cost)
      PROVE  GatewayInv'
  BY <1>2, AnswerKeeps
<1>3. ASSUME NEW c \in Callers, ProviderFails(c) PROVE GatewayInv'
  BY <1>3, FailureKeeps
<1>4. CASE Restart
  BY <1>4, RestartKeeps
<1>5. CASE UNCHANGED vars
  <2>1. TypeOK' /\ UsageIsSpent' /\ RefusalsStand' /\ SpentBefore'
    BY <1>5 DEF vars, GatewayInv, TypeOK, UsageIsSpent, RefusalsStand,
                SpentBefore, OverQuota, Worth
  <2>2. OvershootBounded'
    BY <1>5 DEF vars, GatewayInv, OvershootBounded, CallsOf, Awaits, Worth
  <2>3. \A c \in Callers : Awaits(c)' => /\ Routed(call[c].task)'
                                         /\ ~Blocked(call[c].task)'
    BY <1>5 DEF vars, GatewayInv, Awaits, Routed, Blocked, Provider
  <2> QED
    BY <2>1, <2>2, <2>3 DEF GatewayInv
<1> QED
  BY <1>1, <1>2, <1>3, <1>4, <1>5 DEF Next

\* The meter, the answers given and the calls under way fit together.
THEOREM GatewayInvariant == Spec => []GatewayInv
BY InitGateway, StepGateway, PTL DEF Spec

\* model-gateway.ts:83-88 checks before the await and :97 meters after it; the
\* cap is overshot by no more than the calls that pass the check together.
THEOREM QuotaOvershoot == Spec => []OvershootBounded
<1>1. GatewayInv => OvershootBounded
  BY DEF GatewayInv
<1> QED
  BY <1>1, GatewayInvariant, PTL

\* The meter is a Map of the process (:67): each restart is worth one more
\* quota, and nothing else is.
THEOREM SpendingOverRestarts == Spec => []SpendBounded
<1>1. GatewayInv => SpendBounded
  BY WithinWorth DEF SpendBounded
<1> QED
  BY <1>1, GatewayInvariant, PTL

\* Who is over the cap stays there: meter only adds (model-gateway.ts:106-114),
\* so a refusal is never overtaken by a late answer.
THEOREM RefusalIsFinal == Spec => []RefusalsStand
<1>1. GatewayInv => RefusalsStand
  BY DEF GatewayInv
<1> QED
  BY <1>1, GatewayInvariant, PTL

\* No-egress mode (:80-82) holds for every call under way, whatever the
\* process was configured with before.
THEOREM NoEgressHolds == Spec => []EgressConfined
<1>1. GatewayInv => EgressConfined
  <2> SUFFICES ASSUME GatewayInv, config.noEgress, NEW c \in Callers, Awaits(c)
               PROVE  config.kind[Provider(call[c].task)] = "local"
    BY DEF EgressConfined
  <2> DEFINE p == Provider(call[c].task)
  <2>1. /\ p # NoRoute
        /\ config.kind[p] # "unregistered"
        /\ config.kind[p] # "external"
    BY DEF GatewayInv, Routed, Blocked
  <2>2. call[c].task \in Tasks
    BY DEF GatewayInv, TypeOK, Awaits, Calls
  <2>3. p \in ProviderNames
    BY <2>1, <2>2 DEF GatewayInv, TypeOK, Configs, Provider
  <2> QED
    BY <2>1, <2>3 DEF GatewayInv, TypeOK, Configs
<1> QED
  BY <1>1, GatewayInvariant, PTL

-----------------------------------------------------------------------------
(* Agent turns *)

LEMMA AgentStep == AgentTypeOK /\ [AgentNext]_agentVars => [Next]_vars
<1> SUFFICES ASSUME AgentTypeOK, [AgentNext]_agentVars PROVE [Next]_vars
  OBVIOUS
<1>1. ASSUME NEW r \in Runners, RunOnce(r) PROVE [Next]_vars
  <2>1. r \in Callers /\ Agent(r) \in Members /\ deps[r].task \in Tasks
    BY AgentAssumption DEF Runners, AgentTypeOK, Agent
  <2>2. CASE ReportClaim(r) \/ Save(r) \/ ReportDone(r)
    BY <2>2 DEF ReportClaim, Save, ReportDone
  <2>3. CASE Reason(r) \/ Refused(r)
    BY <2>1, <2>3 DEF Reason, Refused, Next, Complete
  <2>4. CASE Rejected(r) \/ \E cost \in 0..MaxCost : Answered(r, cost)
    BY <2>1, <2>4 DEF Rejected, Answered, Next
  <2> QED
    BY <1>1, <2>2, <2>3, <2>4 DEF RunOnce
<1>2. CASE RestartProcess
  BY <1>2 DEF RestartProcess, Next
<1>3. CASE UNCHANGED agentVars
  BY <1>3 DEF agentVars
<1> QED
  BY <1>1, <1>2, <1>3
     DEF AgentNext, PublishItem, ClaimElsewhere, ClaimNext, TurnFails

\* Everything of AgentInv but the gateway's part.
LoopInv ==
    /\ \A r \in Runners : TurnInv(r)
    /\ \A i \in Items : owner[i] \notin Members =>
           i \notin done /\ \A m \in Members : <<i, m>> \notin credited
    /\ \A q, r \in Runners :
           q # r /\ turn[q].item # NoItem => turn[q].item # turn[r].item

LEMMA SettledCounts ==
    ASSUME NEW m
    PROVE  /\ Settled(m) \in SUBSET Items
           /\ IsFiniteSet(Settled(m))
           /\ Cardinality(Settled(m)) \in Nat
BY AgentAssumption, FS_Subset, FS_CardinalityType DEF Settled

LEMMA InitAgents == AgentInit => AgentInv
<1> SUFFICES ASSUME AgentInit PROVE AgentInv
  OBVIOUS
<1>1. GatewayInv
  BY InitGateway DEF AgentInit
<1>2. AgentTypeOK
  BY DEF AgentInit, AgentTypeOK, Board!Init, Turns, NoTurn
<1>3. \A r \in Runners : TurnInv(r)
  BY DEF AgentInit, Init, TurnInv, NoTurn, Awaits, Runners
<1>4. \A m \in Members : spent[m] <= MaxCost * Cardinality(Settled(m))
  <2> SUFFICES ASSUME NEW m \in Members
               PROVE  0 <= MaxCost * Cardinality(Settled(m))
    BY DEF AgentInit, Init
  <2> QED
    BY SettledCounts, GatewayAssumption
<1> QED
  BY <1>1, <1>2, <1>3, <1>4 DEF AgentInv, AgentInit, Board!Init, NoTurn

\* Publishing and claiming elsewhere.
LEMMA OthersKeep ==
    ASSUME AgentInv, NEW i \in Items,
           PublishItem(i) \/ \E m \in Members \ Agents : ClaimElsewhere(i, m)
    PROVE  AgentTypeOK' /\ LoopInv' /\ (\A m \in Members : Settled(m) \subseteq Settled(m)')
<1> USE AgentAssumption DEF AgentInv, AgentTypeOK
<1>1. /\ UNCHANGED <<vars, deps, turn, done, failures, credited>>
      /\ owner[i] \in {NoMember, Unpublished}
      /\ \E x \in Members \cup {NoMember} : owner' = [owner EXCEPT ![i] = x]
  BY DEF PublishItem, ClaimElsewhere, Board!Publish, Board!Claim
<1>2. AgentTypeOK'
  BY <1>1
<1>3. ASSUME NEW r \in Runners PROVE TurnInv(r)'
  BY <1>1 DEF TurnInv, Agent, Awaits, vars, Turns
<1>4. ASSUME NEW m \in Members PROVE Settled(m) \subseteq Settled(m)'
  BY <1>1 DEF Settled
<1> QED
  BY <1>1, <1>2, <1>3, <1>4 DEF LoopInv

LEMMA ClaimKeeps ==
    ASSUME AgentInv, NEW r \in Runners, ClaimNext(r)
    PROVE  AgentTypeOK' /\ LoopInv' /\ (\A m \in Members : Settled(m) \subseteq Settled(m)')
<1> USE AgentAssumption DEF AgentInv, AgentTypeOK
<1>1. PICK i \in Items :
        /\ turn[r].pc = "idle"
        /\ turn' = [turn EXCEPT ![r] = [pc |-> "report", item |-> i]]
        /\ owner[i] = NoMember
        /\ owner' = [owner EXCEPT ![i] = Agent(r)]
        /\ UNCHANGED <<vars, credited, deps, done, failures>>
  BY DEF ClaimNext, Board!Claim
<1>2. Agent(r) \in Members /\ Agent(r)' = Agent(r)
  BY <1>1 DEF Agent
<1>3. AgentTypeOK'
  BY <1>1, <1>2 DEF Turns
<1>4. /\ i \notin done
      /\ \A m \in Members : <<i, m>> \notin credited
      /\ \A q \in Runners : turn[q].item # i
  BY <1>1 DEF TurnInv, Agent
<1>5. ASSUME NEW q \in Runners PROVE TurnInv(q)'
  <2>1. CASE q = r
    BY <2>1, <1>1, <1>2, <1>4 DEF TurnInv, Agent, Awaits, vars
  <2>2. CASE q # r
    BY <2>2, <1>1, <1>4 DEF TurnInv, Agent, Awaits, vars, Turns
  <2> QED
    BY <2>1, <2>2
<1>6. \A q, p \in Runners :
         q # p /\ turn'[q].item # NoItem => turn'[q].item # turn'[p].item
  BY <1>1, <1>4
<1>7. ASSUME NEW m \in Members PROVE Settled(m) \subseteq Settled(m)'
  BY <1>1, <1>4 DEF Settled
<1>8. \A j \in Items : owner'[j] \notin Members =>
         j \notin done' /\ \A m \in Members : <<j, m>> \notin credited'
  BY <1>1, <1>2
<1> QED
  BY <1>3, <1>5, <1>6, <1>7, <1>8 DEF LoopInv

\* The steps of a turn up to its end, other than the answer.
LEMMA TurnKeeps ==
    ASSUME AgentInv, NEW r \in Runners,
           \/ ReportClaim(r)
           \/ Reason(r)
           \/ Refused(r)
           \/ Rejected(r)
           \/ Save(r)
           \/ ReportDone(r)
           \/ TurnFails(r)
    PROVE  AgentTypeOK' /\ LoopInv' /\ (\A m \in Members : Settled(m) \subseteq Settled(m)')
<1> USE AgentAssumption DEF AgentInv, AgentTypeOK
<1>1. /\ UNCHANGED <<owner, deps, failures>>
      /\ turn[r].pc # "idle"
      /\ turn[r].item \in Items /\ owner[turn[r].item] = Agent(r)
      /\ Agent(r) \in Members
      /\ \A q \in Runners : q # r => turn[q].item # turn[r].item
  <2>1. UNCHANGED <<owner, deps, failures>> /\ turn[r].pc # "idle"
    BY DEF ReportClaim, Reason, Refused, Rejected, Save, ReportDone, TurnFails,
           Goes, Board!Credit, board
  <2>2. turn[r] \in Turns /\ TurnInv(r)
    OBVIOUS
  <2> QED
    BY <2>1, <2>2 DEF TurnInv, Turns, Agent
<1>2. \A q \in Runners : q # r => turn'[q] = turn[q] /\ (Awaits(q)' <=> Awaits(q))
                                  /\ (Awaits(q) => call'[q] = call[q])
  BY GatewayAssumption
     DEF ReportClaim, Reason, Refused, Rejected, Save, ReportDone, TurnFails,
         Goes, TurnEnds, Dispatch, UnknownTask, UnknownProvider, NoEgressViolation,
         QuotaExceeded, Reaches, ProviderFails, Ends, Awaits, vars, GatewayInv,
         TypeOK, Runners
<1>3. credited \subseteq credited' /\ credited' \subseteq credited \cup {<<turn[r].item, Agent(r)>>}
  BY <1>1 DEF ReportClaim, Reason, Refused, Rejected, Save, ReportDone, TurnFails,
         Board!Credit, board
<1>4. done \subseteq done' /\ done' \subseteq done \cup {turn[r].item}
  BY DEF ReportClaim, Reason, Refused, Rejected, Save, ReportDone, TurnFails
<1>5. turn' \in [Runners -> Turns]
  BY DEF ReportClaim, Reason, Refused, Rejected, Save, ReportDone, TurnFails,
         Goes, TurnEnds, Turns, NoTurn
<1>6. AgentTypeOK'
  BY <1>1, <1>3, <1>4, <1>5
<1>7. /\ turn'[r] = NoTurn \/ turn'[r].item = turn[r].item
      /\ \/ turn'[r].pc \notin {"report", "reason", "await"}
         \/ turn[r].pc \in {"report", "reason", "await"}
  BY DEF ReportClaim, Reason, Refused, Rejected, Save, ReportDone, TurnFails,
         Goes, TurnEnds, Turns, NoTurn
<1>8. TurnInv(r)'
  <2> USE DEF TurnInv, Goes, TurnEnds, NoTurn, Turns, Agent
  <2>0. turn[r] \in Turns /\ TurnInv(r)
    OBVIOUS
  <2>1. CASE ReportClaim(r)
    BY <2>0, <2>1, <1>1 DEF ReportClaim, Board!Credit, Awaits, vars
  <2>2. CASE Reason(r)
    BY <2>0, <2>2, <1>1, GatewayAssumption
       DEF Reason, Dispatch, Reaches, Awaits, board, GatewayInv, TypeOK, Runners, Calls
  <2>3. CASE Refused(r)
    BY <2>0, <2>3, <1>1, GatewayAssumption
       DEF Refused, UnknownTask, UnknownProvider, NoEgressViolation, QuotaExceeded,
           Reaches, Awaits, GatewayInv, TypeOK, Runners
  <2>4. CASE Rejected(r)
    BY <2>0, <2>4, <1>1
       DEF Rejected, ProviderFails, Ends, Awaits, GatewayInv, TypeOK, Runners, Calls
  <2>5. CASE Save(r)
    BY <2>0, <2>5, <1>1 DEF Save, Awaits, vars, board
  <2>6. CASE ReportDone(r) \/ TurnFails(r)
    BY <2>0, <2>6, <1>1 DEF ReportDone, TurnFails, Awaits, vars, board
  <2> QED
    BY <2>1, <2>2, <2>3, <2>4, <2>5, <2>6
<1>9. ASSUME NEW q \in Runners, q # r PROVE TurnInv(q)'
  <2>1. TurnInv(q) /\ turn[q] \in Turns
    OBVIOUS
  <2> QED
    BY <2>1, <1>1, <1>2, <1>3, <1>4, <1>9 DEF TurnInv, Agent, Turns
<1>10. ASSUME NEW m \in Members PROVE Settled(m) \subseteq Settled(m)'
  BY <1>1, <1>2, <1>7 DEF Settled, NoTurn
<1>11. \A q, p \in Runners :
         q # p /\ turn'[q].item # NoItem => turn'[q].item # turn'[p].item
  BY <1>1, <1>2, <1>7 DEF NoTurn
<1>12. \A i \in Items : owner'[i] \notin Members =>
         i \notin done' /\ \A m \in Members : <<i, m>> \notin credited'
  BY <1>1, <1>3, <1>4
<1> QED
  BY <1>6, <1>8, <1>9, <1>10, <1>11, <1>12 DEF LoopInv

\* An answer: the item becomes one that has been paid for, and was none before.
LEMMA AnsweredKeeps ==
    ASSUME AgentInv, NEW r \in Runners, NEW cost \in 0..MaxCost, Answered(r, cost)
    PROVE  /\ AgentTypeOK' /\ LoopInv'
           /\ \A m \in Members : Settled(m) \subseteq Settled(m)'
           /\ \E a \in Members, i \in Items :
                 /\ i \in Settled(a)'
                 /\ i \notin Settled(a)
                 /\ spent' = [spent EXCEPT ![a] = @ + cost]
<1> USE AgentAssumption DEF AgentInv, AgentTypeOK
<1>1. /\ turn[r] \in Turns /\ TurnInv(r) /\ Agent(r) \in Members
      /\ turn[r].pc = "await"
      /\ turn' = [turn EXCEPT ![r].pc = "save"]
      /\ UNCHANGED <<owner, credited, deps, done, failures>>
  BY DEF Answered, Goes, board, Agent
<1>2. turn'[r] = [turn[r] EXCEPT !.pc = "save"] /\ turn'[r] \in Turns
  BY <1>1 DEF Turns
<1>3. turn[r].item \in Items /\ owner[turn[r].item] = Agent(r) /\ call[r].member = Agent(r)
  BY <1>1 DEF TurnInv, Turns
<1>4. \A q \in Runners : q # r =>
         turn'[q] = turn[q] /\ call'[q] = call[q] /\ turn[q].item # turn[r].item
  BY <1>1, <1>3 DEF Answered, Answer, Ends, GatewayInv, TypeOK, Runners
<1>5. ~Awaits(r)'
  BY DEF Answered, Answer, Ends, Awaits, GatewayInv, TypeOK, Runners, Calls
<1>6. AgentTypeOK'
  BY <1>1, <1>2
<1>7. TurnInv(r)'
  BY <1>1, <1>2, <1>3, <1>5 DEF TurnInv, Agent
<1>8. ASSUME NEW q \in Runners, q # r PROVE TurnInv(q)'
  BY <1>1, <1>4, <1>8 DEF TurnInv, Agent, Awaits
<1>9. \A q, p \in Runners :
         q # p /\ turn'[q].item # NoItem => turn'[q].item # turn'[p].item
  BY <1>1, <1>2, <1>4 DEF Turns
<1>10. \A m \in Members : Settled(m) \subseteq Settled(m)'
  BY <1>1, <1>2, <1>4 DEF Settled
<1>11. \E a \in Members, i \in Items :
          /\ i \in Settled(a)'
          /\ i \notin Settled(a)
          /\ spent' = [spent EXCEPT ![a] = @ + cost]
  <2>1. PICK a \in Members : a = Agent(r)
    BY <1>1
  <2>2. PICK i \in Items : i = turn[r].item
    BY <1>3
  <2>3. \A q \in Runners : turn'[q].item = i => q = r
    BY <1>4, <2>2
  <2>4. i \in Settled(a)'
    BY <1>1, <1>2, <1>3, <2>1, <2>2, <2>3 DEF Settled
  <2>5. i \notin Settled(a)
    BY <1>1, <2>2 DEF Settled
  <2>6. spent' = [spent EXCEPT ![a] = @ + cost]
    BY <1>3, <2>1 DEF Answered, Answer
  <2> QED
    BY <2>4, <2>5, <2>6
<1>12. \A j \in Items : owner'[j] \notin Members =>
         j \notin done' /\ \A m \in Members : <<j, m>> \notin credited'
  BY <1>1
<1>13. LoopInv'
  BY <1>7, <1>8, <1>9, <1>12 DEF LoopInv
<1> QED
  BY <1>6, <1>10, <1>11, <1>13

LEMMA RestartProcessKeeps ==
    ASSUME AgentInv, RestartProcess
    PROVE  AgentTypeOK' /\ LoopInv' /\ (\A m \in Members : Settled(m) \subseteq Settled(m)')
<1> USE AgentAssumption DEF AgentInv, AgentTypeOK
<1>1. /\ UNCHANGED <<owner, credited, done, failures>>
      /\ turn' = [r \in Runners |-> NoTurn]
      /\ deps' \in [Runners -> [agent : Agents, task : Tasks]]
      /\ \A r \in Runners : call'[r] = NoCall
  BY DEF RestartProcess, Restart, board, Runners
<1>2. AgentTypeOK'
  BY <1>1 DEF Turns, NoTurn
<1>3. ASSUME NEW r \in Runners PROVE TurnInv(r)'
  BY <1>1 DEF TurnInv, NoTurn, Awaits
<1>4. \A m \in Members : Settled(m) \subseteq Settled(m)'
  BY <1>1 DEF Settled, NoTurn
<1> QED
  BY <1>1, <1>2, <1>3, <1>4 DEF LoopInv, NoTurn

\* What was spent stays within what is settled.
LEMMA SpendWithin ==
    ASSUME NEW after \in SUBSET Items, NEW before \in SUBSET after,
           NEW old \in Nat, old <= MaxCost * Cardinality(before),
           NEW new,
           \/ new = old
           \/ \E i \in after \ before, cost \in 0..MaxCost : new = old + cost
    PROVE  new <= MaxCost * Cardinality(after)
<1>1. IsFiniteSet(after) /\ Cardinality(after) \in Nat
  BY AgentAssumption, FS_Subset, FS_CardinalityType
<1>2. /\ IsFiniteSet(before) /\ Cardinality(before) \in Nat
      /\ Cardinality(before) <= Cardinality(after)
  BY <1>1, FS_Subset, FS_CardinalityType
<1>3. MaxCost \in Nat
  BY GatewayAssumption
<1>4. MaxCost * Cardinality(before) \in Nat /\ MaxCost * Cardinality(after) \in Nat
  BY <1>1, <1>2, <1>3
<1>5. CASE new = old
  <2>1. MaxCost * Cardinality(before) <= MaxCost * Cardinality(after)
    BY <1>1, <1>2, <1>3
  <2> QED
    BY <1>4, <1>5, <2>1
<1>6. ASSUME NEW i \in after \ before, NEW cost \in 0..MaxCost, new = old + cost
      PROVE  new <= MaxCost * Cardinality(after)
  <2>1. /\ IsFiniteSet(before \cup {i})
        /\ Cardinality(before \cup {i}) = Cardinality(before) + 1
    BY <1>2, FS_AddElement
  <2>2. Cardinality(before) + 1 <= Cardinality(after)
    BY <2>1, <1>1, FS_Subset
  <2>3. MaxCost * (Cardinality(before) + 1) <= MaxCost * Cardinality(after)
    BY <2>2, <1>1, <1>2, <1>3
  <2>4. MaxCost * (Cardinality(before) + 1) = MaxCost * Cardinality(before) + MaxCost
    BY <1>2, <1>3
  <2> QED
    BY <1>3, <1>4, <1>6, <2>3, <2>4
<1> QED
  BY <1>5, <1>6

LEMMA SpendKeeps ==
    ASSUME AgentInv, \A m \in Members : Settled(m) \subseteq Settled(m)',
           \/ spent' = spent
           \/ \E a \in Members, i \in Items, cost \in 0..MaxCost :
                 /\ i \in Settled(a)'
                 /\ i \notin Settled(a)
                 /\ spent' = [spent EXCEPT ![a] = @ + cost]
    PROVE  \A m \in Members : spent'[m] <= MaxCost * Cardinality(Settled(m)')
<1> SUFFICES ASSUME NEW m \in Members
             PROVE  spent'[m] <= MaxCost * Cardinality(Settled(m)')
  OBVIOUS
<1>1. PICK before : before = Settled(m)
  OBVIOUS
<1>2. PICK after : after = Settled(m)'
  OBVIOUS
<1>3. after \in SUBSET Items /\ before \in SUBSET after
  BY <1>1, <1>2 DEF Settled
<1>4. /\ spent \in [Members -> Nat]
      /\ spent[m] <= MaxCost * Cardinality(before)
  BY <1>1 DEF AgentInv, GatewayInv, TypeOK
<1>5. \/ spent'[m] = spent[m]
      \/ \E i \in after \ before, cost \in 0..MaxCost : spent'[m] = spent[m] + cost
  <2>1. CASE spent' = spent
    BY <2>1
  <2>2. ASSUME NEW a \in Members, NEW i \in Items, NEW cost \in 0..MaxCost,
               i \in Settled(a)', i \notin Settled(a),
               spent' = [spent EXCEPT ![a] = @ + cost]
        PROVE  \/ spent'[m] = spent[m]
               \/ \E j \in after \ before : spent'[m] = spent[m] + cost
    <3>1. CASE a = m
      <4>1. i \in after \ before
        BY <1>1, <1>2, <2>2, <3>1
      <4>2. spent'[m] = spent[m] + cost
        BY <1>4, <2>2, <3>1
      <4> QED
        BY <4>1, <4>2
    <3>2. CASE a # m
      BY <1>4, <2>2, <3>2
    <3> QED
      BY <3>1, <3>2
  <2> QED
    BY <2>1, <2>2
<1>6. spent'[m] <= MaxCost * Cardinality(after)
  BY <1>3, <1>4, <1>5, SpendWithin
<1> QED
  BY <1>2, <1>6

LEMMA StepAgents == AgentInv /\ [AgentNext]_agentVars => AgentInv'
<1> SUFFICES ASSUME AgentInv, [AgentNext]_agentVars PROVE AgentInv'
  OBVIOUS
<1>1. GatewayInv'
  BY AgentStep, StepGateway DEF AgentInv
<1>2. ASSUME AgentTypeOK' /\ LoopInv',
             \A m \in Members : Settled(m) \subseteq Settled(m)',
             spent' = spent
      PROVE  AgentInv'
  BY <1>1, <1>2, SpendKeeps DEF AgentInv, LoopInv
<1>3. ASSUME NEW i \in Items,
             PublishItem(i) \/ \E m \in Members \ Agents : ClaimElsewhere(i, m)
      PROVE  AgentInv'
  BY <1>2, <1>3, OthersKeep DEF PublishItem, ClaimElsewhere, vars
<1>4. ASSUME NEW r \in Runners, ClaimNext(r) PROVE AgentInv'
  BY <1>2, <1>4, ClaimKeeps DEF ClaimNext, vars
<1>5. ASSUME NEW r \in Runners, NEW cost \in 0..MaxCost, Answered(r, cost)
      PROVE  AgentInv'
  BY <1>1, <1>5, AnsweredKeeps, SpendKeeps DEF AgentInv, LoopInv
<1>6. ASSUME NEW r \in Runners,
             \/ ReportClaim(r)
             \/ Reason(r)
             \/ Refused(r)
             \/ Rejected(r)
             \/ Save(r)
             \/ ReportDone(r)
             \/ TurnFails(r)
      PROVE  AgentInv'
  <2>1. spent' = spent
    BY <1>6 DEF ReportClaim, Reason, Refused, Rejected, Save, ReportDone, TurnFails,
           Dispatch, UnknownTask, UnknownProvider, NoEgressViolation, QuotaExceeded,
           Reaches, ProviderFails, vars
  <2> QED
    BY <1>2, <1>6, <2>1, TurnKeeps
<1>7. CASE RestartProcess
  BY <1>2, <1>7, RestartProcessKeeps DEF RestartProcess, Restart
<1>8. CASE UNCHANGED agentVars
  <2>1. AgentTypeOK' /\ LoopInv' /\ (\A m \in Members : Settled(m)' = Settled(m))
    BY <1>8 DEF agentVars, vars, board, AgentInv, AgentTypeOK, LoopInv, TurnInv, Agent,
                Awaits, Settled
  <2> QED
    BY <1>2, <1>8, <2>1 DEF agentVars, vars
<1> QED
  BY <1>3, <1>4, <1>5, <1>6, <1>7, <1>8 DEF AgentNext, RunOnce

\* Turns, items and meter fit together, for any number of runners, agents and
\* items, failures and restarts included.
THEOREM AgentInvariant == AgentSpec => []AgentInv
BY InitAgents, StepAgents, PTL DEF AgentSpec

\* Runners use the gateway as it is meant to be used, so every theorem about
\* the gateway is one about the agent system.
THEOREM AgentsUseGateway == AgentSpec => Spec
<1>1. AgentInit => Init
  BY DEF AgentInit
<1>2. AgentInv => AgentTypeOK
  BY DEF AgentInv
<1> QED
  BY <1>1, <1>2, AgentStep, AgentInvariant, PTL DEF AgentSpec, Spec

\* Every step on the board is one that SharedBoard allows: a runner's retry or
\* crash never takes an item from anybody (agent-runner.ts:46).
THEOREM AgentsUseBoard == AgentSpec => Board!Spec
<1>1. AgentInit => Board!Init
  BY DEF AgentInit
<1>2. AgentInv /\ [AgentNext]_agentVars => [Board!Next]_(Board!vars)
  <2> SUFFICES ASSUME AgentInv, [AgentNext]_agentVars
               PROVE  [Board!Next]_(Board!vars)
    OBVIOUS
  <2>1. ASSUME NEW i \in Items,
               \/ PublishItem(i)
               \/ \E m \in Members \ Agents : ClaimElsewhere(i, m)
        PROVE  Board!Next
    BY <2>1 DEF PublishItem, ClaimElsewhere, Board!Next
  <2>2. ASSUME NEW r \in Runners, ClaimNext(r) PROVE Board!Next
    <3>1. Agent(r) \in Members
      BY AgentAssumption DEF AgentInv, AgentTypeOK, Agent
    <3> QED
      BY <2>2, <3>1 DEF ClaimNext, Board!Next
  <2>3. ASSUME NEW r \in Runners, ReportClaim(r) PROVE Board!Next
    <3>1. turn[r].item \in Items
      BY <2>3 DEF ReportClaim, Goes, AgentInv, AgentTypeOK, TurnInv, Turns
    <3> QED
      BY <2>3, <3>1 DEF ReportClaim, Board!Next
  <2>4. CASE \/ RestartProcess
             \/ \E r \in Runners :
                  \/ Reason(r) \/ Refused(r) \/ Rejected(r) \/ Save(r)
                  \/ ReportDone(r) \/ TurnFails(r)
                  \/ \E cost \in 0..MaxCost : Answered(r, cost)
    BY <2>4 DEF RestartProcess, Reason, Refused, Rejected, Save, ReportDone,
                TurnFails, Answered, board, Board!vars
  <2>5. CASE UNCHANGED agentVars
    BY <2>5 DEF agentVars, board, Board!vars
  <2> QED
    BY <2>1, <2>2, <2>3, <2>4, <2>5 DEF AgentNext, RunOnce
<1> QED
  BY <1>1, <1>2, AgentInvariant, PTL DEF AgentSpec, Board!Spec

\* An agent is given no more than MaxCost per item it owns: no turn pays for an
\* item twice (agent-runner.ts:46-64, model-gateway.ts:97).
THEOREM TokensBuyItems == AgentSpec => []SpentOnOwnItems
<1>1. AgentInv => SpentOnOwnItems
  <2> SUFFICES ASSUME AgentInv, NEW m \in Members
               PROVE  spent[m] <= MaxCost * Cardinality({i \in Items : owner[i] = m})
    BY DEF SpentOnOwnItems
  <2> DEFINE own == {i \in Items : owner[i] = m}
  <2>1. IsFiniteSet(own) /\ Cardinality(own) \in Nat
    BY AgentAssumption, FS_Subset, FS_CardinalityType
  <2>2. Settled(m) \subseteq own /\ Cardinality(Settled(m)) <= Cardinality(own)
    BY <2>1, FS_Subset DEF Settled
  <2>3. /\ spent[m] \in Nat /\ MaxCost \in Nat
        /\ spent[m] <= MaxCost * Cardinality(Settled(m))
        /\ Cardinality(Settled(m)) \in Nat
    BY GatewayAssumption, SettledCounts DEF AgentInv, GatewayInv, TypeOK
  <2> HIDE DEF own
  <2>4. MaxCost * Cardinality(Settled(m)) <= MaxCost * Cardinality(own)
    BY <2>1, <2>2, <2>3
  <2> QED
    BY <2>1, <2>3, <2>4 DEF own
<1> QED
  BY <1>1, AgentInvariant, PTL

-----------------------------------------------------------------------------
(* What becomes of an item whose turn was refused *)

\* A credit names the owner, and a turn that reports its item has saved it.
BooksInv ==
    /\ \A i \in Items, m \in Members : <<i, m>> \in credited => owner[i] = m
    /\ \A r \in Runners : turn[r].pc = "reportDone" => turn[r].item \in done

\* The gateway does not serve r, whose agent is m.
Refusing(r, m) ==
    /\ Agent(r) = m
    /\ \/ ~Routed(deps[r].task)
       \/ Blocked(deps[r].task)
       \/ OverQuota(m)

\* What a turn does to its item while nothing fails: it keeps it, or it ends
\* because the gateway refuses, or because the item is done.
LEMMA TurnFate ==
    ASSUME AgentInv, BooksInv, ~failures, NEW r \in Runners, RunOnce(r)
    PROVE  /\ credited' \subseteq credited \cup {<<turn[r].item, Agent(r)>>}
           /\ credited' # credited => turn'[r].item = turn[r].item
           /\ \/ turn'[r].item = turn[r].item
              \/ Refusing(r, Agent(r)) /\ UNCHANGED credited
              \/ turn[r].item \in done
           /\ done \subseteq done'
           /\ turn'[r].pc = "reportDone" => turn'[r].item \in done'
           /\ \A q \in Runners : q # r => turn'[q] = turn[q]
           /\ UNCHANGED <<owner, deps, config, failures>>
           /\ \A m \in Members : usage[m] <= usage'[m]
<1> USE AgentAssumption, GatewayAssumption
    DEF AgentInv, AgentTypeOK, GatewayInv, TypeOK, Runners
<1>1. /\ turn[r] \in Turns /\ TurnInv(r) /\ Agent(r) \in Members
      /\ turn \in [Runners -> Turns]
  BY DEF Agent
<1>2. CASE ReportClaim(r)
  <2>1. owner[turn[r].item] = Agent(r)
    BY <1>1, <1>2 DEF ReportClaim, Goes, TurnInv
  <2> QED
    BY <1>1, <1>2, <2>1 DEF ReportClaim, Goes, Board!Credit, vars, Turns
<1>3. CASE Reason(r)
  BY <1>1, <1>3 DEF Reason, Goes, Dispatch, Reaches, board, Turns
<1>4. CASE Refused(r)
  <2>1. Refusing(r, Agent(r))
    BY <1>4 DEF Refused, UnknownTask, UnknownProvider, NoEgressViolation,
                QuotaExceeded, Refusing, Routed
  <2> QED
    BY <1>1, <1>4, <2>1
       DEF Refused, TurnEnds, NoTurn, UnknownTask, UnknownProvider,
           NoEgressViolation, QuotaExceeded, Reaches, board, Turns
<1>5. ASSUME NEW cost \in 0..MaxCost, Answered(r, cost)
      PROVE  /\ UNCHANGED <<owner, credited, deps, config, failures, done>>
             /\ turn' = [turn EXCEPT ![r].pc = "save"]
             /\ \A m \in Members : usage[m] <= usage'[m]
  <2>1. call[r].member \in Members
    BY <1>1, <1>5 DEF Answered, Goes, TurnInv
  <2> QED
    BY <1>5, <2>1 DEF Answered, Goes, Answer, board
<1>6. CASE Save(r)
  BY <1>1, <1>6 DEF Save, Goes, vars, board, Turns
<1>7. CASE ReportDone(r)
  BY <1>1, <1>7 DEF ReportDone, TurnEnds, NoTurn, vars, board, BooksInv, Turns
<1>8. ~Rejected(r)
  BY DEF Rejected
<1> QED
  BY <1>1, <1>2, <1>3, <1>4, <1>5, <1>6, <1>7, <1>8 DEF RunOnce, Turns

\* Whatever others do touches no turn, no credit and nothing the gateway knows.
LEMMA OthersLeaveTurns ==
    ASSUME AgentInv, NEW i \in Items,
           PublishItem(i) \/ \E m \in Members \ Agents : ClaimElsewhere(i, m)
    PROVE  /\ UNCHANGED <<vars, turn, done, deps, credited, failures>>
           /\ owner[i] \notin Members
           /\ \A j \in Items : j # i => owner'[j] = owner[j]
BY AgentAssumption
   DEF PublishItem, ClaimElsewhere, Board!Publish, Board!Claim, AgentInv, AgentTypeOK

\* A turn that begins holds an item nobody has been credited for.
LEMMA BeginningsLeaveTurns ==
    ASSUME AgentInv, NEW r \in Runners, ClaimNext(r)
    PROVE  /\ UNCHANGED <<vars, done, deps, credited, failures>>
           /\ turn[r].item = NoItem
           /\ turn'[r].pc = "report"
           /\ \A q \in Runners : q # r => turn'[q] = turn[q]
           /\ \E i \in Items :
                 /\ owner[i] \notin Members
                 /\ \A j \in Items : j # i => owner'[j] = owner[j]
<1>1. TurnInv(r)
  BY DEF AgentInv
<1> QED
  BY <1>1, AgentAssumption
     DEF ClaimNext, Board!Claim, TurnInv, AgentInv, AgentTypeOK

\* The inductive invariant.
StrandInv ==
    /\ AgentInv
    /\ ~failures => BooksInv /\ StrandedMeansRefused

\* A step of a turn leaves behind only what the gateway refuses.
LEMMA TurnStrands ==
    ASSUME StrandInv, ~failures, NEW r \in Runners, RunOnce(r)
    PROVE  BooksInv' /\ StrandedMeansRefused'
<1>0. AgentInv /\ BooksInv
  BY DEF StrandInv
<1>1. PICK own \in Members : own = Agent(r)
  BY <1>0, AgentAssumption DEF AgentInv, AgentTypeOK, Agent
<1>2. /\ credited' \subseteq credited \cup {<<turn[r].item, own>>}
      /\ credited' # credited => turn'[r].item = turn[r].item
      /\ \/ turn'[r].item = turn[r].item
         \/ Refusing(r, own) /\ UNCHANGED credited
         \/ turn[r].item \in done
      /\ done \subseteq done'
      /\ turn'[r].pc = "reportDone" => turn'[r].item \in done'
      /\ \A q \in Runners : q # r => turn'[q] = turn[q]
      /\ UNCHANGED <<owner, deps, config, failures>>
      /\ \A m \in Members : usage[m] <= usage'[m]
  BY <1>0, <1>1, TurnFate
<1>3. \A i \in Items : turn[r].item = i => owner[i] = own
  BY <1>0, <1>1, AgentAssumption DEF AgentInv, TurnInv
<1>4. BooksInv'
  <2>1. \A i \in Items, m \in Members : <<i, m>> \in credited' => owner'[i] = m
    BY <1>0, <1>2, <1>3 DEF BooksInv
  <2>2. \A q \in Runners : turn'[q].pc = "reportDone" => turn'[q].item \in done'
    BY <1>0, <1>2 DEF BooksInv
  <2> QED
    BY <2>1, <2>2 DEF BooksInv
<1>5. ASSUME NEW q \in Runners, NEW m \in Members, Refusing(q, m)
      PROVE  Refusing(q, m)'
  <2>1. usage[m] \in Nat /\ usage'[m] \in Nat /\ Quota \in Nat
    BY <1>0, <1>1, AgentStep, StepGateway, GatewayAssumption
       DEF AgentInv, GatewayInv, TypeOK, AgentNext
  <2>2. OverQuota(m) => OverQuota(m)'
    BY <1>2, <2>1 DEF OverQuota
  <2> QED
    BY <1>2, <1>5, <2>2 DEF Refusing, Agent, Routed, Blocked, Provider
<1>6. StrandedMeansRefused'
  <2> SUFFICES ASSUME NEW i \in Items, NEW m \in Members,
                      <<i, m>> \in credited', i \notin done', Holding(i)' = {}
               PROVE  \E q \in Runners : Refusing(q, m)'
    BY DEF StrandedMeansRefused, Refusing
  <2>1. i \notin done /\ turn'[r].item # i
    BY <1>2 DEF Holding
  <2>2. <<i, m>> \in credited
    BY <1>2, <2>1
  <2>3. CASE Holding(i) = {}
    <3>1. \E q \in Runners : Refusing(q, m)
      BY <2>1, <2>2, <2>3 DEF StrandInv, StrandedMeansRefused, Refusing
    <3> QED
      BY <3>1, <1>5
  <2>4. CASE Holding(i) # {}
    <3>1. turn[r].item = i
      BY <2>4, <1>2 DEF Holding
    <3>2. Refusing(r, own) /\ own = m
      BY <3>1, <1>0, <1>2, <1>3, <2>1, <2>2 DEF BooksInv
    <3> QED
      BY <3>2, <1>5
  <2> QED
    BY <2>3, <2>4
<1> QED
  BY <1>4, <1>6

\* So does every other step: it ends no turn.
LEMMA OthersStrand ==
    ASSUME StrandInv, ~failures, UNCHANGED <<vars, done, deps, credited, failures>>,
           \A q \in Runners : \/ turn'[q] = turn[q]
                              \/ turn[q].item = NoItem /\ turn'[q].pc # "reportDone",
           \A i \in Items : owner[i] \in Members => owner'[i] = owner[i]
    PROVE  BooksInv' /\ StrandedMeansRefused'
<1>1. BooksInv'
  BY DEF StrandInv, BooksInv, AgentInv
<1>2. \A i \in Items : Holding(i) \subseteq Holding(i)'
  BY AgentAssumption DEF Holding
<1>3. ASSUME NEW q \in Runners, NEW m \in Members, Refusing(q, m)
      PROVE  Refusing(q, m)'
  BY <1>3 DEF Refusing, Agent, Routed, Blocked, Provider, OverQuota, vars
<1>4. StrandedMeansRefused'
  <2> SUFFICES ASSUME NEW i \in Items, NEW m \in Members,
                      <<i, m>> \in credited', i \notin done', Holding(i)' = {}
               PROVE  \E q \in Runners : Refusing(q, m)'
    BY DEF StrandedMeansRefused, Refusing
  <2>1. \E q \in Runners : Refusing(q, m)
    BY <1>2 DEF StrandInv, StrandedMeansRefused, Refusing
  <2> QED
    BY <1>3, <2>1
<1> QED
  BY <1>1, <1>4

LEMMA StepStrands == StrandInv /\ [AgentNext]_agentVars => StrandInv'
<1> SUFFICES ASSUME StrandInv, [AgentNext]_agentVars PROVE StrandInv'
  OBVIOUS
<1>1. AgentInv /\ AgentInv'
  BY StepAgents DEF StrandInv
<1>2. UNCHANGED failures
  BY DEF AgentNext, agentVars, PublishItem, ClaimElsewhere, ClaimNext, RunOnce, ReportClaim,
         Reason, Refused, Answered, Rejected, Save, ReportDone, TurnFails, RestartProcess
<1>3. ASSUME ~failures PROVE BooksInv' /\ StrandedMeansRefused'
  <2>1. ASSUME NEW i \in Items,
               PublishItem(i) \/ \E m \in Members \ Agents : ClaimElsewhere(i, m)
        PROVE  BooksInv' /\ StrandedMeansRefused'
    BY <1>1, <1>3, <2>1, OthersLeaveTurns, OthersStrand
  <2>2. ASSUME NEW r \in Runners, ClaimNext(r)
        PROVE  BooksInv' /\ StrandedMeansRefused'
    BY <1>1, <1>3, <2>2, BeginningsLeaveTurns, OthersStrand
  <2>3. ASSUME NEW r \in Runners, RunOnce(r)
        PROVE  BooksInv' /\ StrandedMeansRefused'
    BY <1>3, <2>3, TurnStrands
  <2>4. CASE UNCHANGED agentVars
    BY <1>3, <2>4, OthersStrand DEF agentVars, board
  <2> QED
    BY <1>3, <2>1, <2>2, <2>3, <2>4 DEF AgentNext, TurnFails, RestartProcess
<1> QED
  BY <1>1, <1>2, <1>3 DEF StrandInv

\* While nothing fails, races strand no item: what a runner claimed and left
\* unfinished is what the gateway refuses its agent, then and still
\* (agent-runner.ts:46-64, model-gateway.ts:71-87).
THEOREM OnlyRefusalsStrand == AgentSpec => []StrandedMeansRefused
<1>1. AgentInit => StrandInv
  BY InitAgents
     DEF AgentInit, Board!Init, NoTurn, StrandInv, BooksInv, StrandedMeansRefused
<1>2. StrandInv => StrandedMeansRefused
  BY DEF StrandInv, StrandedMeansRefused
<1> QED
  BY <1>1, <1>2, StepStrands, PTL DEF AgentSpec
=============================================================================
