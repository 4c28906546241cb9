------------------------- MODULE MessageQueueProofs -------------------------
(***************************************************************************)
(* QueueInv is inductive, for any messages, queues and consumers, whatever *)
(* fails.  No message is served twice at once and none completed comes     *)
(* back, under the conditions MessageQueue names.                          *)
(***************************************************************************)
EXTENDS MessageQueue, TLAPS

\* A queue nobody has used.
LEMMA InitHolds == ASSUME Init PROVE QueueInv
<1>1. TypeOK
  BY QueueAssumption DEF Init, TypeOK
<1>2. QED
  BY <1>1, QueueAssumption
  DEF Init, QueueInv, OwnQueue, AttemptsTellApart, ExclusiveClaim,
      HeldIsNotPending, Agree, Delivered

\* One step of the queue, by the statement executed or the failure met.
LEMMA StepPreserves ==
    ASSUME QueueInv, [Next]_vars
    PROVE  QueueInv'
<1> USE QueueAssumption
    DEF QueueInv, TypeOK, table, conditions, OwnQueue, AttemptsTellApart, ExclusiveClaim,
        HeldIsNotPending, Agree, Delivered
<1>1. ASSUME NEW m \in Messages, NEW q \in Queues, NEW t \in Times, Enqueue(m, q, t)
      PROVE QueueInv'
  BY <1>1 DEF Enqueue
<1>2. ASSUME NEW c \in Consumers, Proceed(c)
      PROVE QueueInv'
  <2>1. CASE Claim(c)
    BY <1>2, <2>1 DEF Claim
  <2>2. CASE Finish(c)
    BY <1>2, <2>2 DEF Finish
  <2>3. CASE Complete(c)
    BY <1>2, <2>3 DEF Complete, Settle, LetGo, Locked
  <2>4. CASE FailMessage(c)
    BY <1>2, <2>4 DEF FailMessage, Settle, LetGo, Locked
  <2>5. QED
    BY <1>2, <2>1, <2>2, <2>3, <2>4 DEF Proceed
<1>3. ASSUME NEW c \in Consumers, Break(c)
      PROVE QueueInv'
  <2>0. failures
    BY <1>3 DEF Break
  <2>1. CASE CompleteErrs(c)
    BY <2>0, <2>1 DEF CompleteErrs, Settle, Locked
  <2>2. CASE FailErrs(c)
    <3>1. CASE retries
      BY <2>0, <2>2, <3>1 DEF FailErrs, Settle, Locked
    <3>2. CASE ~retries
      BY <2>0, <2>2, <3>2 DEF FailErrs, Settle, LetGo, Locked
    <3>3. QED
      BY <3>1, <3>2
  <2>3. CASE Crash(c)
    BY <2>0, <2>3 DEF Crash, LetGo
  <2>4. CASE ClaimLost(c)
    BY <2>0, <2>4 DEF ClaimLost, LetGo
  <2>5. QED
    BY <1>3, <2>1, <2>2, <2>3, <2>4 DEF Break
<1>4. ASSUME NEW c \in Consumers, NEW m \in Messages, Select(c, m)
      PROVE QueueInv'
  BY <1>4 DEF Select, Oldest, Claimable, Pending, Locked
<1>5. CASE UNCHANGED vars
  BY <1>5 DEF vars
<1>6. QED
  BY <1>1, <1>2, <1>3, <1>4, <1>5 DEF Next

\* The table and its consumers fit together in every reachable state.
THEOREM QueueInvariant == Spec => []QueueInv
BY InitHolds, StepPreserves, PTL DEF Spec

\* "A claimed message must never be visible to a second claim() while it is
\* outstanding" (ports/queue.ts:8), unless consumers repeat a call to fail whose
\* answer they missed.
THEOREM ClaimsAreExclusive == Spec => []ExclusiveClaim
<1>1. QueueInv => ExclusiveClaim
  BY DEF QueueInv
<1>2. QED
  BY <1>1, QueueInvariant, PTL

\* Consumers that hold one message hold different attempts of it, whatever
\* fails and whatever they repeat (postgres-queue.ts:23, :31).
THEOREM AttemptsIdentifyClaims == Spec => []AttemptsTellApart
<1>1. QueueInv => AttemptsTellApart
  BY DEF QueueInv
<1>2. QED
  BY <1>1, QueueInvariant, PTL

\* "complete() marks a message so it is never claimed again", while nothing
\* errs: whoever could still settle the message would hold it, and nobody does.
THEOREM CompletedIsFinal == Spec => CompletedStays
<1> DEFINE Stays(m) == status[m] = "completed" => status'[m] = "completed"
<1>1. ASSUME QueueInv, [Next]_vars
      PROVE  [~failures => \A m \in Messages : Stays(m)]_vars
  <2> SUFFICES ASSUME ~failures, NEW m \in Messages, status[m] = "completed",
                      NEW c \in Consumers, Proceed(c) \/ \E n \in Messages : Select(c, n)
               PROVE  status'[m] = "completed"
    BY <1>1 DEF Next, Break, Enqueue, QueueInv, TypeOK, vars, table
  <2>1. at[c] \in Delivered => held[c] # m
    BY <1>1, QueueAssumption DEF QueueInv, Agree, TypeOK
  <2>2. at[c] = "claiming" => held[c] # m
    BY <1>1 DEF QueueInv, TypeOK
  <2>3. QED
    BY <1>1, <2>1, <2>2
    DEF Proceed, Claim, Finish, Complete, FailMessage, Select, Settle, LetGo,
        QueueInv, TypeOK, Delivered, table
<1>2. QED
  BY <1>1, QueueInvariant, PTL DEF Spec, CompletedStays

-----------------------------------------------------------------------------
(* The queue implements JobQueue. *)

\* What a step of a consumer leaves of the leases of the others.
LEMMA OthersKeepLeases ==
    ASSUME QueueInv, NEW c \in Consumers,
           at' \in [Consumers -> {"idle", "claiming", "working", "completing", "failing"}],
           \A d \in Consumers : d # c =>
             at'[d] = at[d] /\ held'[d] = held[d] /\ attempt'[d] = attempt[d]
    PROVE  /\ LeasedMap' = [LeasedMap EXCEPT ![c] =
                               IF at'[c] \in Delivered THEN held'[c] ELSE NoMessage]
           /\ NumberMap' = [NumberMap EXCEPT ![c] =
                               IF at'[c] \in Delivered THEN attempt'[c] ELSE 0]
BY DEF LeasedMap, NumberMap

LEMMA LeaseOf ==
    ASSUME QueueInv, NEW c \in Consumers
    PROVE  /\ at[c] \in Delivered => LeasedMap[c] = held[c] /\ held[c] \in Messages
           /\ at[c] \notin Delivered => LeasedMap[c] = NoMessage /\ NumberMap[c] = 0
           /\ at[c] \in Delivered <=> LeasedMap[c] # NoMessage
BY QueueAssumption DEF QueueInv, TypeOK, LeasedMap, NumberMap, Delivered

\* Completing or failing its message, a consumer gives its lease up.
LEMMA LettingGo ==
    ASSUME QueueInv, NEW c \in Consumers, at[c] \in Delivered, LetGo(c), UNCHANGED attempts
    PROVE  Jobs!Ends(c)
<1>1. /\ at' = [at EXCEPT ![c] = "idle"] /\ held' = [held EXCEPT ![c] = NoMessage]
      /\ UNCHANGED <<attempt, conditions>>
  BY DEF LetGo
<1>2. /\ LeasedMap' = [LeasedMap EXCEPT ![c] = NoMessage]
      /\ NumberMap' = [NumberMap EXCEPT ![c] = 0]
  BY <1>1, OthersKeepLeases DEF QueueInv, TypeOK, Delivered
<1> QED
  BY <1>1, <1>2, LeaseOf DEF Jobs!Ends, conditions

\* Every step of the queue is one of JobQueue, or none.
LEMMA QueueStep == QueueInv /\ [Next]_vars => [Jobs!Next]_Jobs!vars
<1> SUFFICES ASSUME QueueInv, [Next]_vars PROVE [Jobs!Next]_Jobs!vars
  OBVIOUS
<1> USE QueueAssumption
<1>1. CASE UNCHANGED vars
  BY <1>1 DEF vars, table, conditions, Jobs!vars, LeasedMap, NumberMap, DoneMap
<1>2. ASSUME NEW m \in Messages, NEW q \in Queues, NEW t \in Times, Enqueue(m, q, t)
      PROVE  UNCHANGED Jobs!vars
  <2>1. DoneMap' = DoneMap
    BY <1>2 DEF Enqueue, DoneMap, QueueInv, TypeOK
  <2> QED
    BY <1>2, <2>1 DEF Enqueue, conditions, Jobs!vars, LeasedMap, NumberMap
<1>3. ASSUME NEW c \in Consumers, NEW m \in Messages, Select(c, m)
      PROVE  UNCHANGED Jobs!vars
  <2>1. /\ LeasedMap' = [LeasedMap EXCEPT ![c] = NoMessage]
        /\ NumberMap' = [NumberMap EXCEPT ![c] = 0]
    BY <1>3, OthersKeepLeases DEF Select, QueueInv, TypeOK, Delivered
  <2>2. LeasedMap[c] = NoMessage /\ NumberMap[c] = 0
    BY <1>3, LeaseOf DEF Select, Delivered
  <2>3. LeasedMap' = LeasedMap /\ NumberMap' = NumberMap
    BY <2>1, <2>2 DEF LeasedMap, NumberMap
  <2> QED
    BY <1>3, <2>3 DEF Select, table, conditions, Jobs!vars, DoneMap
<1>4. ASSUME NEW c \in Consumers, Claim(c) PROVE \E m \in Messages : Jobs!Lease(c, m)
  <2> DEFINE m == held[c]
  <2>1. /\ m \in Messages /\ status[m] = "pending" /\ at[c] = "claiming"
        /\ at' = [at EXCEPT ![c] = "working"]
        /\ attempt' = [attempt EXCEPT ![c] = attempts[m] + 1]
        /\ attempts' = [attempts EXCEPT ![m] = @ + 1]
        /\ status' = [status EXCEPT ![m] = "claimed"]
        /\ UNCHANGED <<held, conditions>>
    BY <1>4 DEF Claim, QueueInv, TypeOK
  <2>2. /\ LeasedMap' = [LeasedMap EXCEPT ![c] = m]
        /\ NumberMap' = [NumberMap EXCEPT ![c] = attempts[m] + 1]
    <3>1. at'[c] \in Delivered /\ held'[c] = m /\ attempt'[c] = attempts[m] + 1
      BY <2>1 DEF Delivered, QueueInv, TypeOK
    <3>2. /\ at' \in [Consumers -> {"idle", "claiming", "working", "completing", "failing"}]
          /\ \A d \in Consumers : d # c =>
               at'[d] = at[d] /\ held'[d] = held[d] /\ attempt'[d] = attempt[d]
      BY <2>1 DEF QueueInv, TypeOK
    <3> QED
      BY <3>1, <3>2, OthersKeepLeases
  <2>3. LeasedMap[c] = NoMessage
    BY <2>1, LeaseOf DEF Delivered
  <2>4. DoneMap' = DoneMap /\ m \notin DoneMap
    BY <2>1 DEF DoneMap, QueueInv, TypeOK
  <2>5. ASSUME ~(failures /\ retries), NEW d \in Consumers PROVE LeasedMap[d] # m
    BY <2>1, <2>5, LeaseOf DEF QueueInv, HeldIsNotPending
  <2> QED
    BY <2>1, <2>2, <2>3, <2>4, <2>5 DEF Jobs!Lease, conditions
<1>5. ASSUME NEW c \in Consumers, Finish(c) PROVE UNCHANGED Jobs!vars
  <2>1. /\ at[c] \in Delivered /\ at'[c] \in Delivered
        /\ UNCHANGED <<table, held, attempt, conditions>>
        /\ at' \in [Consumers -> {"idle", "claiming", "working", "completing", "failing"}]
        /\ \A d \in Consumers : d # c => at'[d] = at[d]
    BY <1>5 DEF Finish, Delivered, QueueInv, TypeOK
  <2>2. \A d \in Consumers : at'[d] \in Delivered <=> at[d] \in Delivered
    BY <2>1
  <2>3. LeasedMap' = LeasedMap /\ NumberMap' = NumberMap
    BY <2>1, <2>2 DEF LeasedMap, NumberMap
  <2> QED
    BY <2>1, <2>3 DEF table, conditions, Jobs!vars, DoneMap
<1>6. ASSUME NEW c \in Consumers, Complete(c) PROVE Jobs!Finish(c)
  <2>1. /\ at[c] \in Delivered /\ held[c] \in Messages
        /\ LetGo(c) /\ UNCHANGED attempts
        /\ status' = [status EXCEPT ![held[c]] = "completed"]
    BY <1>6, LeaseOf DEF Complete, Settle, Delivered
  <2>2. DoneMap' = DoneMap \cup {held[c]}
    BY <2>1 DEF DoneMap, QueueInv, TypeOK
  <2> QED
    BY <2>1, <2>2, LettingGo, LeaseOf DEF Jobs!Finish
<1>7. ASSUME NEW c \in Consumers, FailMessage(c) PROVE Jobs!GiveBack(c)
  <2>1. /\ at[c] \in Delivered /\ held[c] \in Messages
        /\ LetGo(c) /\ UNCHANGED attempts
        /\ status' = [status EXCEPT ![held[c]] = "pending"]
    BY <1>7, LeaseOf DEF FailMessage, Settle, Delivered
  <2>2. DoneMap' = DoneMap \ {held[c]}
    BY <2>1 DEF DoneMap, QueueInv, TypeOK
  <2>3. ~failures => held[c] \notin DoneMap
    BY <2>1 DEF DoneMap, QueueInv, Agree
  <2> QED
    BY <2>1, <2>2, <2>3, LettingGo, LeaseOf DEF Jobs!GiveBack
<1>8. ASSUME NEW c \in Consumers, failures, CompleteErrs(c)
      PROVE  Jobs!Unnoticed(c) \/ UNCHANGED Jobs!vars
  <2>1. /\ at[c] \in Delivered /\ held[c] \in Messages /\ at'[c] \in Delivered
        /\ UNCHANGED <<attempts, held, attempt, conditions>>
        /\ status' \in {status, [status EXCEPT ![held[c]] = "completed"]}
        /\ \A d \in Consumers : at'[d] \in Delivered <=> at[d] \in Delivered
    BY <1>8, LeaseOf DEF CompleteErrs, Settle, table, Delivered, QueueInv, TypeOK
  <2>2. DoneMap' = DoneMap \cup {held[c]} \/ DoneMap' = DoneMap
    BY <2>1 DEF DoneMap, QueueInv, TypeOK
  <2>3. LeasedMap' = LeasedMap /\ NumberMap' = NumberMap
    BY <2>1 DEF LeasedMap, NumberMap
  <2> QED
    BY <1>8, <2>1, <2>2, <2>3, LeaseOf DEF Jobs!Unnoticed, Jobs!vars, conditions
<1>9. ASSUME NEW c \in Consumers, failures, FailErrs(c)
      PROVE  Jobs!GiveBack(c) \/ Jobs!Unnoticed(c) \/ UNCHANGED Jobs!vars
  <2>1. /\ at[c] \in Delivered /\ held[c] \in Messages /\ UNCHANGED attempts
        /\ status' \in {status, [status EXCEPT ![held[c]] = "pending"]}
        /\ UNCHANGED <<at, held, attempt, conditions>> \/ LetGo(c)
    BY <1>9, LeaseOf DEF FailErrs, Settle, table, Delivered
  <2>2. DoneMap' = DoneMap \ {held[c]} \/ DoneMap' = DoneMap
    BY <2>1 DEF DoneMap, QueueInv, TypeOK
  <2>3. CASE LetGo(c)
    BY <1>9, <2>1, <2>2, <2>3, LettingGo, LeaseOf DEF Jobs!GiveBack
  <2>4. CASE UNCHANGED <<at, held, attempt, conditions>>
    <3>1. LeasedMap' = LeasedMap /\ NumberMap' = NumberMap
      BY <2>4 DEF LeasedMap, NumberMap
    <3> QED
      BY <1>9, <2>1, <2>2, <2>4, <3>1, LeaseOf DEF Jobs!Unnoticed, Jobs!vars, conditions
  <2> QED
    BY <2>1, <2>3, <2>4
<1>10. ASSUME NEW c \in Consumers, at[c] # "idle", LetGo(c), UNCHANGED DoneMap
       PROVE  /\ UNCHANGED attempts => Jobs!GiveBack(c) \/ UNCHANGED Jobs!vars
              /\ at[c] = "claiming" => UNCHANGED <<LeasedMap, NumberMap, conditions>>
  <2>1. CASE at[c] \in Delivered
    BY <1>10, <2>1, LettingGo DEF Jobs!GiveBack, Delivered
  <2>2. CASE at[c] \notin Delivered
    <3>1. /\ LeasedMap' = [LeasedMap EXCEPT ![c] = NoMessage]
          /\ NumberMap' = [NumberMap EXCEPT ![c] = 0]
      BY <1>10, OthersKeepLeases DEF LetGo, QueueInv, TypeOK, Delivered
    <3>2. LeasedMap[c] = NoMessage /\ NumberMap[c] = 0
      BY <2>2, LeaseOf
    <3>3. LeasedMap' = LeasedMap /\ NumberMap' = NumberMap
      BY <3>1, <3>2 DEF LeasedMap, NumberMap
    <3> QED
      BY <1>10, <3>3 DEF LetGo, conditions, Jobs!vars
  <2> QED
    BY <2>1, <2>2
<1>11. ASSUME NEW c \in Consumers, Crash(c)
       PROVE  Jobs!GiveBack(c) \/ UNCHANGED Jobs!vars
  BY <1>10, <1>11 DEF Crash, table, DoneMap
<1>12. ASSUME NEW c \in Consumers, failures, ClaimLost(c)
       PROVE  \E m \in Messages : Jobs!LeaseLost(m)
  <2>1. /\ at[c] = "claiming" /\ held[c] \in Messages /\ LetGo(c)
        /\ status[held[c]] = "pending"
        /\ status' = [status EXCEPT ![held[c]] = "claimed"]
        /\ attempts' = [attempts EXCEPT ![held[c]] = @ + 1]
    BY <1>12 DEF ClaimLost, QueueInv, TypeOK
  <2>2. DoneMap' = DoneMap /\ held[c] \notin DoneMap
    BY <2>1 DEF DoneMap, QueueInv, TypeOK
  <2>3. UNCHANGED <<LeasedMap, NumberMap, conditions>>
    BY <1>10, <2>1, <2>2
  <2> QED
    BY <1>12, <2>1, <2>2, <2>3 DEF Jobs!LeaseLost, conditions
<1> QED
  BY <1>1, <1>2, <1>3, <1>4, <1>5, <1>6, <1>7, <1>8, <1>9, <1>11, <1>12
  DEF Next, Proceed, Break, Jobs!Next

\* The queue keeps the promise of JobQueue, for any messages, queues and
\* consumers and whatever fails (ports/queue.ts:7-12).
THEOREM QueueImplementsJobQueue == Spec => ImplementsJobQueue
<1>1. Init => Jobs!Init
  BY QueueAssumption DEF Init, Jobs!Init, LeasedMap, NumberMap, DoneMap, Delivered
<1> QED
  BY <1>1, QueueStep, QueueInvariant, PTL DEF Spec, ImplementsJobQueue, Jobs!Spec
=============================================================================
