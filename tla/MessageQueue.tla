---------------------------- MODULE MessageQueue ----------------------------
(***************************************************************************)
(* The Postgres queue (packages/adapters/src/queue): one table of messages *)
(* for every named queue, claimed FOR UPDATE SKIP LOCKED, completed and    *)
(* failed by id whatever their state.  The consumers are callers of the    *)
(* port: each claims from its own queue, works, and reports the outcome;   *)
(* one whose call to complete is answered with an error reports a failure. *)
(* A call may fail before it ran, or run and lose its answer; a consumer   *)
(* may crash with a message in its hands.                                  *)
(***************************************************************************)
EXTENDS Naturals

CONSTANTS
    Messages, Queues, Consumers,
    Serves,       \* the queue each consumer was made for
    NoMessage, NoQueue,
    Times,        \* bound: the readings of now() at an enqueue
    MaxAttempts   \* bound: a message claimed so often is neither failed nor claimed again

ASSUME QueueAssumption ==
    /\ NoMessage \notin Messages
    /\ NoQueue \notin Queues
    /\ Serves \in [Consumers -> Queues]
    /\ Times \subseteq Nat
    /\ MaxAttempts \in Nat

VARIABLES
    queue, status, attempts, createdAt,  \* the table; its other columns are not read
    at,      \* what each consumer is doing
    held,    \* the message it does it with
    attempt, \* the number of attempts it was told
    failures, \* may calls and consumers fail?
    retries   \* does a consumer repeat a call to fail that was not answered?

table == <<queue, status, attempts, createdAt>>

\* What no step changes.
conditions == <<failures, retries>>

vars == <<table, at, held, attempt, conditions>>

TypeOK ==
    /\ queue \in [Messages -> Queues \cup {NoQueue}]
    /\ status \in [Messages -> {"none", "pending", "claimed", "completed"}]
    /\ attempts \in [Messages -> Nat]
    /\ createdAt \in [Messages -> Nat]
    /\ at \in [Consumers -> {"idle", "claiming", "working", "completing", "failing"}]
    /\ held \in [Consumers -> Messages \cup {NoMessage}]
    /\ attempt \in [Consumers -> Nat]
    /\ {failures, retries} \subseteq BOOLEAN

Init ==
    /\ queue = [m \in Messages |-> NoQueue]
    /\ status = [m \in Messages |-> "none"]
    /\ attempts = [m \in Messages |-> 0]
    /\ createdAt = [m \in Messages |-> 0]
    /\ at = [c \in Consumers |-> "idle"]
    /\ held = [c \in Consumers |-> NoMessage]
    /\ attempt = [c \in Consumers |-> 0]
    /\ failures \in BOOLEAN
    /\ retries \in BOOLEAN

\* Statements that read the clock early may commit late: any order of times.
Enqueue(m, q, t) ==
    /\ status[m] = "none"
    /\ queue' = [queue EXCEPT ![m] = q]
    /\ status' = [status EXCEPT ![m] = "pending"]
    /\ createdAt' = [createdAt EXCEPT ![m] = t]
    /\ UNCHANGED <<attempts, at, held, attempt, conditions>>

\* Rows an update that has not committed has locked.
Locked == {held[c] : c \in {d \in Consumers : at[d] = "claiming"}}

Pending(c) == {m \in Messages : status[m] = "pending" /\ queue[m] = Serves[c]}

\* Mutant: FOR UPDATE left out.
ClaimableUnlocked(c) == Pending(c)

\* SKIP LOCKED.
Claimable(c) == Pending(c) \ Locked

\* order by created_at limit 1
Oldest(S) == {m \in S : \A n \in S : createdAt[m] <= createdAt[n]}

\* The subquery of claim picks a row and locks it.
Select(c, m) ==
    /\ at[c] = "idle"
    /\ m \in Oldest(Claimable(c))
    /\ attempts[m] < MaxAttempts
    /\ at' = [at EXCEPT ![c] = "claiming"]
    /\ held' = [held EXCEPT ![c] = m]
    /\ UNCHANGED <<table, attempt, conditions>>

\* Mutant: the attempt is counted where a message fails.
ClaimUncounted(c) ==
    /\ at[c] = "claiming"
    /\ status' = [status EXCEPT ![held[c]] = "claimed"]
    /\ attempt' = [attempt EXCEPT ![c] = attempts[held[c]]]
    /\ at' = [at EXCEPT ![c] = "working"]
    /\ UNCHANGED <<queue, attempts, createdAt, held, conditions>>

\* Mutant: the row stays pending.
ClaimLeavesPending(c) ==
    /\ at[c] = "claiming"
    /\ attempts' = [attempts EXCEPT ![held[c]] = @ + 1]
    /\ attempt' = [attempt EXCEPT ![c] = attempts[held[c]] + 1]
    /\ at' = [at EXCEPT ![c] = "working"]
    /\ UNCHANGED <<queue, status, createdAt, held, conditions>>

\* The update commits and claim answers with the message.
Claim(c) ==
    /\ at[c] = "claiming"
    /\ status' = [status EXCEPT ![held[c]] = "claimed"]
    /\ attempts' = [attempts EXCEPT ![held[c]] = @ + 1]
    /\ attempt' = [attempt EXCEPT ![c] = attempts[held[c]] + 1]
    /\ at' = [at EXCEPT ![c] = "working"]
    /\ UNCHANGED <<queue, createdAt, held, conditions>>

\* The caller's work is done, or went wrong.
Finish(c) ==
    /\ at[c] = "working"
    /\ \/ at' = [at EXCEPT ![c] = "completing"]
       \/ /\ attempts[held[c]] < MaxAttempts
          /\ at' = [at EXCEPT ![c] = "failing"]
    /\ UNCHANGED <<table, held, attempt, conditions>>

\* The consumer is through with its message.
LetGo(c) ==
    /\ at' = [at EXCEPT ![c] = "idle"]
    /\ held' = [held EXCEPT ![c] = NoMessage]
    /\ UNCHANGED <<attempt, conditions>>

\* An update by id: it waits for the row's lock and asks nothing else.
Settle(m, s) ==
    /\ m \notin Locked
    /\ status' = [status EXCEPT ![m] = s]
    /\ UNCHANGED <<queue, attempts, createdAt>>

Complete(c) ==
    /\ at[c] = "completing"
    /\ Settle(held[c], "completed")
    /\ LetGo(c)

\* Mutant: the message is not given back.
FailKeepsClaim(c) ==
    /\ at[c] = "failing"
    /\ Settle(held[c], "claimed")
    /\ LetGo(c)

FailMessage(c) ==
    /\ at[c] = "failing"
    /\ Settle(held[c], "pending")
    /\ LetGo(c)

\* A call to complete ends in an error, before or after the update: the
\* consumer calls fail.
CompleteErrs(c) ==
    /\ at[c] = "completing"
    /\ Settle(held[c], "completed") \/ UNCHANGED table
    /\ at' = [at EXCEPT ![c] = "failing"]
    /\ UNCHANGED <<held, attempt, conditions>>

\* A call to fail ends in an error, before or after the update.
FailErrs(c) ==
    /\ at[c] = "failing"
    /\ Settle(held[c], "pending") \/ UNCHANGED table
    /\ IF retries THEN UNCHANGED <<at, held, attempt, conditions>> ELSE LetGo(c)

\* The consumer dies, or its claim does: a row locked is as it was, a message
\* claimed stays claimed.
Crash(c) ==
    /\ at[c] # "idle"
    /\ LetGo(c)
    /\ UNCHANGED table

\* A claim that commits and loses its answer.
ClaimLost(c) ==
    /\ at[c] = "claiming"
    /\ status' = [status EXCEPT ![held[c]] = "claimed"]
    /\ attempts' = [attempts EXCEPT ![held[c]] = @ + 1]
    /\ LetGo(c)
    /\ UNCHANGED <<queue, createdAt>>

Proceed(c) == Claim(c) \/ Finish(c) \/ Complete(c) \/ FailMessage(c)

Break(c) ==
    /\ failures
    /\ CompleteErrs(c) \/ FailErrs(c) \/ Crash(c) \/ ClaimLost(c)

Next ==
    \/ \E m \in Messages, q \in Queues, t \in Times : Enqueue(m, q, t)
    \/ \E c \in Consumers :
         Proceed(c) \/ Break(c) \/ \E m \in Messages : Select(c, m)

Spec == Init /\ [][Next]_vars

\* Consumers poll their queue and carry on with what they claimed.
FairSpec ==
    /\ Spec
    /\ \A c \in Consumers :
         WF_vars(Proceed(c) \/ \E m \in Messages : Select(c, m))

-----------------------------------------------------------------------------
Delivered == {"working", "completing", "failing"}

\* "A claimed message must never be visible to a second claim() while it is
\* outstanding": no two consumers hold one message, unless a fail is repeated.
ExclusiveClaim ==
    ~(failures /\ retries) => \A c, d \in Consumers :
        c # d /\ held[c] # NoMessage => held[c] # held[d]

\* "complete() marks a message so it is never claimed again": so it is while no
\* call errs and no consumer crashes.
CompletedStays ==
    [][~failures => \A m \in Messages :
          status[m] = "completed" => status'[m] = "completed"]_vars

\* The queue keeps the promise of JobQueue, which implies the above: whatever fails,
\* only messages that are not completed are delivered, under numbers that grow;
\* to one consumer at a time, unless a fail is repeated; and what is completed
\* stays so while nothing errs.  No late complete or fail, which ask for the id
\* alone, and no row that a claim has locked makes an exception.
LeasedMap == [c \in Consumers |-> IF at[c] \in Delivered THEN held[c] ELSE NoMessage]

NumberMap == [c \in Consumers |-> IF at[c] \in Delivered THEN attempt[c] ELSE 0]

DoneMap == {m \in Messages : status[m] = "completed"}

Jobs == INSTANCE JobQueue WITH
    leases <- attempts, leased <- LeasedMap, number <- NumberMap, done <- DoneMap,
    exclusive <- ~(failures /\ retries), reliable <- ~failures

ImplementsJobQueue == Jobs!Spec

\* While nothing fails a message is claimed exactly while somebody has it.
Agree ==
    \A m \in Messages :
        status[m] = "claimed" <=>
            \E c \in Consumers : at[c] \in Delivered /\ held[c] = m

\* A message somebody works on is not there to be claimed.
HeldIsNotPending ==
    \A c \in Consumers : at[c] \in Delivered => status[held[c]] # "pending"

\* What holds whatever fails, and however consumers use complete and fail: two
\* holders of one message were told different attempts, none more than the row
\* has, so the number tells a late consumer from the present one.
AttemptsTellApart ==
    \A c, d \in Consumers :
        /\ at[c] \in Delivered => attempt[c] \in 1..attempts[held[c]]
        /\ c # d /\ {at[c], at[d]} \subseteq Delivered /\ held[c] = held[d]
           => attempt[c] # attempt[d]

\* Whoever works on a message serves the queue it was put into.
OwnQueue ==
    \A c \in Consumers : held[c] # NoMessage => queue[held[c]] = Serves[c]

\* What makes these inductive.
QueueInv ==
    /\ TypeOK
    /\ \A c \in Consumers : held[c] = NoMessage <=> at[c] = "idle"
    /\ \A c \in Consumers : at[c] = "claiming" => status[held[c]] = "pending"
    /\ \A c, d \in Consumers :
         c # d /\ at[c] = "claiming" /\ at[d] = "claiming" => held[c] # held[d]
    /\ \A m \in Messages : status[m] # "none" <=> queue[m] # NoQueue
    /\ OwnQueue
    /\ AttemptsTellApart
    /\ ExclusiveClaim
    /\ ~(failures /\ retries) => HeldIsNotPending
    /\ ~failures => Agree

\* A message is served in the end, wherever it stands in its queue and although
\* those before it fail and come back first, while no call errs.  No message
\* fails for ever: MaxAttempts bounds that; one that did would starve the rest.
EveryMessageServed ==
    \A m \in Messages : ~failures /\ status[m] = "pending" ~> status[m] = "completed"
=============================================================================
