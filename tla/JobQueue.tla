------------------------------ MODULE JobQueue ------------------------------
(***************************************************************************)
(* What a queue promises its consumers (packages/core/src/ports/queue.ts), *)
(* without rows, locks or statements: a message that is not done is leased *)
(* to a consumer, who finishes it or gives it back.  The leases of one     *)
(* message are numbered.  Two conditions no step changes say how much of   *)
(* this can be relied on: exclusive, one lease of a message at a time;     *)
(* reliable, what is done stays done and no lease gets lost.  MessageQueue *)
(* implements this specification.                                          *)
(***************************************************************************)
EXTENDS Naturals

CONSTANTS Messages, Consumers, NoMessage

VARIABLES
    leases,     \* how often each message was leased
    leased,     \* the message each consumer has on lease, or NoMessage
    number,     \* and the number of that lease
    done,       \* the messages that are finished
    exclusive, reliable

vars == <<leases, leased, number, done, exclusive, reliable>>

Init ==
    /\ leases = [m \in Messages |-> 0]
    /\ leased = [c \in Consumers |-> NoMessage]
    /\ number = [c \in Consumers |-> 0]
    /\ done = {}
    /\ exclusive \in BOOLEAN /\ reliable \in BOOLEAN
    /\ reliable => exclusive

Lease(c, m) ==
    /\ leased[c] = NoMessage
    /\ m \notin done
    /\ exclusive => \A d \in Consumers : leased[d] # m
    /\ leases' = [leases EXCEPT ![m] = @ + 1]
    /\ leased' = [leased EXCEPT ![c] = m]
    /\ number' = [number EXCEPT ![c] = leases[m] + 1]
    /\ UNCHANGED <<done, exclusive, reliable>>

\* The consumer never hears of it.
LeaseLost(m) ==
    /\ ~reliable
    /\ m \notin done
    /\ leases' = [leases EXCEPT ![m] = @ + 1]
    /\ UNCHANGED <<leased, number, done, exclusive, reliable>>

Ends(c) ==
    /\ leased[c] # NoMessage
    /\ leased' = [leased EXCEPT ![c] = NoMessage]
    /\ number' = [number EXCEPT ![c] = 0]
    /\ UNCHANGED <<leases, exclusive, reliable>>

Finish(c) ==
    /\ Ends(c)
    /\ done' = done \cup {leased[c]}

\* An unreliable consumer may give back what is done.
GiveBack(c) ==
    /\ Ends(c)
    /\ \/ UNCHANGED done
       \/ ~reliable /\ done' = done \ {leased[c]}

\* It finishes or gives back its message and does not know it.
Unnoticed(c) ==
    /\ ~reliable
    /\ leased[c] # NoMessage
    /\ done' \in {done \cup {leased[c]}, done \ {leased[c]}}
    /\ UNCHANGED <<leases, leased, number, exclusive, reliable>>

Next ==
    \/ \E c \in Consumers :
         \/ \E m \in Messages : Lease(c, m)
         \/ Finish(c) \/ GiveBack(c) \/ Unnoticed(c)
    \/ \E m \in Messages : LeaseLost(m)

Spec == Init /\ [][Next]_vars
=============================================================================
