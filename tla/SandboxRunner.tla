--------------------------- MODULE SandboxRunner ---------------------------
(***************************************************************************)
(* One call of DockerSandboxRunner.run: the Node process that spawns the   *)
(* docker command line and waits for it, the command line and the daemon   *)
(* it talks to, the container, and the timer that ends the run.  Every run *)
(* has a container name of its own, so runs do not meet.  The command line *)
(* and the daemon are not in the repository: they are modelled from how    *)
(* run uses them, `docker run --rm --name` and `docker rm -f`.             *)
(***************************************************************************)
EXTENDS Integers

CONSTANTS
    Codes,      \* the exit codes the sandboxed command may end with
    TimeoutExitCode,    \* options.timeoutExitCode, 124 if not given
    NotYet,     \* no answer, no exit code
    Rejected    \* the promise was rejected

\* What `docker run` exits with when there is no container for it, or the
\* container's command cannot be invoked or found, and when its container was
\* removed under it.
Refused == {125, 126, 127}
Killed == 137

ASSUME CodesAssumption ==
    /\ Codes \subseteq 0 .. 255 /\ TimeoutExitCode \in Int
    /\ NotYet \notin Int /\ Rejected \notin Int /\ NotYet # Rejected

VARIABLES
    cli,        \* the `docker run` process: "none", "unspawned", "creating",
                \* "starting", "waiting" (for the container), "exited"
    code,       \* its exit code; -1 stands for none: a signal ended it
    wire,       \* what it asked for and the daemon has not handled: "nothing",
                \* "create", "start"
    container,  \* as the daemon knows it: "none", "created", "running", "removed"
    ended,      \* the exit code of the sandboxed command
    timer,      \* "off", "armed", "firing", "fired", "cleared"; timedOut is
                \* "firing" or "fired"
    rm,         \* the `docker rm -f` the timer spawns: "none", "sent",
                \* "handled", "early", "failed"
    result      \* the exit code the promise resolved to

vars == <<cli, code, wire, container, ended, timer, rm, result>>

Live == {"creating", "starting", "waiting"}

Init ==
    /\ cli = "none"
    /\ code = NotYet
    /\ wire = "nothing"
    /\ container = "none"
    /\ ended = NotYet
    /\ timer = "off"
    /\ rm = "none"
    /\ result = NotYet

-----------------------------------------------------------------------------
(* run: one event-loop callback per action *)

\* The child process starts, with or without a timeout to its run.
Spawn ==
    /\ cli = "none" /\ result = NotYet
    /\ cli' = "creating"
    /\ wire' = "create"
    /\ timer' \in {"off", "armed"}
    /\ UNCHANGED <<code, container, ended, rm, result>>

\* There is no docker binary: the "error" event is on its way.
SpawnFails ==
    /\ cli = "none" /\ result = NotYet
    /\ cli' = "unspawned"
    /\ timer' \in {"off", "armed"}
    /\ UNCHANGED <<code, wire, container, ended, rm, result>>

\* spawn throws, or leaves a child without pipes: the promise is rejected
\* before there is a timer.
SpawnThrows ==
    /\ cli = "none" /\ result = NotYet
    /\ result' = Rejected
    /\ UNCHANGED <<cli, code, wire, container, ended, timer, rm>>

ClearTimer == timer' = IF timer = "armed" THEN "cleared" ELSE timer

\* "error": it precedes every timer.
Error ==
    /\ cli = "unspawned" /\ result = NotYet
    /\ ClearTimer
    /\ result' = -1
    /\ UNCHANGED <<cli, code, wire, container, ended, rm>>

\* Mutant: only the command line is killed.
TimerSparesContainer ==
    /\ timer = "armed" /\ cli # "unspawned"
    /\ timer' = "firing"
    /\ UNCHANGED <<cli, code, wire, container, ended, rm, result>>

\* The timeout, first half: timedOut is set and `docker rm -f` spawned, which
\* runs beside the callback or fails unnoticed.
TimerFires ==
    /\ timer = "armed" /\ cli # "unspawned"
    /\ timer' = "firing"
    /\ rm' \in {"sent", "failed"}
    /\ UNCHANGED <<cli, code, wire, container, ended, result>>

\* Mutant: only the container is removed.
KillNobody ==
    /\ timer = "firing"
    /\ timer' = "fired"
    /\ UNCHANGED <<cli, code, wire, container, ended, rm, result>>

\* Second half: SIGKILL to the command line, if it is still there.
Kill ==
    /\ timer = "firing"
    /\ timer' = "fired"
    /\ IF cli \in Live THEN cli' = "exited" /\ code' = -1
                       ELSE UNCHANGED <<cli, code>>
    /\ UNCHANGED <<wire, container, ended, rm, result>>

\* Mutant: an exit without a code counts as success.
CloseAsSuccess ==
    /\ cli = "exited" /\ result = NotYet /\ timer # "firing"
    /\ ClearTimer
    /\ result' = IF timer = "fired" THEN TimeoutExitCode
                 ELSE IF code = -1 THEN 0 ELSE code
    /\ UNCHANGED <<cli, code, wire, container, ended, rm>>

\* "close": the command line has exited and its pipes are drained.
Close ==
    /\ cli = "exited" /\ result = NotYet /\ timer # "firing"
    /\ ClearTimer
    /\ result' = IF timer = "fired" THEN TimeoutExitCode ELSE code
    /\ UNCHANGED <<cli, code, wire, container, ended, rm>>

-----------------------------------------------------------------------------
(* The command line, the daemon and the container *)

CliExits(c) == cli' = "exited" /\ code' = c

\* The daemon refuses a request: no such image, no such container, no such
\* command in it, no daemon.
Refuse ==
    /\ wire # "nothing"
    /\ wire' = "nothing"
    /\ IF cli \in Live THEN \E c \in Refused : CliExits(c)
                       ELSE UNCHANGED <<cli, code>>
    /\ UNCHANGED <<container, ended, timer, rm, result>>

\* A request is handled whether or not its sender is still alive.
Create ==
    /\ wire = "create"
    /\ wire' = "nothing"
    /\ container' = "created"
    /\ UNCHANGED <<cli, code, ended, timer, rm, result>>

SendStart ==
    /\ cli = "creating" /\ wire = "nothing"
    /\ cli' = "starting"
    /\ wire' = "start"
    /\ UNCHANGED <<code, container, ended, timer, rm, result>>

Start ==
    /\ wire = "start" /\ container = "created"
    /\ wire' = "nothing"
    /\ container' = "running"
    /\ cli' = IF cli = "starting" THEN "waiting" ELSE cli
    /\ UNCHANGED <<code, ended, timer, rm, result>>

\* The command ends and --rm removes its container.
CommandEnds ==
    /\ container = "running"
    /\ ended' \in Codes
    /\ container' = "removed"
    /\ UNCHANGED <<cli, code, wire, timer, rm, result>>

PassOn ==
    /\ cli = "waiting" /\ container = "removed"
    /\ CliExits(ended)
    /\ UNCHANGED <<wire, container, ended, timer, rm, result>>

\* Somebody else ends the command line; the container does not notice.
CliDies ==
    /\ cli \in Live
    /\ CliExits(-1)
    /\ UNCHANGED <<wire, container, ended, timer, rm, result>>

\* `docker rm -f` reaches the daemon: "early" while the command line lives,
\* which may then create and start the container after all.
Remove ==
    /\ rm = "sent"
    /\ rm' = IF cli \in Live THEN "early" ELSE "handled"
    /\ container' = IF container = "none" THEN "none" ELSE "removed"
    /\ ended' = IF container = "running" THEN Killed ELSE ended
    /\ UNCHANGED <<cli, code, wire, timer, result>>

RemoveFails ==
    /\ rm = "sent"
    /\ rm' = "failed"
    /\ UNCHANGED <<cli, code, wire, container, ended, timer, result>>

-----------------------------------------------------------------------------
Node == Spawn \/ SpawnFails \/ SpawnThrows \/ Error \/ TimerFires \/ Kill \/ Close

Docker ==
    \/ Refuse \/ Create \/ SendStart \/ Start \/ CommandEnds \/ PassOn
    \/ CliDies \/ Remove \/ RemoveFails

Next == Node \/ Docker

Spec == Init /\ [][Next]_vars

\* The event loop runs what is due, and a `docker rm` that was spawned is
\* done with some day.  Nothing is assumed of `docker run`, its daemon and the
\* command: they may hang.
Fairness ==
    /\ WF_vars(Error) /\ WF_vars(TimerFires) /\ WF_vars(Kill) /\ WF_vars(Close)
    /\ WF_vars(Remove \/ RemoveFails)

FairSpec == Spec /\ Fairness

-----------------------------------------------------------------------------
(* Properties *)

\* An exit code is the command's own, which is over, unless it is the timeout's,
\* of a run that was out of time, or one of 125, 126 and 127, which may be
\* docker's own answer instead: at least nothing is running.  -1 is all the
\* runner says when it does not know.
AnswerIsTrue ==
    \/ result \in {NotYet, Rejected}
    \/ result = -1 /\ code \in {NotYet, -1}
    \/ result = TimeoutExitCode /\ timer = "fired"
    \/ result = ended /\ container # "running"
    \/ result \in Refused /\ container # "running"

\* A run with a timeout is answered, even if docker hangs in every step.
TimedRunsAnswer == timer = "armed" ~> result # NotYet

\* Untrusted code does not outlive its time: when the timer has fired, the
\* command soon runs no more and never again - whatever the daemon had still
\* to handle for the killed command line - unless `docker rm` fails or gets to
\* the daemon before the command line is killed.
OverrunsAreStopped ==
    timer = "fired" ~> \/ [](container # "running")
                       \/ rm \in {"failed", "early"}

\* A container whose removal was handled after the command line was gone never
\* runs again: the safety half of OverrunsAreStopped.
StoppedForGood == rm = "handled" => container # "running"

TypeOK ==
    /\ cli \in {"none", "unspawned", "exited"} \cup Live
    /\ code \in Codes \cup Refused \cup {NotYet, -1, Killed}
    /\ wire \in {"nothing", "create", "start"}
    /\ container \in {"none", "created", "running", "removed"}
    /\ ended \in Codes \cup {NotYet, Killed}
    /\ timer \in {"off", "armed", "firing", "fired", "cleared"}
    /\ rm \in {"none", "sent", "handled", "early", "failed"}
    /\ result \in Codes \cup Refused \cup {NotYet, Rejected, -1, Killed, TimeoutExitCode}

\* Before the command line runs, and without one, nothing has happened.
Untouched ==
    cli \in {"none", "unspawned"} =>
        /\ wire = "nothing" /\ container = "none" /\ ended = NotYet
        /\ code = NotYet
        /\ timer \notin {"firing", "fired"}
        /\ cli = "none" => timer = "off"

\* What the daemon has still to handle, and where the container can be.
InStep ==
    /\ wire = "create" => container = "none"
    /\ wire = "start" => container \in {"created", "removed"} /\ cli # "creating"
    /\ cli = "creating" /\ wire = "nothing" => container \in {"created", "removed"}
    /\ cli = "waiting" => wire = "nothing" /\ container \in {"running", "removed"}
    /\ container = "running" => wire = "nothing" /\ cli # "creating"
    /\ ended # NotYet => container = "removed"
    /\ cli = "waiting" /\ container = "removed" => ended # NotYet

\* What an exit code says.
CodeIsTrue ==
    cli = "exited" =>
        \/ code = -1
        \/ code \in Refused /\ container # "running" /\ wire = "nothing"
        \/ code = ended /\ ended # NotYet

\* What the promise was settled with.
Settled ==
    \/ result = NotYet
    \/ result = Rejected /\ cli = "none"
    \/ result = -1 /\ cli = "unspawned"
    \/ cli = "exited" /\ result = code
    \/ cli = "exited" /\ result = TimeoutExitCode /\ timer = "fired"

\* What a handled removal leaves for the daemon to do.
Over ==
    /\ rm # "none" => timer \in {"firing", "fired"}
    /\ rm = "handled" => /\ cli \notin Live /\ container # "running"
                         /\ wire = "start" => container = "removed"

\* The inductive invariant.
SandboxInv == TypeOK /\ Untouched /\ InStep /\ CodeIsTrue /\ Settled /\ Over
=============================================================================
