---------------------------- MODULE SandboxProofs ----------------------------
(***************************************************************************)
(* SandboxInv is inductive, for any exit codes of the sandboxed command    *)
(* and any exit code for a timeout.                                        *)
(* What a code says is settled when the command line exits, and stays so:  *)
(* a container that has not started by then never will if nothing is on    *)
(* the wire, and one that is removed never runs again.                     *)
(***************************************************************************)
EXTENDS SandboxRunner, TLAPS

LEMMA InitSandbox == Init => SandboxInv
BY CodesAssumption DEF Init, SandboxInv, TypeOK, Untouched, InStep, CodeIsTrue, Settled, Over,
                       Live

\* One callback of the Node process.
LEMMA NodeKeeps == SandboxInv /\ Node => SandboxInv'
<1> SUFFICES ASSUME SandboxInv, Node PROVE SandboxInv'
  OBVIOUS
<1> USE CodesAssumption DEF Live
<1>1. CASE Spawn \/ SpawnFails \/ SpawnThrows
  BY <1>1 DEF Spawn, SpawnFails, SpawnThrows, SandboxInv, TypeOK, Untouched, InStep,
              CodeIsTrue, Settled, Over
<1>2. CASE Error
  BY <1>2 DEF Error, ClearTimer, SandboxInv, TypeOK, Untouched, InStep, CodeIsTrue, Settled,
              Over
<1>3. CASE TimerFires
  BY <1>3 DEF TimerFires, SandboxInv, TypeOK, Untouched, InStep, CodeIsTrue, Settled, Over
<1>4. CASE Kill
  <2>1. CASE cli \in Live
    BY <1>4, <2>1 DEF Kill, SandboxInv, TypeOK, Untouched, InStep, CodeIsTrue, Settled, Over
  <2>2. CASE cli \notin Live
    BY <1>4, <2>2 DEF Kill, SandboxInv, TypeOK, Untouched, InStep, CodeIsTrue, Settled, Over
  <2> QED
    BY <2>1, <2>2
<1>5. CASE Close
  <2>1. /\ cli = "exited"
        /\ (result' = TimeoutExitCode /\ timer' = "fired") \/ result' = code
        /\ UNCHANGED <<cli, code, wire, container, ended, rm>>
        /\ timer' = timer \/ (timer = "armed" /\ timer' = "cleared")
    BY <1>5 DEF Close, ClearTimer
  <2>2. TypeOK' /\ Untouched' /\ InStep' /\ CodeIsTrue'
    BY <2>1 DEF SandboxInv, TypeOK, Untouched, InStep, CodeIsTrue
  <2>3. Settled' /\ Over'
    BY <2>1 DEF SandboxInv, Settled, Over
  <2> QED
    BY <2>2, <2>3 DEF SandboxInv
<1> QED
  BY <1>1, <1>2, <1>3, <1>4, <1>5 DEF Node

\* One step of the command line, the daemon or the container.
LEMMA DockerKeeps == SandboxInv /\ Docker => SandboxInv'
<1> SUFFICES ASSUME SandboxInv, Docker PROVE SandboxInv'
  OBVIOUS
<1> USE CodesAssumption DEF Live
<1>1. CASE Refuse
  <2>1. CASE cli \in Live
    BY <1>1, <2>1 DEF Refuse, CliExits, SandboxInv, TypeOK, Untouched, InStep, CodeIsTrue,
                      Settled, Over
  <2>2. CASE cli \notin Live
    BY <1>1, <2>2 DEF Refuse, SandboxInv, TypeOK, Untouched, InStep, CodeIsTrue, Settled, Over
  <2> QED
    BY <2>1, <2>2
<1>2. CASE Create \/ SendStart
  BY <1>2 DEF Create, SendStart, SandboxInv, TypeOK, Untouched, InStep, CodeIsTrue, Settled,
              Over
<1>3. CASE Start
  BY <1>3 DEF Start, SandboxInv, TypeOK, Untouched, InStep, CodeIsTrue, Settled, Over
<1>4. CASE CommandEnds
  BY <1>4 DEF CommandEnds, SandboxInv, TypeOK, Untouched, InStep, CodeIsTrue, Settled, Over
<1>5. CASE PassOn
  BY <1>5 DEF PassOn, CliExits, SandboxInv, TypeOK, Untouched, InStep, CodeIsTrue, Settled,
              Over
<1>6. CASE CliDies
  BY <1>6 DEF CliDies, CliExits, SandboxInv, TypeOK, Untouched, InStep, CodeIsTrue, Settled,
              Over
<1>7. CASE Remove
  BY <1>7 DEF Remove, SandboxInv, TypeOK, Untouched, InStep, CodeIsTrue, Settled, Over, Killed
<1>8. CASE RemoveFails
  BY <1>8 DEF RemoveFails, SandboxInv, TypeOK, Untouched, InStep, CodeIsTrue, Settled, Over
<1> QED
  BY <1>1, <1>2, <1>3, <1>4, <1>5, <1>6, <1>7, <1>8 DEF Docker

LEMMA StepSandbox == SandboxInv /\ [Next]_vars => SandboxInv'
<1>1. SandboxInv /\ UNCHANGED vars => SandboxInv'
  BY DEF vars, SandboxInv, TypeOK, Untouched, InStep, CodeIsTrue, Settled, Over
<1> QED
  BY <1>1, NodeKeeps, DockerKeeps DEF Next

\* Whatever the command, the command line and the daemon do, and whenever the
\* timer and the removal come in: the inductive invariant of one run.
THEOREM SandboxInvariant == Spec => []SandboxInv
BY InitSandbox, StepSandbox, PTL DEF Spec

\* An exit code the runner reports is the timeout's after a timeout, one of 125,
\* 126 and 127 with nothing running, or the command's own: for any codes a
\* command may exit with, and any timeoutExitCode.
THEOREM AnswersTruly == Spec => []AnswerIsTrue
<1>1. SandboxInv => AnswerIsTrue
  <2> SUFFICES ASSUME SandboxInv PROVE AnswerIsTrue
    OBVIOUS
  <2>1. CASE cli = "exited" /\ result = code
    BY <2>1, CodesAssumption DEF SandboxInv, InStep, CodeIsTrue, AnswerIsTrue
  <2>2. CASE cli \in {"none", "unspawned"} /\ result \in {Rejected, -1}
    <3>1. code = NotYet
      BY <2>2 DEF SandboxInv, Untouched
    <3> QED
      BY <2>2, <3>1 DEF AnswerIsTrue
  <2> QED
    BY <2>1, <2>2 DEF SandboxInv, Settled, AnswerIsTrue
<1> QED
  BY <1>1, SandboxInvariant, PTL

\* Once `docker rm -f` was handled after the command line was gone, the
\* container never runs again.
THEOREM OverrunsStayStopped == Spec => []StoppedForGood
<1>1. SandboxInv => StoppedForGood
  BY DEF SandboxInv, Over, StoppedForGood
<1> QED
  BY <1>1, SandboxInvariant, PTL
=============================================================================
