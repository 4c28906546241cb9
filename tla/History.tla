------------------------------- MODULE History -------------------------------
(***************************************************************************)
(* What the repositories of versions promise together with revise          *)
(* (packages/core/src/ports/persona-repository.ts), with no writer, object *)
(* or statement in sight: versions are appended and never change, and each *)
(* one is the version before it, but for what was changed in it.  Only     *)
(* writers that go on from objects which were never saved or were refused  *)
(* (linear is false) may leave gaps or lose each other's changes.          *)
(* VersionStore implements this specification.                             *)
(***************************************************************************)
EXTENDS Naturals

CONSTANTS Versions, Fields, Rows, NoRow

VARIABLES history, linear

vars == <<history, linear>>

Init ==
    /\ history = [v \in Versions |-> NoRow]
    /\ linear \in BOOLEAN

Continues(row, v) ==
    v # 1 => /\ history[v - 1] # NoRow
             /\ \A f \in Fields \ row.changed :
                  row.content[f] = history[v - 1].content[f]

Save(v, row) ==
    /\ history[v] = NoRow
    /\ linear => Continues(row, v)
    /\ history' = [history EXCEPT ![v] = row]
    /\ UNCHANGED linear

Next == \E v \in Versions, row \in Rows : Save(v, row)

Spec == Init /\ [][Next]_vars
=============================================================================
