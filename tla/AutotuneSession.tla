-------------------------- MODULE AutotuneSession --------------------------
(***************************************************************************)
(* AutotuneRun as a specification: any sequence of calls its one owner, the *)
(* control task, can make.                                                 *)
(***************************************************************************)
EXTENDS AutotuneRun

VARIABLE run

Init == run = NoRun

Start == run' = Started
Cancel == run' = Cancelled(run)
Update == \E valid \in BOOLEAN : run' \in Updates(run, valid)

Next == Start \/ Cancel \/ Update
Spec == Init /\ [][Next]_run
=============================================================================
