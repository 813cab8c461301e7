--------------------------- MODULE MCControlClient ---------------------------
(***************************************************************************)
(* Instances of the control client for TLC.                                *)
(***************************************************************************)
EXTENDS ControlClient

\* The worker's only call before run() sets the overtime.
WorkerProgram ==
    << [op |-> "set_overtime", spec |-> "oneshot", tok |-> 0] >>

WorkerOnly == [calls : {WorkerProgram}, sends : {MaxSends}]
NoMessages == {}
BothFamilies == {<<4, 4>>, <<4, 6>>}
=============================================================================
