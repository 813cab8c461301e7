------------------------------ MODULE LoopLife ------------------------------
(***************************************************************************)
(* What an event loop promises to the code that runs it, whatever it has   *)
(* registered and whatever its callbacks and its peer do: it goes on until *)
(* a deadline has passed, then through an overtime, and only then returns  *)
(* Ok; an error may end it at any time.  Without a deadline it may go on   *)
(* for ever.                                                               *)
(***************************************************************************)

VARIABLES
    stage,   \* "setup", "running", "overtime", "ok" or "failed"
    due      \* a deadline has passed

lifeVars == <<stage, due>>

LifeInit == stage = "setup" /\ due = FALSE

Start == stage = "setup" /\ stage' = "running" /\ due' = due

PassDeadline ==
    /\ stage \in {"setup", "running", "overtime"} /\ ~due
    /\ due' = TRUE
    /\ stage' = stage

BeginOvertime == stage = "running" /\ due /\ stage' = "overtime" /\ due' = due

ReturnOk == stage = "overtime" /\ stage' = "ok" /\ due' = due

Fail == stage \in {"running", "overtime"} /\ stage' = "failed" /\ due' = due

LifeNext == Start \/ PassDeadline \/ BeginOvertime \/ ReturnOk \/ Fail

\* The safety part of the promise.
LifeSafe == LifeInit /\ [][LifeNext]_lifeVars

\* A deadline that has passed is acted upon, and an overtime ends.
Life ==
    /\ LifeSafe
    /\ WF_lifeVars(BeginOvertime)
    /\ WF_lifeVars(stage = "overtime" /\ (ReturnOk \/ Fail))
=============================================================================
