---------------------------- MODULE MCTwampLight ----------------------------
(***************************************************************************)
(* Instances of TWAMP Light for TLC.                                       *)
(***************************************************************************)
EXTENDS TwampLight

CONSTANTS s1, t1, t2

OneSender == {s1}
OneTarget == <<t1>>

\* As in the sample configuration of the repository's README.
TwoTargets == <<t1, t2>>
=============================================================================
