---------------------------- MODULE MCMeasurement ----------------------------
(***************************************************************************)
(* Instances of the measurement for TLC: a second of ten nanoseconds, the  *)
(* last of which slips, and an NTP era that ends while a test runs.        *)
(***************************************************************************)
EXTENDS Measurement

ClockOffsets == {-3, 0, 14}
FewTrips == {<<1, 0, 2>>, <<3, 2, 1>>, <<2, 1, 4>>}
=============================================================================
