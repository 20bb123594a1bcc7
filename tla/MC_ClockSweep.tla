---------------------------- MODULE MC_ClockSweep ----------------------------
(* ClockSweep on three frames, under either policy.                           *)
EXTENDS ClockSweep

ThreeFrames == 3
BothPolicies == {"clock", "replacer"}
=============================================================================
