----------------------------- MODULE MCEdgeDevice -----------------------------
(***************************************************************************)
(* An instance of EdgeDevice: a routine that switches on for two seconds,  *)
(* and one that just toggles.                                              *)
(***************************************************************************)
EXTENDS EdgeDevice

Pulse == [channel |-> 1, power |-> TRUE, toggle |-> FALSE, duration |-> 2, minute |-> 1]
Flip == [channel |-> 1, power |-> TRUE, toggle |-> TRUE, duration |-> 0, minute |-> 1]

PulseOnly == {Pulse}
PulseAndFlip == {Pulse, Flip}
TwoMinutes == {1, 2}
=============================================================================
