---------------------------- MODULE MCHandshake ----------------------------
(* Instances of Handshake for TLC.                                         *)
EXTENDS Handshake

EveryTiming == SUBSET AllTiming
NoStagger == {{"role_first", "long_sleep"}}
=============================================================================
