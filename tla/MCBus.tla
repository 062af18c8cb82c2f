------------------------------- MODULE MCBus -------------------------------
(* A publisher and a subscriber that come to a latched topic together.       *)
EXTENDS InprocBus
=============================================================================
