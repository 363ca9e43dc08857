---------------------------- MODULE MCEventQueue ----------------------------
(* Instances of EventQueue: one task beside blocking threads, two tasks.    *)
EXTENDS EventQueue
=============================================================================
