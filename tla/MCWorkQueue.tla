---------------------------- MODULE MCWorkQueue ----------------------------
(* TLC instance of WorkQueue; the constants are model values of the cfg.   *)
EXTENDS WorkQueue
=============================================================================
