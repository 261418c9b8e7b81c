----------------------------- MODULE MCInformer -----------------------------
(* The TLC instance of Informer: two workers, one of them stored before the  *)
(* informer starts.                                                          *)
EXTENDS Informer, TLC

CONSTANTS w1, w2
Workers == (w1 :> 1) @@ (w2 :> None)
=============================================================================
