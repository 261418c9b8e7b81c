-------------------------- MODULE MCDelayingQueue --------------------------
(* TLC instance of DelayingQueue.                                          *)
EXTENDS DelayingQueue
=============================================================================
