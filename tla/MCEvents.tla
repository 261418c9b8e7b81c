------------------------------ MODULE MCEvents ------------------------------
(* Two messages of which the second makes the events combined, and a spam  *)
(* filter that lets one of them pass at a time.                                      *)
EXTENDS Events
=============================================================================
