------------------------------- MODULE MCApi -------------------------------
(* The TLC instance of Api: two UIDs and two names, strings as the segments  *)
(* of a path are.                                                            *)
EXTENDS Api

MCUids == {"u1", "u2"}
MCNames == {"n1", "n2"}
=============================================================================
