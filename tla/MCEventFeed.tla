---------------------------- MODULE MCEventFeed ----------------------------
(* An instance of EventFeed: an unbuffered channel, like those of the      *)
(* filter system, beside one with a buffer of one value.                   *)
EXTENDS EventFeed, TLC

CONSTANTS a, c, p, q

MCCap == [s \in Subs |-> IF s = c THEN 1 ELSE 0]
=============================================================================
