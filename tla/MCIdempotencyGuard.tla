-------------------------- MODULE MCIdempotencyGuard --------------------------
(* Instances of IdempotencyGuard: a push that is retried with its own body *)
(* and with the body of a later edit.                                      *)
EXTENDS IdempotencyGuard, TLC

CONSTANTS q1, q2, q3

SameBody == [q \in Requests |-> "first"]
TwoBodies == [q \in Requests |-> IF q \in {q1, q3} THEN "first" ELSE "edited"]
=============================================================================
