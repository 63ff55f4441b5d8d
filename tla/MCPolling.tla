------------------------------- MODULE MCPolling -------------------------------
(* Instances of Polling: scripts of calls of a frontend and a window.      *)
EXTENDS Polling

CONSTANTS s1, s2, s3, p1, p2, u1, n1, b1

KindOf == [c \in Calls |-> CASE c \in {s1, s2, s3} -> "start" [] c \in {p1, p2} -> "stop"
                             [] c = u1 -> "pause" [] c = n1 -> "sync" [] c = b1 -> "blur"]

(* Two components that each start polling and stop it when their own start *)
(* has returned, without awaiting each other; the first starts it again.   *)
(* A pause, a sync and a blur fall among their calls.                      *)
TwoComponents ==
    [c \in Calls |-> CASE c = p1 -> {s1} [] c = p2 -> {s2} [] c = s3 -> {p1}
                       [] c = u1 -> {s2} [] c = n1 -> {s1} [] c = b1 -> {s3} [] OTHER -> {}]

(* Two starts at once, then a stop.                                        *)
StopAwaitsStarts == [c \in Calls |-> IF c = p1 THEN {s1, s2} ELSE {}]
=============================================================================
