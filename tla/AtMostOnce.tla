------------------------------ MODULE AtMostOnce ------------------------------
(***************************************************************************)
(* What the idempotency guard promises for one client id and key: one of   *)
(* the requests that carry it takes effect, at most once, and a request is *)
(* answered only with the response to its own body, or with an error.  The *)
(* promise is void once a row went stale and was given away or removed.    *)
(***************************************************************************)
CONSTANTS Requests, Body

VARIABLES
    effect,  \* the request whose changes are committed, or "none"
    reply,   \* what each request was told: a run's response, "error", or "none" yet
    void     \* TRUE: nothing is promised any more

Init ==
    /\ effect = "none"
    /\ reply = [q \in Requests |-> "none"]
    /\ void = FALSE

TakeEffect(q) ==
    /\ effect = "none"
    /\ reply[q] = "none"
    /\ effect' = q
    /\ UNCHANGED <<reply, void>>

Reply(q) ==
    /\ reply[q] = "none"
    /\ effect \in {p \in Requests : Body[p] = Body[q]}
    /\ reply' = [reply EXCEPT ![q] = effect]
    /\ UNCHANGED <<effect, void>>

Fail(q) ==
    /\ reply[q] = "none"
    /\ reply' = [reply EXCEPT ![q] = "error"]
    /\ UNCHANGED <<effect, void>>

(* What happens to the rest in this step and after it is not said.         *)
Void == void' = TRUE

Next == Void \/ \E q \in Requests : TakeEffect(q) \/ Reply(q) \/ Fail(q)

Spec == Init /\ [][Next]_<<effect, reply, void>>
=============================================================================
