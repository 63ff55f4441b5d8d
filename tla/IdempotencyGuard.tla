--------------------------- MODULE IdempotencyGuard ---------------------------
(***************************************************************************)
(* The idempotency guard of the server's push handler, for one pair of     *)
(* client id and idempotency key.                                          *)
(*                                                                         *)
(* The unique index of sync_batch_requests leaves room for one row per     *)
(* pair: `slot`.  Several requests run the guard at once, each a sequence  *)
(* of database statements committed one by one: an action per statement.   *)
(* A retry by the client is another request.  Times are reduced to their   *)
(* order: the n-th value written to created_at is n, and the first         *)
(* `elapsed` of them are older than pendingTimeoutMs (and than the limits  *)
(* of the cleanup, which are taken to be longer).                          *)
(***************************************************************************)
EXTENDS Naturals, FiniteSets

CONSTANTS
    Requests,  \* push requests that carry this client id and key
    Body,      \* the hash of each request's body
    Aging,     \* when created_at may become stale: "never", "idle" (only when
               \* no request works under the row) or "always"
    CleansPending \* TRUE: the cleanup is given stalePendingOlderThanMs

ASSUME GuardAssumption ==
    /\ IsFiniteSet(Requests)
    /\ Requests \cap {"none", "error"} = {}
    /\ DOMAIN Body = Requests
    /\ Aging \in {"never", "idle", "always"}
    /\ CleansPending \in BOOLEAN

VARIABLES
    slot,      \* the row of sync_batch_requests, or NoRow
    picked,    \* ids of rows a cleanup has selected and will delete
    stamps,    \* number of times created_at was written
    elapsed,   \* how many of those times are past every time limit
    pc,        \* the next statement of each request
    saw,       \* the row each request has read
    answer,    \* the run whose response a request was answered with
    ran,       \* history: requests whose callback committed its changes
    reclaimed, \* history: requests that took over a pending row
    cleaned    \* history: ids of rows deleted by a cleanup

table   == <<slot, picked>>
time    == <<stamps, elapsed>>
history == <<ran, reclaimed, cleaned>>
vars    == <<table, time, pc, saw, answer, history>>

(* A row's id is the request that inserted it: a request inserts at most   *)
(* one, and ids are not reused.                                            *)
None  == "none"
NoRow == [status |-> "absent"]
Row   == [status: {"pending", "completed"}, id: Requests, hash: {Body[q] : q \in Requests},
          resp: Requests \cup {None}, createdAt: Nat]

Init ==
    /\ slot = NoRow
    /\ picked = {}
    /\ stamps = 0
    /\ elapsed = 0
    /\ pc = [q \in Requests |-> "load"]
    /\ saw = [q \in Requests |-> NoRow]
    /\ answer = [q \in Requests |-> None]
    /\ ran = {}
    /\ reclaimed = {}
    /\ cleaned = {}

Goto(q, where) == pc' = [pc EXCEPT ![q] = where]

(* How a request ends: with the response of a run, or with a 409.          *)
AnswerWith(q, run) == Goto(q, "answered") /\ answer' = [answer EXCEPT ![q] = run]
Refuse(q) == Goto(q, "refused") /\ UNCHANGED answer

-----------------------------------------------------------------------------
(***************************************************************************)
(* runGuard, statement by statement.                                       *)
(***************************************************************************)
Load(q) ==
    /\ pc[q] = "load"
    /\ saw' = [saw EXCEPT ![q] = slot]
    /\ Goto(q, IF slot = NoRow THEN "reserve" ELSE "resolve")
    /\ UNCHANGED <<table, time, answer, history>>

(* Mutant: the hash of a completed row is not compared.                    *)
ReplaysAny(q, r) == r.status = "completed"

(* The stored response answers a request with the same body.               *)
Replays(q, r) == r.status = "completed" /\ r.hash = Body[q]

(* resolveExistingRow on a row that ends the request.                      *)
Resolve(q) ==
    /\ pc[q] = "resolve"
    /\ \/ Replays(q, saw[q]) /\ AnswerWith(q, saw[q].resp)
       \/ saw[q].status = "completed" /\ ~Replays(q, saw[q]) /\ Refuse(q)
       \/ saw[q].status = "pending" /\ saw[q].createdAt > elapsed /\ Refuse(q)
    /\ UNCHANGED <<table, time, saw, history>>

(* Mutant: a row that is not there any more is inserted without its id.    *)
ReclaimInserts(q) ==
    /\ pc[q] = "resolve"
    /\ saw[q].status = "pending"
    /\ saw[q].createdAt <= elapsed
    /\ stamps' = stamps + 1
    /\ slot' = [status |-> "pending", id |-> IF slot = NoRow THEN None ELSE slot.id,
                hash |-> saw[q].hash, resp |-> None, createdAt |-> stamps']
    /\ reclaimed' = reclaimed \cup {q}
    /\ Goto(q, "run")
    /\ UNCHANGED <<picked, elapsed, saw, answer, ran, cleaned>>

(* A stale pending row is taken over by an UPDATE that looks at the key    *)
(* alone: it hits whatever row is there by now, or none.  The hash stays   *)
(* that of the request that inserted the row.                              *)
Reclaim(q) ==
    /\ pc[q] = "resolve"
    /\ saw[q].status = "pending"
    /\ saw[q].createdAt <= elapsed
    /\ stamps' = stamps + 1
    /\ slot' = IF slot = NoRow THEN NoRow
               ELSE [slot EXCEPT !.status = "pending", !.resp = None, !.createdAt = stamps']
    /\ reclaimed' = reclaimed \cup {q}
    /\ Goto(q, "run")
    /\ UNCHANGED <<picked, elapsed, saw, answer, ran, cleaned>>

(* Mutant: the INSERT replaces a row that is there.                        *)
ReserveReplaces(q) ==
    /\ pc[q] = "reserve"
    /\ stamps' = stamps + 1
    /\ slot' = [status |-> "pending", id |-> q, hash |-> Body[q], resp |-> None,
                createdAt |-> stamps']
    /\ Goto(q, "run")
    /\ UNCHANGED <<picked, elapsed, saw, answer, history>>

Reserve(q) ==
    /\ pc[q] = "reserve"
    /\ slot = NoRow
    /\ stamps' = stamps + 1
    /\ slot' = [status |-> "pending", id |-> q, hash |-> Body[q], resp |-> None,
                createdAt |-> stamps']
    /\ Goto(q, "run")
    /\ UNCHANGED <<picked, elapsed, saw, answer, history>>

(* The INSERT hits the unique index, or fails for a reason of its own.     *)
ReserveFails(q) ==
    /\ pc[q] = "reserve"
    /\ Goto(q, "reload")
    /\ UNCHANGED <<table, time, saw, answer, history>>

(* What is there now decides; with nothing there the error is rethrown.    *)
Reload(q) ==
    /\ pc[q] = "reload"
    /\ \/ Replays(q, slot) /\ AnswerWith(q, slot.resp)
       \/ slot # NoRow /\ ~Replays(q, slot) /\ Refuse(q)
       \/ slot = NoRow /\ Goto(q, "failed") /\ UNCHANGED answer
    /\ UNCHANGED <<table, time, saw, history>>

(* Mutant: the result is stored before the changes are committed.          *)
RunCommitsLater(q) ==
    /\ pc[q] = "run"
    /\ Goto(q, "finalize")
    /\ UNCHANGED <<table, time, saw, answer, history>>

(* applyPushChanges commits its changes, or throws and leaves nothing: the *)
(* callback runs in one transaction.                                       *)
RunCommits(q) ==
    /\ pc[q] = "run"
    /\ ran' = ran \cup {q}
    /\ Goto(q, "finalize")
    /\ UNCHANGED <<table, time, saw, answer, reclaimed, cleaned>>

(* Mutant: the callback writes its rows one by one, without a transaction, *)
(* and throws after some of them.                                          *)
RunThrowsHalfway(q) ==
    /\ pc[q] = "run"
    /\ ran' = ran \cup {q}
    /\ Goto(q, "delete")
    /\ UNCHANGED <<table, time, saw, answer, reclaimed, cleaned>>

RunThrows(q) ==
    /\ pc[q] = "run"
    /\ Goto(q, "delete")
    /\ UNCHANGED <<table, time, saw, answer, history>>

(* deletePendingRow goes by the key, whoever owns the row by now; its own  *)
(* error is swallowed.                                                     *)
DeletePending(q, ok) ==
    /\ pc[q] = "delete"
    /\ slot' = IF ok THEN NoRow ELSE slot
    /\ Goto(q, "failed")
    /\ UNCHANGED <<picked, time, saw, answer, history>>

Finalize(q) ==
    /\ pc[q] = "finalize"
    /\ slot' = IF slot = NoRow THEN NoRow
               ELSE [slot EXCEPT !.status = "completed", !.resp = q]
    /\ AnswerWith(q, q)
    /\ UNCHANGED <<picked, time, saw, history>>

(* The server goes down, or a statement of the request throws.             *)
Dies(q) ==
    /\ pc[q] \in {"resolve", "reserve", "reload", "run", "delete", "finalize"}
    /\ Goto(q, "failed")
    /\ UNCHANGED <<table, time, saw, answer, history>>

-----------------------------------------------------------------------------
(***************************************************************************)
(* Time and cleanupSyncBatchRequests.                                      *)
(***************************************************************************)
Working == {q \in Requests : pc[q] \in {"run", "delete", "finalize"}}

TimePasses ==
    /\ elapsed < stamps
    /\ \/ Aging = "always"
       \/ Aging = "idle" /\ (slot # NoRow /\ slot.createdAt = elapsed + 1 => Working = {})
    /\ elapsed' = elapsed + 1
    /\ UNCHANGED <<table, stamps, pc, saw, answer, history>>

Cleanable(r) ==
    /\ r # NoRow
    /\ r.createdAt <= elapsed
    /\ r.status = "completed" \/ CleansPending

(* Without a limit the DELETE repeats the condition.                       *)
Cleanup ==
    /\ Cleanable(slot)
    /\ slot' = NoRow
    /\ cleaned' = cleaned \cup {slot.id}
    /\ UNCHANGED <<picked, time, pc, saw, answer, ran, reclaimed>>

(* With a limit the rows are selected first, then deleted by id, whatever  *)
(* has become of them.                                                     *)
CleanupSelect ==
    /\ Cleanable(slot)
    /\ picked' = picked \cup {slot.id}
    /\ UNCHANGED <<slot, time, pc, saw, answer, history>>

CleanupDelete ==
    /\ slot # NoRow
    /\ slot.id \in picked
    /\ slot' = NoRow
    /\ cleaned' = cleaned \cup {slot.id}
    /\ UNCHANGED <<picked, time, pc, saw, answer, ran, reclaimed>>

-----------------------------------------------------------------------------
Guard(q) ==
    \/ Load(q) \/ Resolve(q) \/ Reclaim(q) \/ Reserve(q) \/ ReserveFails(q) \/ Reload(q)
    \/ RunCommits(q) \/ RunThrows(q) \/ Finalize(q)
    \/ \E ok \in BOOLEAN : DeletePending(q, ok)

Next ==
    \/ \E q \in Requests : Guard(q) \/ Dies(q)
    \/ TimePasses \/ Cleanup \/ CleanupSelect \/ CleanupDelete

Spec == Init /\ [][Next]_vars
-----------------------------------------------------------------------------
(***************************************************************************)
(* Properties.                                                             *)
(***************************************************************************)
TypeOK ==
    /\ slot \in Row \cup {NoRow}
    /\ picked \subseteq Requests
    /\ stamps \in Nat /\ elapsed \in 0..stamps
    /\ pc \in [Requests -> {"load", "resolve", "reserve", "reload", "run", "delete",
                            "finalize", "answered", "refused", "failed"}]
    /\ saw \in [Requests -> Row \cup {NoRow}]
    /\ answer \in [Requests -> Requests \cup {None}]
    /\ ran \subseteq Requests /\ reclaimed \subseteq Requests /\ cleaned \subseteq Requests

(* A push takes effect once, and once more for each time a row was taken   *)
(* over as stale or removed by a cleanup: no interleaving of retries,      *)
(* failures and crashes runs the callback of runGuard again for free.      *)
OnceUnlessExcused == Cardinality(ran) <= 1 + Cardinality(reclaimed) + Cardinality(cleaned)

(* The same with what is still to come: a callback that has started and a  *)
(* row that is not there each count for one run more.                      *)
Starting == {q \in Requests : pc[q] \in {"run", "delete"}}
Vacant == IF slot = NoRow THEN 1 ELSE 0
RunsBounded == Cardinality(ran) + Cardinality(Starting) + Vacant
                  <= 1 + Cardinality(reclaimed) + Cardinality(cleaned)
HistoryInOrder ==
    \A q \in Requests :
        /\ pc[q] \in {"load", "resolve", "reserve", "reload", "run"} => q \notin ran
        /\ pc[q] \in {"load", "resolve", "reserve", "reload"} => q \notin reclaimed
        /\ pc[q] \in {"load", "reserve"} => q \notin cleaned
SlotNotCleaned ==
    slot # NoRow => slot.id \notin cleaned /\ pc[slot.id] \notin {"load", "reserve"}
RunsInv == RunsBounded /\ HistoryInOrder /\ SlotNotCleaned

(* A response, fresh or replayed to a retry, is that of a callback whose   *)
(* changes are committed.                                                  *)
AnswersAreRuns ==
    /\ \A q \in Requests : answer[q] # None => answer[q] \in ran
    /\ slot # NoRow /\ slot.status = "completed" => slot.resp \in ran

(* While no row was taken over or cleaned up, an answer is the response to *)
(* the same body.                                                          *)
Unexcused == reclaimed = {} /\ cleaned = {}
OwnAnswerUnlessExcused ==
    Unexcused =>
        \A q \in Requests : answer[q] # None => Body[answer[q]] = Body[q]

(* What the guard promises until a pending row is taken over as stale or a *)
(* row is cleaned up: requests that fail, die, wait or retry, rows that    *)
(* age and a cleanup that has chosen its rows change nothing about it.     *)
EffectOf == IF ran = {} THEN None ELSE CHOOSE q \in ran : TRUE
ReplyTo == [q \in Requests |-> IF pc[q] = "answered" THEN answer[q]
                               ELSE IF pc[q] \in {"refused", "failed"} THEN "error" ELSE None]
Excused == ~Unexcused
Promise == INSTANCE AtMostOnce WITH effect <- EffectOf, reply <- ReplyTo, void <- Excused
AtMostOnceSpec == Promise!Spec

(* Why: until then the request that works under the row is the one that    *)
(* inserted it, the effect is that request's, and a completed row never    *)
(* changes, so that a copy of it is as good as the row.                    *)
OwnerWorks == \A q \in Working : slot # NoRow /\ slot.status = "pending" /\ slot.id = q
EffectIsOwners ==
    /\ slot = NoRow => ran = {}
    /\ slot # NoRow => slot.hash = Body[slot.id]
    /\ slot # NoRow /\ slot.status = "pending" =>
          /\ ran \subseteq {slot.id}
          /\ pc[slot.id] \in {"run", "delete"} => ran = {}
          /\ pc[slot.id] = "finalize" => ran = {slot.id}
    /\ slot # NoRow /\ slot.status = "completed" => slot.resp = slot.id /\ ran = {slot.id}
CopiesHold ==
    \A q \in Requests : saw[q] # NoRow /\ saw[q].status = "completed" => saw[q] = slot
PromptInv == Unexcused => OwnerWorks /\ EffectIsOwners /\ CopiesHold

-----------------------------------------------------------------------------
(***************************************************************************)
(* Promises of the documentation that the code does not keep.              *)
(***************************************************************************)
(* idempotency.mdx: the stored response is returned "if completed with     *)
(* matching hash", so it is the response to that body.                     *)
AnsweredForOwnBody ==
    \A q \in Requests : answer[q] # None => Body[answer[q]] = Body[q]
=============================================================================
