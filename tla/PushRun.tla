-------------------------------- MODULE PushRun --------------------------------
(* One push after another, from the outbox of a device to the tables of the *)
(* server: the chunks that push.rs makes of the pending entries, the splits *)
(* of chunks that are too large, the request that is lost or answered, and  *)
(* the handler that checks the envelope, asks the idempotency guard and     *)
(* applies the changes row by row.  A handler whose client has gone works   *)
(* on beside the next one.                                                  *)
(*                                                                          *)
(* What other modules are about is one step here: the reads and the marks   *)
(* of the tables (ClientSync), the statements of the guard                  *)
(* (IdempotencyGuard).  A row travels as its version; a deletion is a       *)
(* version like another, and so is what a pull brings from another device   *)
(* between two pushes.  What other devices write and this one does not pull *)
(* is left out.  The server rejects no row, as in the Drizzle repository.   *)
EXTENDS Lists, FiniteSets, SequencesExt

CONSTANTS Rows, NumTables, TableOf,
          Size,        \* bytes that a version of a row takes in an envelope
          Overhead,    \* bytes of an envelope without rows
          LimitChoices,\* the limits of the engine and of the server; for each, the
                       \* bounds on changes after the first edit of each row, and on faults
          Handlers,    \* requests the server works on at once
          FirstEdits,  \* the rows, in the order in which they were first written
          MaxVersion   \* bound: changes of a row

ASSUME PushAssumption ==
    /\ NumTables \in Nat \ {0} /\ TableOf \in [Rows -> 1..NumTables]
    /\ Size \in [Rows \X (1..MaxVersion) -> Nat] /\ Overhead \in Nat
    /\ LimitChoices \subseteq [rows: Nat \ {0}, target: Nat, bytes: Nat, apiRows: Nat \ {0}, apiBytes: Nat,
                         edits: Nat, faults: Nat]
    /\ FirstEdits \in Seq(Rows) /\ ToSet(FirstEdits) = Rows /\ Len(FirstEdits) = Cardinality(Rows)
    /\ MaxVersion \in Nat \ {0}

VARIABLES limits,   \* max_push_rows, target_push_bytes, max_push_bytes, and the server's
          outbox,   \* the pending entries, by changed_at
          version,  \* the latest content of each row, by an edit or a pull
          pc, queue, answered, read, \* the engine's push: its next step, the chunks in its
                    \* deque, the units answered with 2xx in their order, the entries it read
          at,       \* the handler that has the request
          last,     \* how the last push ended, and over which chunk
          acked,    \* the version of each row that the device was told of
          handler,  \* the requests at the server
          batch,    \* sync_batch_requests: by key, a status, a body, and whether it is stale
          stored,   \* the version of each row in the server's table
          overtaken,\* history: rows of which a left-behind handler wrote an older version,
                    \* or completed a response nobody has written yet, since a handler
                    \* with a listening client, or another device, wrote them
          faults

device == <<outbox, version>>
push   == <<pc, queue, answered, read, at, last, acked>>
server == <<handler, batch, stored, overtaken>>
vars   == <<limits, device, push, server, faults>>

(* One row to push, with the id of its entry; at and of, its place among    *)
(* all units and where its first chunk began, are for the properties.       *)
Entry(r, id, v) == [row |-> r, id |-> <<r, id>>, ver |-> v]
Entries == [row: Rows, id: Rows \X (1..MaxVersion), ver: 1..MaxVersion]

Ids(units) == { u.id : u \in ToSet(units) }
InTable(units, t) == Keep(units, { u \in ToSet(units) : TableOf[u.row] = t })

(* The tables of an envelope; the hash of a body tells two of them apart.   *)
merge_pending_units(units) ==
    [ t \in 1..NumTables |->
        LET us == InTable(units, t) IN [i \in DOMAIN us |-> <<us[i].row, us[i].ver>>] ]

encoded_push_chunk_len(units) ==
    LET Upto[n \in 0..Len(units)] ==
            IF n = 0 THEN Overhead ELSE Upto[n - 1] + Size[units[n].row, units[n].ver]
    IN  Upto[Len(units)]

(* The server applies the tables in its own upsert order.                   *)
orderPushChanges(body) == FlattenSeq(body)

-----------------------------------------------------------------------------
(* The device.                                                              *)

(* Bound: changes after the first edit of each row.                         *)
ChangesLeft == FoldFunction(+, 0, version) < Cardinality(Rows) + limits.edits

(* Mutant: no unique index over the pending entries.                        *)
EditAppends(r) ==
    LET v == version[r] + 1
    IN  /\ v <= MaxVersion /\ ChangesLeft
        /\ version' = [version EXCEPT ![r] = v]
        /\ outbox' = Append(outbox, Entry(r, v, v))
        /\ UNCHANGED <<limits, push, server, faults>>

(* writeLocalChange: a pending entry keeps its id and gets a new time.      *)
Edit(r) ==
    LET old == { e \in ToSet(outbox) : e.row = r }
        v == version[r] + 1
    IN  /\ v <= MaxVersion /\ ChangesLeft
        /\ version' = [version EXCEPT ![r] = v]
        /\ \E e \in IF old = {} THEN { Entry(r, v, v) } ELSE { Entry(r, o.id[2], v) : o \in old } :
              outbox' = Append(Keep(outbox, ToSet(outbox) \ old), e)
        /\ UNCHANGED <<limits, push, server, faults>>

(* Between two pushes a pull replaces a row by a newer one, which another   *)
(* device has pushed: an entry that is pending keeps its id and its place,  *)
(* and what is pushed under it is from now on the row as pulled.            *)
Pull(r) ==
    LET v == version[r] + 1
    IN  /\ pc = "idle" /\ v <= MaxVersion /\ ChangesLeft
        /\ version' = [version EXCEPT ![r] = v]
        /\ outbox' = [i \in DOMAIN outbox |->
                          IF outbox[i].row = r THEN Entry(r, outbox[i].id[2], v) ELSE outbox[i]]
        /\ stored' = [stored EXCEPT ![r] = v]
        /\ overtaken' = overtaken \ {r}
        /\ UNCHANGED <<limits, push, handler, batch, faults>>

Fits(units) ==
    Len(units) <= limits.rows /\ encoded_push_chunk_len(units) <= limits.target

(* Where the chunk of each unit begins: where the chunk before it began if  *)
(* the unit still fits.                                                     *)
Begin(units) ==
    LET Of[n \in DOMAIN units] ==
            IF n > 1 /\ Fits(SubSeq(units, Of[n - 1], n)) THEN Of[n - 1] ELSE n
    IN  Of

(* The units with their places, and the places where a chunk begins.        *)
Placed(units, begin) ==
    [ n \in DOMAIN units |->
        [row |-> units[n].row, id |-> units[n].id, ver |-> units[n].ver, of |-> begin[n], at |-> n] ]
Starts(placed) == Keep([n \in DOMAIN placed |-> n], { n \in DOMAIN placed : placed[n].of = n })

chunk_pending_push_tables(placed, starts) ==
    [ i \in DOMAIN starts |-> Keep(placed, { u \in ToSet(placed) : u.of = starts[i] }) ]

Frame == UNCHANGED <<limits, device, server, faults>>

(* push reads the tables in upsert order and chunks what it finds.          *)
StartPush ==
    /\ pc = "idle" /\ outbox # <<>>
    /\ \E units \in {FlattenSeq([t \in 1..NumTables |-> InTable(outbox, t)])} :
       \E placed \in {Placed(units, Begin(units))} :
       \E starts \in {Starts(placed)} :
          queue' = chunk_pending_push_tables(placed, starts)
    /\ pc' = "loop" /\ read' = Ids(outbox) /\ answered' = <<>>
    /\ last' = [why |-> "none", chunk |-> <<>>]
    /\ UNCHANGED <<at, acked>> /\ Frame

EndPush(why, chunk) ==
    /\ pc' = "idle" /\ queue' = <<>> /\ answered' = <<>> /\ read' = {} /\ at' = {}
    /\ last' = [why |-> why, chunk |-> chunk]

(* Mutant: the second half begins one too late.                             *)
SplitLosesOne(chunk) ==
    LET mid == Len(chunk) \div 2
        first == SubSeq(chunk, 1, mid)
        second == SubSeq(chunk, mid + 2, Len(chunk))
    IN  Keep(<<second, first>>, {first, second} \ {<<>>})

(* Mutant: the middle is the end.                                           *)
SplitNothing(chunk) == <<chunk>>

(* Two push_fronts: the second half is popped next.                         *)
split_push_chunk_for_retry(chunk) ==
    LET mid == Len(chunk) \div 2
        first == SubSeq(chunk, 1, mid)
        second == SubSeq(chunk, mid + 1, Len(chunk))
    IN  Keep(<<second, first>>, {first, second} \ {<<>>})

(* Mutant: the halves are put at the back of the deque.                     *)
SplitToBack ==
    /\ queue' = Tail(queue) \o split_push_chunk_for_retry(Head(queue))
    /\ pc' = "loop" /\ at' = {} /\ UNCHANGED <<answered, read, last, acked>>

Split ==
    /\ queue' = split_push_chunk_for_retry(Head(queue)) \o Tail(queue)
    /\ pc' = "loop" /\ at' = {} /\ UNCHANGED <<answered, read, last, acked>>

(* Mutant: the target is taken for the limit.                               *)
OverTarget == encoded_push_chunk_len(Head(queue)) > limits.target

TooLarge == encoded_push_chunk_len(Head(queue)) > limits.bytes

NextChunk ==
    /\ pc = "loop" /\ queue # <<>>
    /\ \/ TooLarge /\ Len(Head(queue)) > 1 /\ Split
       \/ TooLarge /\ Len(Head(queue)) = 1 /\ EndPush("tooLarge", Head(queue)) /\ UNCHANGED acked
       \/ ~ TooLarge /\ pc' = "sent" /\ UNCHANGED <<queue, answered, read, at, last, acked>>
    /\ Frame

(* The response: a 413 splits the chunk, any other error ends the push with *)
(* nothing marked.                                                          *)
Answered(h) ==
    LET chunk == Head(queue)
        status == handler[h].status
    IN  /\ pc = "wait" /\ at = {h} /\ handler[h].pc = "answer"
        /\ \/ /\ status = 200
              /\ pc' = "loop" /\ queue' = Tail(queue) /\ answered' = answered \o chunk /\ at' = {}
              /\ UNCHANGED <<read, last, acked>>
           \/ status = 413 /\ Len(chunk) > 1 /\ Split
           \/ status = 413 /\ Len(chunk) = 1 /\ EndPush("tooLarge", chunk) /\ UNCHANGED acked
           \/ status \notin {200, 413} /\ EndPush(handler[h].why, chunk) /\ UNCHANGED acked
        /\ handler' = [handler EXCEPT ![h] = [pc |-> "free"]]
        /\ UNCHANGED <<limits, device, batch, stored, overtaken, faults>>

(* Every chunk was answered: the entries are marked synced by their ids, in *)
(* whatever version they are by now.                                        *)
MarkSynced ==
    /\ pc = "loop" /\ queue = <<>>
    /\ outbox' = Keep(outbox, { e \in ToSet(outbox) : e.id \notin Ids(answered) })
    /\ acked' = [ r \in Rows |-> IF \E u \in ToSet(answered) : u.row = r
                                 THEN (CHOOSE u \in ToSet(answered) : u.row = r).ver ELSE acked[r] ]
    /\ pc' = "idle" /\ last' = [why |-> "done", chunk |-> <<>>]
    /\ UNCHANGED <<queue, answered, read, at, limits, version, server, faults>>

Fault == faults < limits.faults /\ faults' = faults + 1

(* The connection breaks, or the application is closed, with a request on   *)
(* its way; the handler that has it, if one has, goes on.                   *)
LoseRequest ==
    /\ pc \in {"sent", "wait"} /\ Fault
    /\ EndPush("lost", Head(queue))
    /\ UNCHANGED <<limits, device, acked, server>>

-----------------------------------------------------------------------------
(* The server.                                                              *)

(* Mutant: the key is made of the tables.                                   *)
KeyOfTables(units) == { <<TableOf[u.row], 1>> : u \in ToSet(units) }

Key(units) == Ids(units)

RowCount(body) == Len(FlattenSeq(body))
ByteCount(units) == encoded_push_chunk_len(units)

(* What the handler answers with: its result, or the status of an error.    *)
getErrorStatus(why) ==
    CASE why = "tooMuch" -> 413
      [] why \in {"busy", "conflict"} -> 409
      [] OTHER -> 500
Answer(h, why) ==
    handler' = [handler EXCEPT ![h] =
        [pc |-> "answer", why |-> why,
         status |-> IF why \in {"applied", "replay"} THEN 200 ELSE getErrorStatus(why)]]

(* Mutant: the hash of the body is not compared.                            *)
AnyBody(key, body) == TRUE

(* Mutant: a pending key is never taken over.                               *)
NeverTimedOut(key) == FALSE

SameBody(key, body) == batch[key].body = body

TimedOut(key) == batch[key].stale

(* createPushHandler and the guard's first look at the key.  A key that is  *)
(* taken over keeps the body it was reserved with.                          *)
Handle(h) ==
    LET units == Head(queue)
        body == merge_pending_units(units)
        key == Key(units)
        Known == key \in DOMAIN batch
        Work == handler' = [handler EXCEPT ![h] =
                               [pc |-> "apply", key |-> key, left |-> orderPushChanges(body)]]
        TooMuch == ByteCount(units) > limits.apiBytes \/ RowCount(body) > limits.apiRows
    IN  /\ pc = "sent" /\ handler[h].pc = "free"
        /\ pc' = "wait" /\ at' = {h}
        /\ \/ TooMuch /\ Answer(h, "tooMuch") /\ UNCHANGED batch
           \/ /\ ~ TooMuch /\ ~ Known /\ Work
              /\ batch' = [k \in DOMAIN batch \cup {key} |->
                              IF k = key THEN [status |-> "pending", body |-> body, stale |-> FALSE] ELSE batch[k]]
           \/ /\ ~ TooMuch /\ Known /\ UNCHANGED batch
              /\ \/ batch[key].status = "completed" /\ SameBody(key, body) /\ Answer(h, "replay")
                 \/ batch[key].status = "completed" /\ ~ SameBody(key, body) /\ Answer(h, "conflict")
                 \/ batch[key].status = "pending" /\ ~ TimedOut(key) /\ Answer(h, "busy")
           \/ /\ ~ TooMuch /\ Known /\ batch[key].status = "pending" /\ TimedOut(key) /\ Work
              /\ batch' = [batch EXCEPT ![key].stale = FALSE]
        /\ UNCHANGED <<limits, device, queue, answered, read, last, acked, stored, overtaken, faults>>

LeftBehind(h) == h \notin at
ServerFrame == UNCHANGED <<limits, device, push>>

ApplyRow(h) ==
    /\ handler[h].pc = "apply" /\ handler[h].left # <<>>
    /\ LET r == Head(handler[h].left)[1]
           v == Head(handler[h].left)[2]
       IN  /\ stored' = [stored EXCEPT ![r] = v]
           /\ overtaken' = IF ~ LeftBehind(h) THEN overtaken \ {r}
                           ELSE IF v < stored[r] THEN overtaken \cup {r} ELSE overtaken
    /\ handler' = [handler EXCEPT ![h].left = Tail(@)]
    /\ ServerFrame /\ UNCHANGED <<batch, faults>>

(* A row cannot be written: the reservation goes, the rows before it stay.  *)
ApplyFails(h) ==
    /\ handler[h].pc = "apply" /\ handler[h].left # <<>> /\ Fault
    /\ batch' = [k \in DOMAIN batch \ {handler[h].key} |-> batch[k]]
    /\ Answer(h, "failed")
    /\ ServerFrame /\ UNCHANGED <<stored, overtaken>>

(* The rows that are not yet stored as the body under a key has them.       *)
Unwritten(key) ==
    { r \in Rows : key \in DOMAIN batch /\
                   \E v \in stored[r] + 1..MaxVersion : <<r, v>> \in ToSet(orderPushChanges(batch[key].body)) }

(* The response is stored under the key, if the key is still there.         *)
Complete(h) ==
    /\ handler[h].pc = "apply" /\ handler[h].left = <<>>
    /\ batch' = [k \in DOMAIN batch |->
                    IF k = handler[h].key THEN [batch[k] EXCEPT !.status = "completed", !.stale = FALSE]
                    ELSE batch[k]]
    /\ overtaken' = IF LeftBehind(h) THEN overtaken \cup Unwritten(handler[h].key) ELSE overtaken
    /\ Answer(h, "applied")
    /\ ServerFrame /\ UNCHANGED <<stored, faults>>

(* Nobody listens to the answer.                                            *)
Unheard(h) ==
    /\ handler[h].pc = "answer" /\ LeftBehind(h)
    /\ handler' = [handler EXCEPT ![h] = [pc |-> "free"]]
    /\ ServerFrame /\ UNCHANGED <<batch, stored, overtaken, faults>>

Crash ==
    /\ \E h \in Handlers : handler[h].pc # "free"
    /\ Fault
    /\ handler' = [h \in Handlers |-> [pc |-> "free"]]
    /\ IF at # {} THEN EndPush("lost", Head(queue)) /\ UNCHANGED acked ELSE UNCHANGED push
    /\ UNCHANGED <<limits, device, batch, stored, overtaken>>

(* pendingTimeoutMs passes.                                                 *)
Expire(key) ==
    /\ batch[key].status = "pending" /\ ~ batch[key].stale
    /\ batch' = [batch EXCEPT ![key].stale = TRUE]
    /\ ServerFrame /\ UNCHANGED <<handler, stored, overtaken, faults>>

-----------------------------------------------------------------------------
Init ==
    /\ limits \in LimitChoices
    /\ version = [r \in Rows |-> 1]
    /\ outbox = [i \in DOMAIN FirstEdits |-> Entry(FirstEdits[i], 1, 1)]
    /\ pc = "idle" /\ queue = <<>> /\ answered = <<>> /\ read = {} /\ at = {}
    /\ last = [why |-> "none", chunk |-> <<>>]
    /\ acked = [r \in Rows |-> 0]
    /\ handler = [h \in Handlers |-> [pc |-> "free"]]
    /\ batch = <<>>
    /\ stored = [r \in Rows |-> 0] /\ overtaken = {} /\ faults = 0

Engine == StartPush \/ NextChunk \/ MarkSynced \/ \E h \in Handlers : Answered(h)
Work(h) == Handle(h) \/ ApplyRow(h) \/ Complete(h) \/ Unheard(h)

Next ==
    \/ \E r \in Rows : Edit(r) \/ Pull(r)
    \/ Engine \/ LoseRequest \/ Crash
    \/ \E h \in Handlers : Work(h) \/ ApplyFails(h)
    \/ \E key \in DOMAIN batch : Expire(key)

(* The polling loop pushes again and again, requests are taken and handlers *)
(* run, and time passes.                                                    *)
Fairness ==
    /\ WF_vars(Engine)
    /\ WF_vars(\E h \in Handlers : Handle(h))
    /\ \A h \in Handlers : WF_vars(ApplyRow(h) \/ Complete(h)) /\ WF_vars(Unheard(h))
    /\ WF_vars(\E key \in DOMAIN batch : Expire(key))

Spec == Init /\ [][Next]_vars /\ Fairness
-----------------------------------------------------------------------------
(* Properties.                                                              *)

Units == [row: Rows, id: Rows \X (1..MaxVersion), ver: 1..MaxVersion, of: Nat \ {0}, at: Nat \ {0}]

TypeOK ==
    /\ outbox \in Seq(Entries) /\ version \in [Rows -> 1..MaxVersion]
    /\ pc \in {"idle", "loop", "sent", "wait"}
    /\ queue \in Seq(Seq(Units) \ {<<>>}) /\ answered \in Seq(Units)
    /\ pc \in {"sent", "wait"} => queue # <<>>
    /\ at \subseteq Handlers /\ (at # {}) = (pc = "wait")
    /\ last.why \in {"none", "done", "lost", "tooLarge", "busy", "conflict", "failed"}
    /\ acked \in [Rows -> 0..MaxVersion] /\ stored \in [Rows -> 0..MaxVersion]
    /\ \A h \in Handlers : handler[h].pc \in {"free", "apply", "answer"}
    /\ \A e, f \in ToSet(outbox) : e.row = f.row => e = f

(* A push that ends well leaves nothing pending of what it has read: no     *)
(* unit is lost in the deque however often chunks are split and put back    *)
(* (push.rs:404, 456).                                                      *)
SuccessIsComplete ==
    pc = "idle" /\ last.why = "done" => Ids(outbox) \cap read = {}

(* What the device was told is on the server is there, in that version or a *)
(* later one, through lost answers, replays, crashes and takeovers.  Only a *)
(* handler that its client had left behind can have written an older        *)
(* version over it, for nothing orders handlers of two keys, or answered    *)
(* for rows that the next holder of its key has not written.                *)
AcknowledgedIsStored ==
    \A r \in Rows : acked[r] <= stored[r] \/ r \in overtaken

(* Rows reach the server in the order of the entries, tables in upsert      *)
(* order; a row only overtakes rows of the chunk it was in when the chunk   *)
(* was split, for the second half goes first (push.rs:412, 464).            *)
OnlyHalvesOvertake ==
    \A i, j \in DOMAIN answered :
        i < j /\ answered[j].at < answered[i].at => answered[i].of = answered[j].of

(* A push is given up for a row that is too large only if that row, alone,  *)
(* is over the device's limit or the server's, not for the company it was   *)
(* in (push.rs:422, 443; service.ts:96).                                    *)
TooLargeIsTruthful ==
    last.why = "tooLarge" =>
        /\ Len(last.chunk) = 1
        /\ \/ encoded_push_chunk_len(last.chunk) > limits.bytes
           \/ encoded_push_chunk_len(last.chunk) > limits.apiBytes

(* The server refuses a key as used for another body only if the content of *)
(* a row has changed since the key was first used, by an edit or by a pull: *)
(* the key is made of entry ids, the entry keeps its id (push.rs:127), and  *)
(* the row is read when it is pushed (schema.rs:170-175).  A retry of what  *)
(* was read before is answered, in whatever order the entries are read.     *)
ConflictOnlyAfterChange ==
    last.why = "conflict" /\ Key(last.chunk) \in DOMAIN batch =>
        \E u \in ToSet(last.chunk) :
            u.ver > 1 /\ <<u.row, u.ver>> \notin ToSet(orderPushChanges(batch[Key(last.chunk)].body))

(* A push ends, however many halves it makes.                               *)
PushEnds == pc # "idle" ~> pc = "idle"

(* Once changes and faults are over, the outbox empties, unless a row that  *)
(* is too large or a key whose body has changed stops every push, which it  *)
(* does for good: a request in progress stops it only until it is stale.    *)
Drains == []<>(outbox = <<>> \/ last.why \in {"tooLarge", "conflict"})
=============================================================================
