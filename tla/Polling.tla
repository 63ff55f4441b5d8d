-------------------------------- MODULE Polling --------------------------------
(***************************************************************************)
(* The polling loop of the Tauri plugin and the commands around it.        *)
(*                                                                         *)
(* Commands are asynchronous tasks; they share the sync_in_progress flag   *)
(* and two slots, each behind an async mutex: the sender of the loop's     *)
(* control channel and the loop's join handle.  A loop is named by the     *)
(* start_polling call that spawned it.  The timer is always about to fire, *)
(* so the resets of next_tick are left out, and so are last_sync_at and    *)
(* the notification permit, which only wakes the loop as the timer does.   *)
(***************************************************************************)
EXTENDS Naturals, Sequences, FiniteSets

CONSTANTS
    Calls,  \* the calls made: commands of the frontend, window events
    Kind,   \* what each call is
    After,  \* the calls that must have returned before this one is made
    Cap     \* capacity of the control channel, 10 in the code

Kinds == {"start", "stop", "pause", "resume", "sync", "blur", "focus"}

ASSUME PollingAssumption ==
    /\ "none" \notin Calls
    /\ Kind \in [Calls -> Kinds]
    /\ After \in [Calls -> SUBSET Calls]
    /\ Cap \in Nat \ {0}

VARIABLES
    pc,         \* the next step of each call
    held,       \* the loop whose sender or handle a call has in hand
    syncing,    \* sync_in_progress
    paused,     \* poll_state.paused
    txSlot,     \* the loop whose sender poll_control_tx holds, or None
    txLock,     \* the call that holds the mutex of poll_control_tx, or None
    handleSlot, \* the loop whose handle poll_task_handle holds, or None
    handleLock, \* the call that holds the mutex of poll_task_handle, or None
    loop,       \* what each loop is doing
    queue,      \* the control messages on their way to each loop
    overlapped  \* history: the starts that ran at the same time as another
                \*          start that spawned a loop, or as a stop

calls == <<pc, held>>
tx    == <<txSlot, txLock>>
task  == <<handleSlot, handleLock>>
loops == <<loop, queue>>
vars  == <<calls, syncing, paused, tx, task, loops, overlapped>>

None == "none"
Alive(l) == loop[l] \in {"waiting", "syncing"}
Messages == {"pause", "resume", "stop", "syncCompleted"}

Init ==
    /\ pc = [c \in Calls |-> "begin"]
    /\ held = [c \in Calls |-> None]
    /\ syncing = FALSE
    /\ paused = FALSE
    /\ txSlot = None /\ txLock = None
    /\ handleSlot = None /\ handleLock = None
    /\ loop = [c \in Calls |-> "none"]
    /\ queue = [c \in Calls |-> <<>>]
    /\ overlapped = {}

(* A window event's handler returns when it has spawned the sending task.  *)
Returned(c) == pc[c] = "done" \/ (Kind[c] \in {"blur", "focus"} /\ pc[c] # "begin")

Called(c, kinds) == Kind[c] \in kinds /\ pc[c] = "begin" /\ \A d \in After[c] : Returned(d)

Goto(c, where) == pc' = [pc EXCEPT ![c] = where]
Hold(c, l) == held' = [held EXCEPT ![c] = l]

(* Mutant: a send does not wait for room.                                  *)
SendUnbounded(l, msg) ==
    IF loop[l] = "ended" THEN UNCHANGED queue
    ELSE queue' = [queue EXCEPT ![l] = Append(@, msg)]

(* A send waits for room; it fails at once when the loop is gone.          *)
Send(l, msg) ==
    IF loop[l] = "ended" THEN UNCHANGED queue
    ELSE Len(queue[l]) < Cap /\ queue' = [queue EXCEPT ![l] = Append(@, msg)]

-----------------------------------------------------------------------------
(***************************************************************************)
(* start_polling: a check, and much later the two slots.                   *)
(***************************************************************************)
(* A start between its check and its last slot, and a stop before its end. *)
Starting(c) == pc[c] \in {"unpause", "setTx", "setHandle"}
Stopping(c) == pc[c] \in {"sendStop", "takeHandle", "join"}
OverlappedBy(c) == {d \in Calls : Starting(d)} \cup
                   (IF \E d \in Calls : Starting(d) \/ Stopping(d) THEN {c} ELSE {})

(* Mutant: no check for a loop that is running.                            *)
StartAnyway(c) ==
    /\ Called(c, {"start"})
    /\ handleLock = None
    /\ Goto(c, "unpause") /\ loop' = [loop EXCEPT ![c] = "waiting"]
    /\ overlapped' = overlapped \cup OverlappedBy(c)
    /\ UNCHANGED <<held, syncing, paused, tx, task, queue>>

Start(c) ==
    /\ Called(c, {"start"})
    /\ handleLock = None
    /\ \/ handleSlot # None /\ Goto(c, "done") /\ UNCHANGED <<loop, overlapped>>
       \/ /\ handleSlot = None
          /\ Goto(c, "unpause")
          /\ loop' = [loop EXCEPT ![c] = "waiting"]
          /\ overlapped' = overlapped \cup OverlappedBy(c)
    /\ UNCHANGED <<held, syncing, paused, tx, task, queue>>

StartUnpauses(c) ==
    /\ pc[c] = "unpause"
    /\ paused' = FALSE
    /\ Goto(c, "setTx")
    /\ UNCHANGED <<held, syncing, tx, task, loops, overlapped>>

StartSetsTx(c) ==
    /\ pc[c] = "setTx"
    /\ txLock = None
    /\ txSlot' = c
    /\ Goto(c, "setHandle")
    /\ UNCHANGED <<held, syncing, paused, txLock, task, loops, overlapped>>

StartSetsHandle(c) ==
    /\ pc[c] = "setHandle"
    /\ handleLock = None
    /\ handleSlot' = c
    /\ Goto(c, "done")
    /\ UNCHANGED <<held, syncing, paused, tx, handleLock, loops, overlapped>>

-----------------------------------------------------------------------------
(***************************************************************************)
(* stop_polling: each `if let` keeps its mutex locked to its end.          *)
(***************************************************************************)
Stop(c) ==
    /\ Called(c, {"stop"})
    /\ txLock = None
    /\ IF txSlot = None THEN Goto(c, "takeHandle") /\ UNCHANGED <<held, tx>>
       ELSE Goto(c, "sendStop") /\ Hold(c, txSlot) /\ txLock' = c /\ txSlot' = None
    /\ overlapped' = overlapped \cup {d \in Calls : Starting(d)}
    /\ UNCHANGED <<syncing, paused, task, loops>>

(* Mutant: the message is sent only if there is room for it.               *)
StopTrySends(c) ==
    /\ pc[c] = "sendStop"
    /\ IF Len(queue[held[c]]) < Cap THEN Send(held[c], "stop") ELSE UNCHANGED queue
    /\ txLock' = None
    /\ Goto(c, "takeHandle")
    /\ UNCHANGED <<held, syncing, paused, txSlot, task, loop, overlapped>>

StopSends(c) ==
    /\ pc[c] = "sendStop"
    /\ Send(held[c], "stop")
    /\ txLock' = None
    /\ Goto(c, "takeHandle")
    /\ UNCHANGED <<held, syncing, paused, txSlot, task, loop, overlapped>>

StopTakesHandle(c) ==
    /\ pc[c] = "takeHandle"
    /\ handleLock = None
    /\ IF handleSlot = None THEN Goto(c, "reset") /\ UNCHANGED <<held, task>>
       ELSE Goto(c, "join") /\ Hold(c, handleSlot) /\ handleLock' = c /\ handleSlot' = None
    /\ UNCHANGED <<syncing, paused, tx, loops, overlapped>>

(* Mutant: the handle is dropped without waiting for the loop.             *)
StopDetaches(c) ==
    /\ pc[c] = "join"
    /\ handleLock' = None
    /\ Goto(c, "reset")
    /\ UNCHANGED <<held, syncing, paused, tx, handleSlot, loops, overlapped>>

StopJoins(c) ==
    /\ pc[c] = "join"
    /\ loop[held[c]] = "ended"
    /\ handleLock' = None
    /\ Goto(c, "reset")
    /\ UNCHANGED <<held, syncing, paused, tx, handleSlot, loops, overlapped>>

StopResets(c) ==
    /\ pc[c] = "reset"
    /\ paused' = FALSE
    /\ Goto(c, "done")
    /\ UNCHANGED <<held, syncing, tx, task, loops, overlapped>>

-----------------------------------------------------------------------------
(***************************************************************************)
(* pause_polling, resume_polling and the window events.                    *)
(***************************************************************************)
Control(c) ==
    /\ Called(c, {"pause", "resume"})
    /\ txLock = None
    /\ IF txSlot = None THEN Goto(c, "done") /\ UNCHANGED <<held, txLock>>
       ELSE Goto(c, "send") /\ Hold(c, txSlot) /\ txLock' = c
    /\ UNCHANGED <<syncing, paused, txSlot, task, loops, overlapped>>

ControlSends(c) ==
    /\ pc[c] = "send"
    /\ Send(held[c], IF Kind[c] = "pause" THEN "pause" ELSE "resume")
    /\ txLock' = None
    /\ Goto(c, "done")
    /\ UNCHANGED <<held, syncing, paused, txSlot, task, loop, overlapped>>

(* schedule_control_msg gives up when the mutex is taken; otherwise a task *)
(* of its own sends the message at some later time.                        *)
WindowEvent(c) ==
    /\ Called(c, {"blur", "focus"})
    /\ IF txLock # None \/ txSlot = None THEN Goto(c, "done") /\ UNCHANGED held
       ELSE Goto(c, "task") /\ Hold(c, txSlot)
    /\ UNCHANGED <<syncing, paused, tx, task, loops, overlapped>>

TaskSends(c) ==
    /\ pc[c] = "task"
    /\ Send(held[c], IF Kind[c] = "blur" THEN "pause" ELSE "resume")
    /\ Goto(c, "done")
    /\ UNCHANGED <<held, syncing, paused, tx, task, loop, overlapped>>

-----------------------------------------------------------------------------
(***************************************************************************)
(* sync_now, sync_push, sync_pull, sync_full_resync: the guard is dropped  *)
(* when the command returns, after the polling loop has been told.         *)
(***************************************************************************)
SyncCommand(c) ==
    /\ Called(c, {"sync"})
    /\ IF syncing THEN Goto(c, "done") ELSE Goto(c, "work")
    /\ syncing' = TRUE
    /\ UNCHANGED <<held, paused, tx, task, loops, overlapped>>

SyncFails(c) ==
    /\ pc[c] = "work"
    /\ syncing' = FALSE
    /\ Goto(c, "done")
    /\ UNCHANGED <<held, paused, tx, task, loops, overlapped>>

SyncSucceeds(c) ==
    /\ pc[c] = "work"
    /\ Goto(c, "notify")
    /\ UNCHANGED <<held, syncing, paused, tx, task, loops, overlapped>>

(* Mutant: with no loop to tell, the command returns past its guard.       *)
SyncNotifiesLeaks(c) ==
    /\ pc[c] = "notify"
    /\ txLock = None
    /\ IF txSlot = None THEN Goto(c, "done") /\ UNCHANGED <<held, syncing, txLock>>
       ELSE Goto(c, "notifySend") /\ Hold(c, txSlot) /\ txLock' = c /\ UNCHANGED syncing
    /\ UNCHANGED <<paused, txSlot, task, loops, overlapped>>

SyncNotifies(c) ==
    /\ pc[c] = "notify"
    /\ txLock = None
    /\ IF txSlot = None THEN Goto(c, "done") /\ syncing' = FALSE /\ UNCHANGED <<held, txLock>>
       ELSE Goto(c, "notifySend") /\ Hold(c, txSlot) /\ txLock' = c /\ UNCHANGED syncing
    /\ UNCHANGED <<paused, txSlot, task, loops, overlapped>>

SyncNotifySends(c) ==
    /\ pc[c] = "notifySend"
    /\ Send(held[c], "syncCompleted")
    /\ txLock' = None
    /\ syncing' = FALSE
    /\ Goto(c, "done")
    /\ UNCHANGED <<held, paused, txSlot, task, loop, overlapped>>

-----------------------------------------------------------------------------
(***************************************************************************)
(* The loop.                                                               *)
(***************************************************************************)
(* Timer or notification: skipped when paused or when a sync is running.   *)
Tick(l) ==
    /\ loop[l] = "waiting"
    /\ ~paused
    /\ ~syncing
    /\ syncing' = TRUE
    /\ loop' = [loop EXCEPT ![l] = "syncing"]
    /\ UNCHANGED <<calls, paused, tx, task, queue, overlapped>>

TickEnds(l) ==
    /\ loop[l] = "syncing"
    /\ syncing' = FALSE
    /\ loop' = [loop EXCEPT ![l] = "waiting"]
    /\ UNCHANGED <<calls, paused, tx, task, queue, overlapped>>

Receive(l) ==
    /\ loop[l] = "waiting"
    /\ queue[l] # <<>>
    /\ queue' = [queue EXCEPT ![l] = Tail(@)]
    /\ loop' = [loop EXCEPT ![l] = IF Head(queue[l]) = "stop" THEN "ended" ELSE @]
    /\ paused' = CASE Head(queue[l]) = "pause" -> TRUE
                   [] Head(queue[l]) = "resume" -> FALSE
                   [] OTHER -> paused
    /\ UNCHANGED <<calls, syncing, tx, task, overlapped>>

-----------------------------------------------------------------------------
Command(c) ==
    \/ Start(c) \/ StartUnpauses(c) \/ StartSetsTx(c) \/ StartSetsHandle(c)
    \/ Stop(c) \/ StopSends(c) \/ StopTakesHandle(c) \/ StopJoins(c) \/ StopResets(c)
    \/ Control(c) \/ ControlSends(c) \/ WindowEvent(c) \/ TaskSends(c)
    \/ SyncCommand(c) \/ SyncFails(c) \/ SyncSucceeds(c)
    \/ SyncNotifies(c) \/ SyncNotifySends(c)

Next == \E c \in Calls : Command(c) \/ Tick(c) \/ TickEnds(c) \/ Receive(c)

Spec == Init /\ [][Next]_vars

(* A step that a call in progress can take is taken in the end: mutexes    *)
(* are fair.  The loop's select! chooses at random, so a message is not    *)
(* passed over for ever.  Every call takes a few steps and sends one       *)
(* message, so what is fair to all is fair to each.  Nothing is assumed of *)
(* the syncs: an HTTP request has no timeout (see SyncsEnd).               *)
Fairness ==
    /\ SF_vars(\E c \in Calls : pc[c] \notin {"begin", "work"} /\ Command(c))
    /\ SF_vars(\E l \in Calls : Receive(l))

FairSpec == Spec /\ Fairness
-----------------------------------------------------------------------------
(***************************************************************************)
(* Properties.                                                             *)
(***************************************************************************)
TypeOK ==
    /\ pc \in [Calls -> {"begin", "unpause", "setTx", "setHandle", "sendStop", "takeHandle",
                         "join", "reset", "send", "task", "work", "notify", "notifySend",
                         "done"}]
    /\ held \in [Calls -> Calls \cup {None}]
    /\ syncing \in BOOLEAN /\ paused \in BOOLEAN
    /\ txSlot \in Calls \cup {None} /\ txLock \in Calls \cup {None}
    /\ handleSlot \in Calls \cup {None} /\ handleLock \in Calls \cup {None}
    /\ loop \in [Calls -> {"none", "waiting", "syncing", "ended"}]
    /\ queue \in [Calls -> Seq(Messages)]
    /\ \A l \in Calls : Len(queue[l]) <= Cap
    /\ overlapped \subseteq Calls

(* At most one sync runs, whatever loops and commands there are, and the   *)
(* flag is set exactly while one does: it is never left set behind.        *)
LoopSyncs(l) == loop[l] = "syncing"
CallSyncs(c) == pc[c] \in {"work", "notify", "notifySend"}
OneSyncAtATime ==
    /\ \A k, l \in Calls : LoopSyncs(k) /\ LoopSyncs(l) => k = l
    /\ \A c, d \in Calls : CallSyncs(c) /\ CallSyncs(d) => c = d
    /\ \A l, c \in Calls : ~(LoopSyncs(l) /\ CallSyncs(c))
    /\ syncing <=> \E c \in Calls : LoopSyncs(c) \/ CallSyncs(c)

(* What it rests on: a loop is spawned once, by a call in its first step.  *)
SpawnedOnce == \A c \in Calls : pc[c] = "begin" => loop[c] = "none"

Told(l) == \E i \in 1..Len(queue[l]) : queue[l][i] = "stop"

(* Of two loops at most one was started on its own, and the handle that    *)
(* getPollingStatus looks at is that of a loop that runs or that a stop is *)
(* about to take, whatever starts, stops and other calls are made and in   *)
(* whatever order: only starts that overlapped another start or a stop may *)
(* be left without a slot, or in the slot without a loop.                  *)
OneLoop ==
    /\ \A k, l \in Calls : Alive(k) /\ Alive(l) /\ k # l => {k, l} \cap overlapped # {}
    /\ handleSlot # None => \/ Alive(handleSlot)
                            \/ \E c \in Calls : pc[c] = "takeHandle"
                            \/ handleSlot \in overlapped

(* When a stop has returned, the loops of the starts that had returned     *)
(* before it was made have ended; and a stop waits, with the slot locked,  *)
(* only for a loop that has been told to end or that another stop is       *)
(* telling.  Loops of overlapped starts are excepted in both.              *)
StopStops ==
    \A c, l \in Calls : Kind[c] = "stop" /\ Alive(l) /\ l \notin overlapped =>
        /\ pc[c] = "done" => ~(Kind[l] = "start" /\ l \in After[c])
        /\ pc[c] = "join" /\ held[c] = l =>
              Told(l) \/ \E d \in Calls : pc[d] = "sendStop" /\ held[d] = l

(* If every sync ends, every call returns, no mutex, full channel or join  *)
(* making it wait for ever, unless a stop waits for the loop of an         *)
(* overlapped start.  (The calls are finitely many: if there is time and   *)
(* again none in progress, each has returned.)                             *)
SyncsEnd == []<>(\A c \in Calls : ~LoopSyncs(c) /\ pc[c] # "work")
NoneInProgress == \A c \in Calls : pc[c] \in {"begin", "done"}
WaitsForOverlapped == \E c \in Calls : pc[c] = "join" /\ held[c] \in overlapped
CommandsReturn == SyncsEnd => []<>(NoneInProgress \/ WaitsForOverlapped)

-----------------------------------------------------------------------------
(***************************************************************************)
(* A promise of the documentation that the code does not keep.             *)
(***************************************************************************)
(* polling.mdx: stopPolling "sends ControlMsg::Stop and awaits the task    *)
(* handle.  The loop exits cleanly."                                       *)
StopReturns ==
    SyncsEnd => \A c \in Calls : Kind[c] = "stop" => (Stopping(c) ~> pc[c] = "done")
=============================================================================
