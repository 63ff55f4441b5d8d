---------------------------- MODULE PollingProofs ----------------------------
(***************************************************************************)
(* Proofs about Polling, for any calls in any order of being made.         *)
(***************************************************************************)
EXTENDS Polling, TLAPS

(* The queue of a loop after a send is one of messages, and within bounds. *)
LEMMA SendTypes ==
  ASSUME TypeOK, NEW l \in Calls \cup {None}, NEW msg \in Messages, Send(l, msg)
  PROVE  /\ queue' \in [Calls -> Seq(Messages)]
         /\ \A k \in Calls : Len(queue'[k]) <= Cap
<1>1. CASE queue' = queue
  BY <1>1 DEF TypeOK
<1>2. CASE Len(queue[l]) < Cap /\ queue' = [queue EXCEPT ![l] = Append(@, msg)]
  <2>1. CASE l \in Calls
    <3>1. Append(queue[l], msg) \in Seq(Messages) /\ Len(Append(queue[l], msg)) = Len(queue[l]) + 1
      BY <2>1 DEF TypeOK
    <3>2. queue' \in [Calls -> Seq(Messages)]
      BY <1>2, <2>1, <3>1 DEF TypeOK
    <3>3. ASSUME NEW k \in Calls PROVE Len(queue'[k]) <= Cap
      <4>1. CASE k = l
        BY <1>2, <2>1, <3>1, <4>1, PollingAssumption DEF TypeOK
      <4>2. CASE k # l
        BY <1>2, <2>1, <4>2 DEF TypeOK
      <4>. QED  BY <4>1, <4>2
    <3>. QED  BY <3>2, <3>3
  <2>2. CASE l \notin Calls
    <3>1. queue' = queue
      BY <1>2, <2>2 DEF TypeOK
    <3>. QED  BY <3>1 DEF TypeOK
  <2>. QED  BY <2>1, <2>2
<1>. QED  BY <1>1, <1>2 DEF Send

(* The plugin keeps its types, and the control channel its capacity.       *)
THEOREM TypeCorrect == Spec => []TypeOK
<1>1. Init => TypeOK
  <2>. SUFFICES ASSUME Init PROVE TypeOK
    OBVIOUS
  <2>1. queue \in [Calls -> Seq(Messages)] /\ \A l \in Calls : Len(queue[l]) <= Cap
    <3>1. <<>> \in Seq(Messages) /\ Len(<<>>) = 0 /\ 0 <= Cap
      BY PollingAssumption
    <3>. QED  BY <3>1 DEF Init
  <2>. QED  BY <2>1 DEF Init, TypeOK
<1>2. TypeOK /\ [Next]_vars => TypeOK'
  <2>. SUFFICES ASSUME TypeOK, [Next]_vars PROVE TypeOK'
    OBVIOUS
  <2>. USE DEF calls, tx, task, loops, Goto, Hold
  <2>1. ASSUME NEW c \in Calls, Start(c) \/ StartUnpauses(c) \/ StartSetsTx(c) \/ StartSetsHandle(c)
        PROVE TypeOK'
    BY <2>1 DEF Start, StartUnpauses, StartSetsTx, StartSetsHandle, OverlappedBy, TypeOK
  <2>2. ASSUME NEW c \in Calls, Stop(c) \/ StopTakesHandle(c) \/ StopJoins(c) \/ StopResets(c)
        PROVE TypeOK'
    BY <2>2 DEF Stop, StopTakesHandle, StopJoins, StopResets, TypeOK
  <2>3. ASSUME NEW c \in Calls,
               StopSends(c) \/ ControlSends(c) \/ TaskSends(c) \/ SyncNotifySends(c)
        PROVE TypeOK'
    <3>1. \E msg \in Messages : Send(held[c], msg)
      BY <2>3 DEF StopSends, ControlSends, TaskSends, SyncNotifySends, Messages
    <3>2. /\ queue' \in [Calls -> Seq(Messages)]
          /\ \A k \in Calls : Len(queue'[k]) <= Cap
      BY <3>1, SendTypes DEF TypeOK
    <3>. QED  BY <2>3, <3>2 DEF StopSends, ControlSends, TaskSends, SyncNotifySends, TypeOK
  <2>4. ASSUME NEW c \in Calls, Control(c) \/ WindowEvent(c) PROVE TypeOK'
    BY <2>4 DEF Control, WindowEvent, TypeOK
  <2>5. ASSUME NEW c \in Calls,
               SyncCommand(c) \/ SyncFails(c) \/ SyncSucceeds(c) \/ SyncNotifies(c)
        PROVE TypeOK'
    BY <2>5 DEF SyncCommand, SyncFails, SyncSucceeds, SyncNotifies, TypeOK
  <2>6. ASSUME NEW l \in Calls, Tick(l) \/ TickEnds(l) PROVE TypeOK'
    BY <2>6 DEF Tick, TickEnds, TypeOK
  <2>7. ASSUME NEW l \in Calls, Receive(l) PROVE TypeOK'
    <3>1. /\ Tail(queue[l]) \in Seq(Messages)
          /\ Len(Tail(queue[l])) = Len(queue[l]) - 1
          /\ queue' = [queue EXCEPT ![l] = Tail(queue[l])]
      BY <2>7 DEF Receive, TypeOK
    <3>2. /\ queue' \in [Calls -> Seq(Messages)]
          /\ \A k \in Calls : Len(queue'[k]) <= Cap
      <4>1. queue' \in [Calls -> Seq(Messages)]
        BY <3>1 DEF TypeOK
      <4>2. ASSUME NEW k \in Calls PROVE Len(queue'[k]) <= Cap
        <5>1. CASE k = l
          BY <3>1, <5>1, PollingAssumption DEF TypeOK
        <5>2. CASE k # l
          BY <3>1, <5>2 DEF TypeOK
        <5>. QED  BY <5>1, <5>2
      <4>. QED  BY <4>1, <4>2
    <3>3. loop' \in [Calls -> {"none", "waiting", "syncing", "ended"}] /\ paused' \in BOOLEAN
      BY <2>7 DEF Receive, TypeOK
    <3>. QED  BY <2>7, <3>2, <3>3 DEF Receive, TypeOK
  <2>8. CASE UNCHANGED vars
    BY <2>8 DEF vars, TypeOK
  <2>. QED  BY <2>1, <2>2, <2>3, <2>4, <2>5, <2>6, <2>7, <2>8 DEF Next, Command
<1>. QED  BY <1>1, <1>2, PTL DEF Spec

(***************************************************************************)
(* The three facts of the induction: the flag, the loops and the commands  *)
(* change together or not at all.                                          *)
(***************************************************************************)
SyncInv == TypeOK /\ SpawnedOnce /\ OneSyncAtATime

LEMMA SyncInit == Init => SpawnedOnce /\ OneSyncAtATime
BY DEF Init, SpawnedOnce, OneSyncAtATime, LoopSyncs, CallSyncs

(* A step that moves a call between places where no sync runs, and no loop *)
(* into or out of one, and that leaves the flag alone.                     *)
LEMMA Elsewhere ==
  ASSUME SyncInv, syncing' = syncing,
         \A c \in Calls : CallSyncs(c)' <=> CallSyncs(c),
         \A l \in Calls : LoopSyncs(l)' <=> LoopSyncs(l)
  PROVE  OneSyncAtATime'
BY DEF SyncInv, OneSyncAtATime

(* A sync begins where none ran, and it is the only one.                   *)
LEMMA CallBegins ==
  ASSUME SyncInv, ~syncing, syncing' = TRUE, NEW b \in Calls,
         \A c \in Calls : CallSyncs(c)' <=> c = b,
         \A l \in Calls : LoopSyncs(l)' <=> LoopSyncs(l)
  PROVE  OneSyncAtATime'
BY DEF SyncInv, OneSyncAtATime

(* The sync that ends was the only one.                                    *)
LEMMA CallEnds ==
  ASSUME SyncInv, syncing' = FALSE, NEW b \in Calls, CallSyncs(b),
         \A c \in Calls : CallSyncs(c)' <=> CallSyncs(c) /\ c # b,
         \A l \in Calls : LoopSyncs(l)' <=> LoopSyncs(l)
  PROVE  OneSyncAtATime'
BY DEF SyncInv, OneSyncAtATime

LEMMA SyncStep ==
  ASSUME SyncInv, [Next]_vars
  PROVE  SpawnedOnce' /\ OneSyncAtATime'
<1>. USE DEF calls, tx, task, loops, Goto, Hold
<1>1. CASE \E c \in Calls : StartUnpauses(c) \/ StartSetsTx(c) \/ StartSetsHandle(c)
  <2>1. PICK c \in Calls : StartUnpauses(c) \/ StartSetsTx(c) \/ StartSetsHandle(c)
    BY <1>1
  <2>. QED  BY <2>1, Elsewhere DEF StartUnpauses, StartSetsTx, StartSetsHandle, SyncInv, TypeOK,
                                   SpawnedOnce, LoopSyncs, CallSyncs
<1>2. CASE \E c \in Calls : Start(c)
  <2>1. PICK c \in Calls : Start(c)
    BY <1>2
  <2>. QED  BY <2>1, Elsewhere DEF Start, Called, SyncInv, TypeOK, SpawnedOnce, LoopSyncs, CallSyncs
<1>3. CASE \E c \in Calls : Stop(c) \/ StopSends(c) \/ StopTakesHandle(c) \/ StopJoins(c) \/ StopResets(c)
  <2>1. PICK c \in Calls : Stop(c) \/ StopSends(c) \/ StopTakesHandle(c) \/ StopJoins(c) \/ StopResets(c)
    BY <1>3
  <2>. QED  BY <2>1, Elsewhere DEF Stop, Called, StopSends, StopTakesHandle, StopJoins, StopResets,
                                   SyncInv, TypeOK, SpawnedOnce, LoopSyncs, CallSyncs
<1>4. CASE \E c \in Calls : Control(c) \/ ControlSends(c) \/ WindowEvent(c) \/ TaskSends(c)
  <2>1. PICK c \in Calls : Control(c) \/ ControlSends(c) \/ WindowEvent(c) \/ TaskSends(c)
    BY <1>4
  <2>. QED  BY <2>1, Elsewhere DEF Control, Called, ControlSends, WindowEvent, TaskSends,
                                   SyncInv, TypeOK, SpawnedOnce, LoopSyncs, CallSyncs
<1>5. CASE \E c \in Calls : SyncCommand(c)
  <2>1. PICK c \in Calls : SyncCommand(c)
    BY <1>5
  <2>2. CASE syncing
    BY <2>1, <2>2, Elsewhere DEF SyncCommand, Called, SyncInv, TypeOK, SpawnedOnce,
                                 LoopSyncs, CallSyncs
  <2>3. CASE ~syncing
    <3>1. \A d \in Calls : CallSyncs(d)' <=> d = c
      BY <2>1, <2>3 DEF SyncCommand, SyncInv, OneSyncAtATime, TypeOK, CallSyncs
    <3>2. OneSyncAtATime'
      BY <2>1, <2>3, <3>1, CallBegins DEF SyncCommand, LoopSyncs
    <3>. QED  BY <2>1, <3>2 DEF SyncCommand, SyncInv, TypeOK, SpawnedOnce
  <2>. QED  BY <2>2, <2>3
<1>6. CASE \E c \in Calls : SyncFails(c) \/ SyncNotifySends(c)
  <2>1. PICK c \in Calls : SyncFails(c) \/ SyncNotifySends(c)
    BY <1>6
  <2>2. CallSyncs(c) /\ \A d \in Calls : CallSyncs(d)' <=> CallSyncs(d) /\ d # c
    BY <2>1 DEF SyncFails, SyncNotifySends, SyncInv, TypeOK, CallSyncs
  <2>3. OneSyncAtATime'
    BY <2>1, <2>2, CallEnds DEF SyncFails, SyncNotifySends, LoopSyncs
  <2>. QED  BY <2>1, <2>3 DEF SyncFails, SyncNotifySends, SyncInv, TypeOK, SpawnedOnce
<1>7. CASE \E c \in Calls : SyncSucceeds(c)
  <2>1. PICK c \in Calls : SyncSucceeds(c)
    BY <1>7
  <2>. QED  BY <2>1, Elsewhere DEF SyncSucceeds, SyncInv, TypeOK, SpawnedOnce, LoopSyncs, CallSyncs
<1>8. CASE \E c \in Calls : SyncNotifies(c)
  <2>1. PICK c \in Calls : SyncNotifies(c)
    BY <1>8
  <2>2. CASE txSlot = None
    <3>1. CallSyncs(c) /\ \A d \in Calls : CallSyncs(d)' <=> CallSyncs(d) /\ d # c
      BY <2>1, <2>2 DEF SyncNotifies, SyncInv, TypeOK, CallSyncs
    <3>2. OneSyncAtATime'
      BY <2>1, <2>2, <3>1, CallEnds DEF SyncNotifies, LoopSyncs
    <3>. QED  BY <2>1, <2>2, <3>2 DEF SyncNotifies, SyncInv, TypeOK, SpawnedOnce
  <2>3. CASE txSlot # None
    BY <2>1, <2>3, Elsewhere DEF SyncNotifies, SyncInv, TypeOK, SpawnedOnce, LoopSyncs, CallSyncs
  <2>. QED  BY <2>2, <2>3
<1>9. CASE \E l \in Calls : Tick(l)
  <2>1. PICK l \in Calls : Tick(l)
    BY <1>9
  <2>2. OneSyncAtATime'
    BY <2>1 DEF Tick, SyncInv, TypeOK, OneSyncAtATime, LoopSyncs, CallSyncs
  <2>. QED  BY <2>1, <2>2 DEF Tick, SyncInv, TypeOK, SpawnedOnce
<1>10. CASE \E l \in Calls : TickEnds(l)
  <2>1. PICK l \in Calls : TickEnds(l)
    BY <1>10
  <2>2. OneSyncAtATime'
    BY <2>1 DEF TickEnds, SyncInv, TypeOK, OneSyncAtATime, LoopSyncs, CallSyncs
  <2>. QED  BY <2>1, <2>2 DEF TickEnds, SyncInv, TypeOK, SpawnedOnce
<1>11. CASE \E l \in Calls : Receive(l)
  <2>1. PICK l \in Calls : Receive(l)
    BY <1>11
  <2>. QED  BY <2>1, Elsewhere DEF Receive, SyncInv, TypeOK, SpawnedOnce, LoopSyncs, CallSyncs
<1>12. CASE UNCHANGED vars
  BY <1>12 DEF vars, SyncInv, SpawnedOnce, OneSyncAtATime, LoopSyncs, CallSyncs
<1>. QED  BY <1>1, <1>2, <1>3, <1>4, <1>5, <1>6, <1>7, <1>8, <1>9, <1>10, <1>11, <1>12
          DEF Next, Command

(* At most one sync runs at a time, and the flag tells exactly whether one *)
(* does, however many loops two unawaited starts have left running.        *)
THEOREM OneSyncAtATimeHolds == Spec => []OneSyncAtATime
<1>1. Init => SpawnedOnce /\ OneSyncAtATime
  BY SyncInit
<1>2. TypeOK /\ SpawnedOnce /\ OneSyncAtATime /\ [Next]_vars => SpawnedOnce' /\ OneSyncAtATime'
  BY SyncStep DEF SyncInv
<1>. QED  BY <1>1, <1>2, TypeCorrect, PTL DEF Spec

-----------------------------------------------------------------------------
(***************************************************************************)
(* OneLoop and StopStops, for any calls in any order.  What they say of a  *)
(* loop rests on its start having been alone (Lone): then it has both      *)
(* slots before anyone else looks, it keeps them until a stop begins       *)
(* (KeepsSlots), and from then on a stop is in charge of it (ReachedOK).   *)
(***************************************************************************)
Lone(l) == l \notin overlapped
KindOK(c) ==
    /\ Starting(c) => Kind[c] = "start"
    /\ Stopping(c) \/ pc[c] = "reset" => Kind[c] = "stop"
    /\ pc[c] \in {"send", "task", "work", "notify", "notifySend"} => Kind[c] \notin {"start", "stop"}
(* A loop is spawned by its start, and messages go to loops that were.     *)
Spawned(l) == loop[l] # "none"
SpawnedOK(c) ==
    /\ pc[c] = "begin" => ~Spawned(c)
    /\ Starting(c) => Spawned(c)
    /\ Spawned(c) => Kind[c] = "start" /\ (Starting(c) \/ pc[c] = "done")
    /\ ~Spawned(c) => queue[c] = <<>>
    /\ pc[c] \in {"sendStop", "send", "task", "notifySend"} => held[c] # None /\ Spawned(held[c])
SlotsOK ==
    /\ txSlot # None => Spawned(txSlot)
    /\ handleSlot # None => Spawned(handleSlot) /\ pc[handleSlot] = "done"
(* While a stop waits for a loop it has the lock of the slot it emptied.   *)
JoinOK(c) ==
    pc[c] = "join" => /\ handleLock = c /\ handleSlot = None
                      /\ held[c] # None /\ Spawned(held[c]) /\ pc[held[c]] = "done"
StartOK(l) ==
    Starting(l) /\ Lone(l) =>
        /\ handleSlot = None /\ Alive(l) /\ ~Told(l)
        /\ pc[l] = "setHandle" => txSlot = l
        /\ \A d \in Calls : d # l => ~Starting(d) /\ ~Stopping(d)
KeepsSlots ==
    handleSlot # None /\ Lone(handleSlot) =>
        /\ \A d \in Calls : ~Starting(d)
        /\ \/ Alive(handleSlot) /\ ~Told(handleSlot)
           \/ \E c \in Calls : pc[c] = "takeHandle"
ReachedOK(l) ==
    Alive(l) /\ pc[l] = "done" /\ Lone(l) =>
        /\ handleSlot = l \/ \E c \in Calls : pc[c] = "join" /\ held[c] = l
        /\ \/ txSlot = l /\ \A c \in Calls : ~Stopping(c)
           \/ Told(l)
           \/ \E c \in Calls : pc[c] = "sendStop" /\ held[c] = l
StoppedOK(c) ==
    Kind[c] = "stop" /\ pc[c] # "begin" =>
        \A l \in After[c] : Kind[l] = "start" =>
            /\ pc[l] = "done"
            /\ pc[c] \in {"reset", "done"} /\ Lone(l) => ~Alive(l)

LoopInv ==
    /\ \A c \in Calls : /\ KindOK(c) /\ SpawnedOK(c) /\ JoinOK(c) /\ StartOK(c)
                        /\ ReachedOK(c) /\ StoppedOK(c)
    /\ SlotsOK /\ KeepsSlots

-----------------------------------------------------------------------------
(* A message sent is the last of one queue.                                *)
LEMMA SendTells ==
    ASSUME TypeOK, NEW l \in Calls \cup {None}, NEW msg \in Messages, Send(l, msg), NEW k \in Calls
    PROVE  /\ Told(k)' <=> Told(k) \/ (k = l /\ msg = "stop" /\ loop[l] # "ended")
           /\ k # l => queue'[k] = queue[k]
<1>1. CASE loop[l] = "ended" /\ queue' = queue
    BY <1>1 DEF Told
<1>2. CASE loop[l] # "ended" /\ queue' = [queue EXCEPT ![l] = Append(@, msg)]
    <2>1. k # l => queue'[k] = queue[k]
        BY <1>2 DEF TypeOK
    <2>2. k = l => queue'[k] = Append(queue[k], msg) /\ queue[k] \in Seq(Messages)
        BY <1>2 DEF TypeOK
    <2>3. ASSUME k = l, NEW i \in 1..Len(queue'[k]), queue'[k][i] = "stop"
          PROVE  Told(k) \/ msg = "stop"
        <3>1. i \in 1..Len(queue[k]) \/ (i = Len(queue[k]) + 1 /\ queue'[k][i] = msg)
            BY <2>2, <2>3
        <3>2. i \in 1..Len(queue[k]) => queue[k][i] = "stop"
            BY <2>2, <2>3
        <3> QED
            BY <2>3, <3>1, <3>2 DEF Told
    <2>4. ASSUME k = l, NEW i \in 1..Len(queue[k]), queue[k][i] = "stop" PROVE Told(k)'
        <3>1. i \in 1..Len(queue'[k]) /\ queue'[k][i] = "stop"
            BY <2>2, <2>4
        <3> QED
            BY <3>1 DEF Told
    <2>5. k = l /\ msg = "stop" => Told(k)'
        <3>1. ASSUME k = l, msg = "stop" PROVE Told(k)'
            <4>1. Len(queue[k]) + 1 \in 1..Len(queue'[k]) /\ queue'[k][Len(queue[k]) + 1] = "stop"
                BY <2>2, <3>1
            <4> QED
                BY <4>1 DEF Told
        <3> QED
            BY <3>1
    <2>6. k # l => (Told(k)' <=> Told(k))
        BY <2>1 DEF Told
    <2>7. k = l => (Told(k)' => Told(k) \/ msg = "stop") /\ (Told(k) => Told(k)')
        BY <2>3, <2>4 DEF Told
    <2> QED
        BY <1>2, <2>1, <2>5, <2>6, <2>7
<1> QED
    BY <1>1, <1>2 DEF Send

-----------------------------------------------------------------------------
(* A step of a call that is neither a start nor a stop.                    *)
LEMMA Bystander ==
    ASSUME TypeOK, LoopInv, NEW c \in Calls, Kind[c] \notin {"start", "stop"},
           \A d \in Calls \ {c} : pc'[d] = pc[d] /\ held'[d] = held[d],
           pc'[c] \in {"send", "task", "work", "notify", "notifySend", "done"},
           pc'[c] \in {"send", "task", "notifySend"} => held'[c] # None /\ Spawned(held'[c]),
           UNCHANGED <<loop, handleSlot, handleLock, txSlot, overlapped>>,
           \A l \in Calls : Told(l)' <=> Told(l),
           \A l \in Calls : ~Spawned(l) => queue'[l] = queue[l]
    PROVE  LoopInv'
<1>1. /\ pc[c] \notin {"unpause", "setTx", "setHandle", "sendStop", "takeHandle", "join", "reset"}
      /\ ~Spawned(c)
    BY DEF LoopInv, KindOK, SpawnedOK, Starting, Stopping
<1>2. \A l \in Calls : (Alive(l)' <=> Alive(l)) /\ (Spawned(l)' <=> Spawned(l)) /\ (Lone(l)' <=> Lone(l))
    BY DEF Alive, Spawned, Lone
<1>3. \A d \in Calls : (Starting(d)' <=> Starting(d)) /\ (Stopping(d)' <=> Stopping(d))
    BY <1>1 DEF Starting, Stopping
<1>4. \A d \in Calls : pc[d] \in {"takeHandle", "join", "sendStop"}
                         => pc'[d] = pc[d] /\ held'[d] = held[d]
    BY <1>1
<1>5. \A l \in Calls : Spawned(l) => pc'[l] = pc[l]
    BY <1>1
<1>6. ASSUME NEW d \in Calls PROVE KindOK(d)' /\ SpawnedOK(d)' /\ JoinOK(d)'
    <2>1. CASE d = c
        BY <1>1, <1>2, <1>3, <2>1 DEF LoopInv, KindOK, SpawnedOK, JoinOK, Spawned
    <2>2. CASE d # c
        <3>1. KindOK(d)' /\ SpawnedOK(d)'
            BY <1>1, <1>2, <1>3, <1>5, <2>2 DEF LoopInv, KindOK, SpawnedOK, Spawned
        <3>2. held[d] # None => held[d] \in Calls
            BY DEF TypeOK
        <3>3. JoinOK(d)'
            BY <1>2, <1>5, <2>2, <3>2 DEF LoopInv, JoinOK
        <3> QED
            BY <3>1, <3>3
    <2> QED
        BY <2>1, <2>2
<1>7. ASSUME NEW l \in Calls PROVE StartOK(l)' /\ ReachedOK(l)'
    <2>1. Alive(l) => Spawned(l)
        BY DEF Alive, Spawned
    <2> QED
        BY <1>1, <1>2, <1>3, <1>4, <1>5, <2>1 DEF LoopInv, StartOK, ReachedOK, Starting
<1>8. ASSUME NEW d \in Calls PROVE StoppedOK(d)'
    <2>1. SUFFICES ASSUME Kind[d] = "stop", pc'[d] # "begin", NEW l \in After[d], Kind[l] = "start"
                   PROVE  /\ pc'[l] = "done"
                          /\ pc'[d] \in {"reset", "done"} /\ Lone(l)' => ~Alive(l)'
        BY DEF StoppedOK
    <2>2. l \in Calls /\ l # c /\ d # c
        BY <2>1, PollingAssumption
    <2> QED
        BY <1>2, <2>1, <2>2 DEF LoopInv, StoppedOK
<1>9. SlotsOK' /\ KeepsSlots'
    <2>1. /\ txSlot # None => txSlot \in Calls
          /\ handleSlot # None => handleSlot \in Calls
        BY DEF TypeOK
    <2>2. SlotsOK'
        BY <1>2, <1>5, <2>1 DEF LoopInv, SlotsOK
    <2>3. handleSlot # None /\ Lone(handleSlot)
            => /\ \A d \in Calls : ~Starting(d)'
               /\ \/ Alive(handleSlot)' /\ ~Told(handleSlot)'
                  \/ \E d \in Calls : pc'[d] = "takeHandle"
        BY <1>2, <1>3, <1>4, <2>1 DEF LoopInv, KeepsSlots
    <2>4. KeepsSlots'
        BY <2>3 DEF KeepsSlots, Lone, Alive, Told
    <2> QED
        BY <2>2, <2>4
<1> QED
    BY <1>6, <1>7, <1>8, <1>9 DEF LoopInv

LEMMA OtherCalls ==
    ASSUME TypeOK, LoopInv, NEW c \in Calls,
           \/ Control(c) \/ ControlSends(c) \/ WindowEvent(c) \/ TaskSends(c)
           \/ SyncCommand(c) \/ SyncFails(c) \/ SyncSucceeds(c)
           \/ SyncNotifies(c) \/ SyncNotifySends(c)
    PROVE  LoopInv'
<1> USE DEF calls, tx, task, loops, Goto, Hold
<1>1. txSlot # None => Spawned(txSlot)
    BY DEF LoopInv, SlotsOK
<1>2. CASE Control(c) \/ WindowEvent(c) \/ SyncCommand(c)
    <2>1. Kind[c] \notin {"start", "stop"}
        BY <1>2 DEF Control, WindowEvent, SyncCommand, Called
    <2>2. /\ \A d \in Calls \ {c} : pc'[d] = pc[d] /\ held'[d] = held[d]
          /\ UNCHANGED <<loop, handleSlot, handleLock, txSlot, queue, overlapped>>
        BY <1>2 DEF Control, WindowEvent, SyncCommand, TypeOK
    <2>3. /\ pc'[c] \in {"send", "task", "work", "done"}
          /\ pc'[c] \in {"send", "task"} => txSlot # None /\ held'[c] = txSlot
        BY <1>2 DEF Control, WindowEvent, SyncCommand, TypeOK
    <2>4. \A l \in Calls : (Told(l)' <=> Told(l)) /\ queue'[l] = queue[l]
        BY <2>2 DEF Told
    <2> QED
        BY <1>1, <2>1, <2>2, <2>3, <2>4, Bystander
<1>3. CASE SyncFails(c) \/ SyncSucceeds(c) \/ SyncNotifies(c)
    <2>1. Kind[c] \notin {"start", "stop"}
        BY <1>3 DEF SyncFails, SyncSucceeds, SyncNotifies, LoopInv, KindOK
    <2>2. /\ \A d \in Calls \ {c} : pc'[d] = pc[d] /\ held'[d] = held[d]
          /\ UNCHANGED <<loop, handleSlot, handleLock, txSlot, queue, overlapped>>
        BY <1>3 DEF SyncFails, SyncSucceeds, SyncNotifies, TypeOK
    <2>3. /\ pc'[c] \in {"notify", "notifySend", "done"}
          /\ pc'[c] = "notifySend" => txSlot # None /\ held'[c] = txSlot
        BY <1>3 DEF SyncFails, SyncSucceeds, SyncNotifies, TypeOK
    <2>4. \A l \in Calls : (Told(l)' <=> Told(l)) /\ queue'[l] = queue[l]
        BY <2>2 DEF Told
    <2> QED
        BY <1>1, <2>1, <2>2, <2>3, <2>4, Bystander
<1>4. CASE ControlSends(c) \/ TaskSends(c) \/ SyncNotifySends(c)
    <2>1. /\ Kind[c] \notin {"start", "stop"} /\ held[c] \in Calls \cup {None}
          /\ held[c] # None /\ Spawned(held[c])
        BY <1>4 DEF ControlSends, TaskSends, SyncNotifySends, LoopInv, KindOK, SpawnedOK, TypeOK
    <2>2. \E msg \in Messages : msg # "stop" /\ Send(held[c], msg)
        BY <1>4 DEF ControlSends, TaskSends, SyncNotifySends, Messages
    <2>3. \A k \in Calls : (Told(k)' <=> Told(k)) /\ (k # held[c] => queue'[k] = queue[k])
        BY <2>1, <2>2, SendTells
    <2>4. /\ \A d \in Calls \ {c} : pc'[d] = pc[d] /\ held'[d] = held[d]
          /\ pc'[c] = "done"
          /\ UNCHANGED <<loop, handleSlot, handleLock, txSlot, overlapped>>
        BY <1>4 DEF ControlSends, TaskSends, SyncNotifySends, TypeOK
    <2> QED
        BY <2>1, <2>3, <2>4, Bystander
<1> QED
    BY <1>2, <1>3, <1>4

-----------------------------------------------------------------------------
(* A loop ends only when it was told to, and what it was told stays told.  *)
LEMMA LoopSteps ==
    ASSUME TypeOK, LoopInv, NEW l \in Calls, Tick(l) \/ TickEnds(l) \/ Receive(l)
    PROVE  LoopInv'
<1> USE DEF calls, tx, task, loops
<1>1. UNCHANGED <<pc, held, txSlot, handleSlot, handleLock, overlapped>> /\ Alive(l)
    BY DEF Tick, TickEnds, Receive, Alive
<1>2. \A k \in Calls : /\ k # l => queue'[k] = queue[k] /\ loop'[k] = loop[k]
                       /\ loop'[l] \in {"waiting", "syncing", "ended"}
    BY DEF Tick, TickEnds, Receive, TypeOK
<1>3. \A k \in Calls : /\ Alive(k)' => Alive(k)
                       /\ Alive(k) /\ ~Alive(k)' => Told(k)
                       /\ Told(k)' => Told(k)
                       /\ Told(k) /\ Alive(k)' => Told(k)'
    <2>1. CASE Receive(l)
        <3>1. /\ queue'[l] = Tail(queue[l]) /\ queue[l] # <<>> /\ queue[l] \in Seq(Messages)
              /\ Alive(l)' => Head(queue[l]) # "stop"
              /\ ~Alive(l)' => Head(queue[l]) = "stop"
            BY <1>1, <2>1 DEF Receive, TypeOK, Alive
        <3>2. ASSUME NEW i \in 1..Len(queue'[l]), queue'[l][i] = "stop" PROVE Told(l)
            <4>1. i + 1 \in 1..Len(queue[l]) /\ queue[l][i + 1] = "stop"
                BY <3>1, <3>2
            <4> QED
                BY <4>1 DEF Told
        <3>3. ASSUME NEW i \in 1..Len(queue[l]), queue[l][i] = "stop", Alive(l)' PROVE Told(l)'
            <4>1. i # 1
                BY <3>1, <3>3
            <4>2. i - 1 \in 1..Len(queue'[l]) /\ queue'[l][i - 1] = "stop"
                BY <3>1, <3>3, <4>1
            <4> QED
                BY <4>2 DEF Told
        <3>4. ~Alive(l)' => Told(l)
            <4>1. 1 \in 1..Len(queue[l]) /\ Head(queue[l]) = queue[l][1]
                BY <3>1
            <4> QED
                BY <3>1, <4>1 DEF Told
        <3>5. (Told(l)' => Told(l)) /\ (Told(l) /\ Alive(l)' => Told(l)')
            BY <3>2, <3>3 DEF Told
        <3>6. \A k \in Calls \ {l} : (Alive(k)' <=> Alive(k)) /\ (Told(k)' <=> Told(k))
            BY <1>2 DEF Alive, Told
        <3> QED
            BY <1>1, <3>4, <3>5, <3>6
    <2>2. CASE Tick(l) \/ TickEnds(l)
        BY <1>1, <1>2, <2>2 DEF Tick, TickEnds, TypeOK, Alive, Told
    <2> QED
        BY <2>1, <2>2
<1>4. \A k \in Calls : /\ Spawned(k)' <=> Spawned(k)
                       /\ Lone(k)' <=> Lone(k)
                       /\ Starting(k)' <=> Starting(k)
                       /\ Stopping(k)' <=> Stopping(k)
                       /\ ~Spawned(k) => queue'[k] = queue[k]
    BY <1>1, <1>2 DEF Spawned, Alive, Lone, Starting, Stopping
<1>5. /\ txSlot # None => txSlot \in Calls
      /\ handleSlot # None => handleSlot \in Calls
      /\ \A d \in Calls : held[d] # None => held[d] \in Calls
    BY DEF TypeOK
<1>6. ASSUME NEW d \in Calls PROVE KindOK(d)' /\ SpawnedOK(d)' /\ JoinOK(d)' /\ StoppedOK(d)'
    <2>1. KindOK(d)' /\ SpawnedOK(d)' /\ JoinOK(d)'
        BY <1>1, <1>4, <1>5 DEF LoopInv, KindOK, SpawnedOK, JoinOK
    <2>2. StoppedOK(d)'
        BY <1>1, <1>3, <1>4, PollingAssumption DEF LoopInv, StoppedOK
    <2> QED
        BY <2>1, <2>2
<1>7. ASSUME NEW k \in Calls PROVE StartOK(k)' /\ ReachedOK(k)'
    BY <1>1, <1>3, <1>4 DEF LoopInv, StartOK, ReachedOK
<1>8. SlotsOK' /\ KeepsSlots'
    <2>1. SlotsOK'
        BY <1>1, <1>4, <1>5 DEF LoopInv, SlotsOK
    <2>2. handleSlot # None /\ Lone(handleSlot)
            => /\ \A d \in Calls : ~Starting(d)'
               /\ \/ Alive(handleSlot)' /\ ~Told(handleSlot)'
                  \/ \E d \in Calls : pc'[d] = "takeHandle"
        BY <1>1, <1>3, <1>4, <1>5 DEF LoopInv, KeepsSlots
    <2>3. KeepsSlots'
        BY <1>1, <2>2 DEF KeepsSlots, Lone, Alive, Told
    <2> QED
        BY <2>1, <2>3
<1> QED
    BY <1>6, <1>7, <1>8 DEF LoopInv

-----------------------------------------------------------------------------
(* While the handle's slot is open no stop waits for a loop.               *)
LEMMA NoJoin ==
    ASSUME LoopInv, handleLock = None, NEW d \in Calls
    PROVE  pc[d] # "join"
BY PollingAssumption DEF LoopInv, JoinOK, None

(* A start that finds the slot taken has no loop.                          *)
LEMMA StartReturns ==
    ASSUME TypeOK, LoopInv, NEW c \in Calls, Start(c), handleSlot # None
    PROVE  LoopInv'
<1> USE DEF calls, tx, task, loops, Goto, Hold
<1>1. /\ Kind[c] = "start" /\ pc[c] = "begin" /\ ~Spawned(c) /\ queue[c] = <<>>
      /\ pc' = [pc EXCEPT ![c] = "done"]
      /\ UNCHANGED <<held, txSlot, handleSlot, handleLock, loop, queue, overlapped>>
    BY DEF Start, Called, LoopInv, SpawnedOK
<1>2. pc'[c] = "done" /\ \A d \in Calls \ {c} : pc'[d] = pc[d]
    BY <1>1 DEF TypeOK
<1>3. \A d \in Calls : /\ Starting(d)' <=> Starting(d)
                       /\ Stopping(d)' <=> Stopping(d)
                       /\ Alive(d)' <=> Alive(d)
                       /\ Told(d)' <=> Told(d)
                       /\ Lone(d)' <=> Lone(d)
                       /\ Spawned(d)' <=> Spawned(d)
                       /\ Spawned(d) => pc'[d] = pc[d]
    BY <1>1, <1>2 DEF Starting, Stopping, Alive, Told, Lone, Spawned
<1>4. /\ txSlot # None => txSlot \in Calls
      /\ handleSlot # None => handleSlot \in Calls
      /\ \A d \in Calls : held[d] # None => held[d] \in Calls
    BY DEF TypeOK
<1>5. ASSUME NEW d \in Calls PROVE KindOK(d)' /\ SpawnedOK(d)' /\ JoinOK(d)' /\ StartOK(d)'
    <2>1. CASE d = c
        BY <1>1, <1>2, <1>3, <2>1 DEF KindOK, SpawnedOK, JoinOK, StartOK, Starting, Stopping, Spawned
    <2>2. CASE d # c
        BY <1>1, <1>2, <1>3, <1>4, <2>2 DEF LoopInv, KindOK, SpawnedOK, JoinOK, StartOK
    <2> QED
        BY <2>1, <2>2
<1>6. ASSUME NEW l \in Calls PROVE ReachedOK(l)'
    <2>1. Alive(l) => Spawned(l)
        BY DEF Alive, Spawned
    <2> QED
        BY <1>1, <1>2, <1>3, <2>1 DEF LoopInv, ReachedOK
<1>7. ASSUME NEW d \in Calls PROVE StoppedOK(d)'
    <2>1. SUFFICES ASSUME Kind[d] = "stop", pc'[d] # "begin", NEW l \in After[d], Kind[l] = "start"
                   PROVE  /\ pc'[l] = "done"
                          /\ pc'[d] \in {"reset", "done"} /\ Lone(l)' => ~Alive(l)'
        BY DEF StoppedOK
    <2>2. l \in Calls /\ d # c
        BY <1>1, <2>1, PollingAssumption
    <2> QED
        BY <1>1, <1>2, <1>3, <2>1, <2>2 DEF LoopInv, StoppedOK
<1>8. SlotsOK' /\ KeepsSlots'
    <2>1. SlotsOK'
        BY <1>1, <1>3, <1>4 DEF LoopInv, SlotsOK
    <2>2. handleSlot # None /\ Lone(handleSlot)
            => /\ \A d \in Calls : ~Starting(d)'
               /\ \/ Alive(handleSlot)' /\ ~Told(handleSlot)'
                  \/ \E d \in Calls : pc'[d] = "takeHandle"
        BY <1>1, <1>2, <1>3, <1>4 DEF LoopInv, KeepsSlots
    <2>3. KeepsSlots'
        BY <1>1, <2>2 DEF KeepsSlots, Lone, Alive, Told
    <2> QED
        BY <2>1, <2>3
<1> QED
    BY <1>5, <1>6, <1>7, <1>8 DEF LoopInv

(* A start that spawns its loop: no lone loop runs outside the slot, and   *)
(* all who start or stop meanwhile are overlapped from now on.             *)
LEMMA StartSpawns ==
    ASSUME TypeOK, LoopInv, NEW c \in Calls, Start(c), handleSlot = None
    PROVE  LoopInv'
<1> USE DEF calls, tx, task, loops, Goto, Hold
<1>1. /\ Kind[c] = "start" /\ pc[c] = "begin" /\ ~Spawned(c) /\ queue[c] = <<>>
      /\ pc' = [pc EXCEPT ![c] = "unpause"] /\ loop' = [loop EXCEPT ![c] = "waiting"]
      /\ overlapped' = overlapped \cup OverlappedBy(c)
      /\ handleLock = None
      /\ UNCHANGED <<held, txSlot, handleSlot, handleLock, queue>>
    BY DEF Start, Called, LoopInv, SpawnedOK
<1>2. /\ pc'[c] = "unpause" /\ \A d \in Calls \ {c} : pc'[d] = pc[d]
      /\ loop'[c] = "waiting" /\ \A d \in Calls \ {c} : loop'[d] = loop[d]
    BY <1>1 DEF TypeOK
<1>3. \A d \in Calls : pc[d] # "join"
    BY <1>1, NoJoin
<1>4. \A l \in Calls : Alive(l) /\ Lone(l) => pc[l] # "done"
    BY <1>3, PollingAssumption DEF LoopInv, ReachedOK, None
<1>5. \A d \in Calls : d # c => /\ Starting(d)' <=> Starting(d)
                                /\ Stopping(d)' <=> Stopping(d)
                                /\ Alive(d)' <=> Alive(d)
                                /\ Spawned(d)' <=> Spawned(d)
    BY <1>2 DEF Starting, Stopping, Alive, Spawned
<1>6. /\ \A d \in Calls : Lone(d)' => Lone(d) /\ ~Starting(d)
      /\ Lone(c)' => \A d \in Calls : ~Starting(d) /\ ~Stopping(d)
    BY <1>1 DEF Lone, OverlappedBy
<1>7. /\ txSlot # None => txSlot \in Calls
      /\ \A d \in Calls : held[d] # None => held[d] \in Calls
    BY DEF TypeOK
<1>8. Starting(c)' /\ ~Stopping(c)' /\ Spawned(c)' /\ Alive(c)' /\ ~Told(c)'
    BY <1>1, <1>2 DEF Starting, Stopping, Spawned, Alive, Told
<1>9. ASSUME NEW d \in Calls PROVE KindOK(d)' /\ SpawnedOK(d)' /\ JoinOK(d)'
    <2>1. CASE d = c
        BY <1>1, <1>2, <1>8, <2>1 DEF KindOK, SpawnedOK, JoinOK
    <2>2. CASE d # c
        <3>1. KindOK(d)'
            BY <1>2, <1>5, <2>2 DEF LoopInv, KindOK
        <3>2. \A k \in Calls : Spawned(k) => Spawned(k)'
            BY <1>5, <1>8
        <3>3. SpawnedOK(d)'
            BY <1>1, <1>2, <1>5, <1>7, <2>2, <3>2 DEF LoopInv, SpawnedOK
        <3> QED
            BY <1>2, <1>3, <2>2, <3>1, <3>3 DEF JoinOK
    <2> QED
        BY <2>1, <2>2
<1>10. ASSUME NEW l \in Calls PROVE StartOK(l)' /\ ReachedOK(l)'
    <2>1. CASE l = c
        BY <1>1, <1>2, <1>5, <1>6, <1>8, <2>1 DEF StartOK, ReachedOK
    <2>2. CASE l # c
        BY <1>2, <1>4, <1>5, <1>6, <2>2 DEF StartOK, ReachedOK
    <2> QED
        BY <2>1, <2>2
<1>11. ASSUME NEW d \in Calls PROVE StoppedOK(d)'
    <2>1. SUFFICES ASSUME Kind[d] = "stop", pc'[d] # "begin", NEW l \in After[d], Kind[l] = "start"
                   PROVE  /\ pc'[l] = "done"
                          /\ pc'[d] \in {"reset", "done"} /\ Lone(l)' => ~Alive(l)'
        BY DEF StoppedOK
    <2>2. l \in Calls /\ d # c
        BY <1>1, <2>1, PollingAssumption
    <2>3. pc[l] = "done" /\ (pc[d] \in {"reset", "done"} /\ Lone(l) => ~Alive(l))
        BY <1>2, <2>1, <2>2 DEF LoopInv, StoppedOK
    <2> QED
        BY <1>1, <1>2, <1>5, <1>6, <2>1, <2>2, <2>3
<1>12. SlotsOK' /\ KeepsSlots'
    BY <1>1, <1>2, <1>7 DEF LoopInv, SlotsOK, KeepsSlots, Spawned
<1> QED
    BY <1>9, <1>10, <1>11, <1>12 DEF LoopInv

(* A step that moves one call and leaves the loops where they are, as seen *)
(* by the rest of the invariant.                                           *)
LEMMA Moved ==
    ASSUME TypeOK, LoopInv, NEW c \in Calls, NEW at, pc' = [pc EXCEPT ![c] = at],
           loop' = loop, overlapped \subseteq overlapped', at # "begin", pc[c] # "begin",
           pc[c] = "done" => at = "done"
    PROVE  /\ pc'[c] = at /\ \A d \in Calls \ {c} : pc'[d] = pc[d]
           /\ \A d \in Calls : /\ d # c => /\ Starting(d)' <=> Starting(d)
                                           /\ Stopping(d)' <=> Stopping(d)
                               /\ Alive(d)' <=> Alive(d)
                               /\ Spawned(d)' <=> Spawned(d)
                               /\ Lone(d)' => Lone(d)
           /\ \A d \in Calls \ {c} : KindOK(d) /\ StoppedOK(d) => KindOK(d)' /\ StoppedOK(d)'
           /\ handleSlot # None => handleSlot \in Calls
           /\ txSlot # None => txSlot \in Calls
           /\ \A d \in Calls : held[d] # None => held[d] \in Calls
<1>1. pc'[c] = at /\ \A d \in Calls \ {c} : pc'[d] = pc[d]
    BY DEF TypeOK
<1>2. \A d \in Calls : /\ d # c => /\ Starting(d)' <=> Starting(d)
                                   /\ Stopping(d)' <=> Stopping(d)
                       /\ Alive(d)' <=> Alive(d)
                       /\ Spawned(d)' <=> Spawned(d)
                       /\ Lone(d)' => Lone(d)
    BY <1>1 DEF Starting, Stopping, Alive, Spawned, Lone
<1>3. ASSUME NEW d \in Calls \ {c}, KindOK(d), StoppedOK(d) PROVE KindOK(d)' /\ StoppedOK(d)'
    <2>1. KindOK(d)'
        BY <1>1, <1>2, <1>3 DEF KindOK
    <2>2. SUFFICES ASSUME Kind[d] = "stop", pc'[d] # "begin", NEW l \in After[d], Kind[l] = "start"
                   PROVE  /\ pc'[l] = "done"
                          /\ pc'[d] \in {"reset", "done"} /\ Lone(l)' => ~Alive(l)'
        BY <2>1 DEF StoppedOK
    <2>3. l \in Calls
        BY <2>2, PollingAssumption
    <2>4. pc[l] = "done" /\ (pc[d] \in {"reset", "done"} /\ Lone(l) => ~Alive(l))
        BY <1>1, <1>3, <2>2, <2>3 DEF StoppedOK
    <2> QED
        BY <1>1, <1>2, <2>2, <2>3, <2>4
<1>4. /\ handleSlot # None => handleSlot \in Calls
      /\ txSlot # None => txSlot \in Calls
      /\ \A d \in Calls : held[d] # None => held[d] \in Calls
    BY DEF TypeOK
<1> QED
    BY <1>1, <1>2, <1>3, <1>4

(* The steps after the spawn, until the slot has the handle.  A lone loop  *)
(* whose start is over is then known to a stop only.                       *)
LEMMA StartedStep ==
    ASSUME TypeOK, LoopInv, NEW c \in Calls, StartUnpauses(c) \/ StartSetsTx(c)
    PROVE  LoopInv'
<1> USE DEF calls, tx, task, loops, Goto, Hold
<1>1. PICK at \in {"setTx", "setHandle"} :
          /\ pc' = [pc EXCEPT ![c] = at]
          /\ at = "setHandle" => txSlot' = c
          /\ at = "setTx" => txSlot' = txSlot
    BY DEF StartUnpauses, StartSetsTx
<1>2. /\ UNCHANGED <<held, handleSlot, handleLock, loop, queue, overlapped>>
      /\ Starting(c) /\ pc[c] # "begin" /\ pc[c] # "done"
    BY DEF StartUnpauses, StartSetsTx, Starting
<1>3. /\ pc'[c] = at /\ \A d \in Calls \ {c} : pc'[d] = pc[d]
      /\ \A d \in Calls : /\ d # c => /\ Starting(d)' <=> Starting(d)
                                      /\ Stopping(d)' <=> Stopping(d)
                          /\ Alive(d)' <=> Alive(d)
                          /\ Spawned(d)' <=> Spawned(d)
                          /\ Lone(d)' => Lone(d)
      /\ \A d \in Calls \ {c} : KindOK(d) /\ StoppedOK(d) => KindOK(d)' /\ StoppedOK(d)'
      /\ handleSlot # None => handleSlot \in Calls
      /\ txSlot # None => txSlot \in Calls
      /\ \A d \in Calls : held[d] # None => held[d] \in Calls
    BY <1>1, <1>2, Moved
<1>4. /\ Starting(c)' /\ ~Stopping(c)' /\ ~Stopping(c)
      /\ \A d \in Calls : (Told(d)' <=> Told(d)) /\ (Lone(d)' <=> Lone(d))
    BY <1>1, <1>2, <1>3 DEF Starting, Stopping, Told, Lone
<1>5. Kind[c] = "start" /\ Spawned(c)
    BY <1>2 DEF LoopInv, KindOK, SpawnedOK
<1>6. ASSUME NEW d \in Calls PROVE KindOK(d)' /\ StoppedOK(d)' /\ SpawnedOK(d)' /\ JoinOK(d)'
    <2>1. CASE d = c
        BY <1>1, <1>2, <1>3, <1>4, <1>5, <2>1 DEF KindOK, StoppedOK, SpawnedOK, JoinOK
    <2>2. CASE d # c
        <3>1. KindOK(d)' /\ StoppedOK(d)' /\ JoinOK(d)'
            BY <1>2, <1>3, <2>2 DEF LoopInv, JoinOK
        <3>2. SpawnedOK(d)'
            BY <1>2, <1>3, <2>2 DEF LoopInv, SpawnedOK
        <3> QED
            BY <3>1, <3>2
    <2> QED
        BY <2>1, <2>2
<1>7. ASSUME NEW l \in Calls PROVE StartOK(l)'
    <2>1. CASE l = c
        <3>1. Lone(c) => /\ handleSlot = None /\ Alive(c) /\ ~Told(c)
                         /\ \A d \in Calls : d # c => ~Starting(d) /\ ~Stopping(d)
            BY <1>2 DEF LoopInv, StartOK
        <3> QED
            BY <1>1, <1>2, <1>3, <1>4, <2>1, <3>1 DEF StartOK
    <2>2. CASE l # c
        BY <1>2, <1>3, <1>4, <2>2 DEF LoopInv, StartOK
    <2> QED
        BY <2>1, <2>2
<1>8. handleSlot # None => ~Lone(handleSlot)
    BY <1>2 DEF LoopInv, KeepsSlots
<1>9. ASSUME NEW l \in Calls PROVE ReachedOK(l)'
    <2>1. SUFFICES ASSUME Alive(l), pc[l] = "done", Lone(l) PROVE ReachedOK(l)'
        BY <1>1, <1>3 DEF ReachedOK
    <2>2. PICK d \in Calls : pc[d] = "join" /\ held[d] = l
        BY <1>8, <2>1, PollingAssumption DEF LoopInv, ReachedOK, None
    <2>3. Told(l) \/ \E e \in Calls : pc[e] = "sendStop" /\ held[e] = l
        BY <2>1, <2>2 DEF LoopInv, ReachedOK, Stopping
    <2>4. \A e \in Calls : pc[e] \in {"join", "sendStop"} => e # c
        BY <1>2 DEF Starting
    <2> QED
        BY <1>2, <1>3, <1>4, <2>2, <2>3, <2>4 DEF ReachedOK
<1>10. SlotsOK' /\ KeepsSlots'
    <2>1. handleSlot # None => pc[handleSlot] = "done" /\ handleSlot # c
        BY <1>2 DEF LoopInv, SlotsOK, Starting
    <2>2. SlotsOK'
        BY <1>1, <1>2, <1>3, <1>5, <2>1 DEF LoopInv, SlotsOK, Spawned
    <2>3. KeepsSlots'
        BY <1>2, <1>8 DEF KeepsSlots, Lone
    <2> QED
        BY <2>2, <2>3
<1> QED
    BY <1>6, <1>7, <1>9, <1>10 DEF LoopInv

LEMMA HandleStep ==
    ASSUME TypeOK, LoopInv, NEW c \in Calls, StartSetsHandle(c)
    PROVE  LoopInv'
<1> USE DEF calls, tx, task, loops, Goto, Hold
<1>1. /\ pc' = [pc EXCEPT ![c] = "done"] /\ handleSlot' = c /\ handleLock = None
      /\ UNCHANGED <<held, txSlot, handleLock, loop, queue, overlapped>>
      /\ Starting(c) /\ pc[c] = "setHandle"
    BY DEF StartSetsHandle, Starting
<1>2. /\ pc'[c] = "done" /\ \A d \in Calls \ {c} : pc'[d] = pc[d]
      /\ \A d \in Calls : /\ d # c => /\ Starting(d)' <=> Starting(d)
                                      /\ Stopping(d)' <=> Stopping(d)
                          /\ Alive(d)' <=> Alive(d)
                          /\ Spawned(d)' <=> Spawned(d)
                          /\ Lone(d)' => Lone(d)
      /\ \A d \in Calls \ {c} : KindOK(d) /\ StoppedOK(d) => KindOK(d)' /\ StoppedOK(d)'
      /\ handleSlot # None => handleSlot \in Calls
      /\ txSlot # None => txSlot \in Calls
      /\ \A d \in Calls : held[d] # None => held[d] \in Calls
    BY <1>1, Moved
<1>3. /\ ~Starting(c)' /\ ~Stopping(c)' /\ ~Stopping(c)
      /\ \A d \in Calls : (Told(d)' <=> Told(d)) /\ (Lone(d)' <=> Lone(d))
    BY <1>1, <1>2 DEF Starting, Stopping, Told, Lone
<1>4. Kind[c] = "start" /\ Spawned(c)
    BY <1>1 DEF LoopInv, KindOK, SpawnedOK
<1>5. Lone(c) => /\ Alive(c) /\ ~Told(c) /\ txSlot = c
                 /\ \A d \in Calls : d # c => ~Starting(d) /\ ~Stopping(d)
    BY <1>1 DEF LoopInv, StartOK
<1>6. \A d \in Calls : pc[d] # "join"
    BY <1>1, NoJoin
<1>7. \A l \in Calls : Lone(l) /\ Alive(l) => pc[l] # "done"
    <2>1. handleSlot # None => ~Lone(handleSlot)
        BY <1>1 DEF LoopInv, KeepsSlots
    <2> QED
        BY <1>6, <2>1, PollingAssumption DEF LoopInv, ReachedOK, None
<1>8. ASSUME NEW d \in Calls PROVE KindOK(d)' /\ StoppedOK(d)' /\ SpawnedOK(d)' /\ JoinOK(d)'
    <2>1. CASE d = c
        BY <1>1, <1>2, <1>3, <1>4, <2>1 DEF KindOK, StoppedOK, SpawnedOK, JoinOK
    <2>2. CASE d # c
        BY <1>1, <1>2, <1>6, <2>2 DEF LoopInv, SpawnedOK, JoinOK
    <2> QED
        BY <2>1, <2>2
<1>9. ASSUME NEW l \in Calls PROVE StartOK(l)' /\ ReachedOK(l)'
    <2>1. CASE l = c
        BY <1>1, <1>2, <1>3, <1>5, <2>1 DEF StartOK, ReachedOK
    <2>2. CASE l # c
        <3>1. StartOK(l)'
            BY <1>1, <1>2, <1>3, <2>2 DEF LoopInv, StartOK
        <3>2. ReachedOK(l)'
            BY <1>2, <1>7, <2>2 DEF ReachedOK
        <3> QED
            BY <3>1, <3>2
    <2> QED
        BY <2>1, <2>2
<1>10. SlotsOK' /\ KeepsSlots'
    <2>1. SlotsOK'
        BY <1>1, <1>2, <1>4 DEF LoopInv, SlotsOK, Spawned
    <2>2. Lone(c) => /\ \A d \in Calls : ~Starting(d)'
                     /\ Alive(c)' /\ ~Told(c)'
        BY <1>2, <1>3, <1>5
    <2>3. KeepsSlots'
        BY <1>1, <1>3, <2>2 DEF KeepsSlots, Lone, Alive, Told
    <2> QED
        BY <2>1, <2>3
<1> QED
    BY <1>8, <1>9, <1>10 DEF LoopInv

-----------------------------------------------------------------------------
(* A stop that begins takes charge of the loop whose sender is in the slot *)
(* and overlaps every start in progress.                                   *)
LEMMA StopStep ==
    ASSUME TypeOK, LoopInv, NEW c \in Calls, Stop(c)
    PROVE  LoopInv'
<1> USE DEF calls, tx, task, loops, Goto, Hold
<1>1. PICK at \in {"sendStop", "takeHandle"} :
          /\ pc' = [pc EXCEPT ![c] = at]
          /\ at = "sendStop" => txSlot # None /\ held'[c] = txSlot /\ txSlot' = None
          /\ at = "takeHandle" => txSlot = None /\ txSlot' = None
    BY DEF Stop, TypeOK
<1>2. /\ Kind[c] = "stop" /\ pc[c] = "begin" /\ \A l \in After[c] : Returned(l)
      /\ UNCHANGED <<handleSlot, handleLock, loop, queue>>
      /\ overlapped' = overlapped \cup {d \in Calls : Starting(d)}
      /\ \A d \in Calls \ {c} : held'[d] = held[d]
    BY DEF Stop, Called, TypeOK
<1>3. pc'[c] = at /\ \A d \in Calls \ {c} : pc'[d] = pc[d]
    BY <1>1 DEF TypeOK
<1>4. \A d \in Calls : /\ Starting(d)' <=> Starting(d)
                       /\ d # c => (Stopping(d)' <=> Stopping(d))
                       /\ Alive(d)' <=> Alive(d)
                       /\ Spawned(d)' <=> Spawned(d)
                       /\ Told(d)' <=> Told(d)
                       /\ Lone(d)' => Lone(d) /\ ~Starting(d)
    BY <1>1, <1>2, <1>3 DEF Starting, Stopping, Alive, Spawned, Told, Lone
<1>5. /\ txSlot # None => txSlot \in Calls
      /\ handleSlot # None => handleSlot \in Calls
      /\ \A d \in Calls : held[d] # None => held[d] \in Calls
    BY DEF TypeOK
<1>6. ~Spawned(c) /\ queue[c] = <<>> /\ (txSlot # None => Spawned(txSlot)) /\ ~Starting(c)
    BY <1>2 DEF LoopInv, SpawnedOK, SlotsOK, Starting
<1>7. ASSUME NEW d \in Calls PROVE KindOK(d)' /\ SpawnedOK(d)' /\ JoinOK(d)'
    <2>1. CASE d = c
        BY <1>1, <1>2, <1>3, <1>4, <1>5, <1>6, <2>1 DEF KindOK, SpawnedOK, JoinOK
    <2>2. CASE d # c
        BY <1>2, <1>3, <1>4, <1>5, <2>2 DEF LoopInv, KindOK, SpawnedOK, JoinOK
    <2> QED
        BY <2>1, <2>2
<1>8. ASSUME NEW l \in Calls PROVE StartOK(l)' /\ ReachedOK(l)'
    <2>1. StartOK(l)'
        BY <1>4 DEF StartOK
    <2>2. SUFFICES ASSUME Alive(l), pc'[l] = "done", Lone(l) PROVE ReachedOK(l)'
        BY <1>4, <2>1 DEF ReachedOK
    <2>3. l # c /\ pc[l] = "done"
        BY <1>1, <1>3, <2>2
    <2>4. handleSlot' = l \/ \E d \in Calls : pc'[d] = "join" /\ held'[d] = l
        BY <1>2, <1>3, <2>2, <2>3 DEF LoopInv, ReachedOK
    <2>5. \/ txSlot = l
          \/ Told(l)
          \/ \E d \in Calls : pc[d] = "sendStop" /\ held[d] = l
        BY <2>2, <2>3 DEF LoopInv, ReachedOK
    <2>6. txSlot = l => pc'[c] = "sendStop" /\ held'[c] = l
        BY <1>1, <1>3, PollingAssumption DEF None
    <2>7. Told(l)' \/ \E d \in Calls : pc'[d] = "sendStop" /\ held'[d] = l
        BY <1>2, <1>3, <1>4, <2>5, <2>6
    <2> QED
        BY <2>1, <2>4, <2>7 DEF ReachedOK
<1>9. ASSUME NEW d \in Calls PROVE StoppedOK(d)'
    <2>1. SUFFICES ASSUME Kind[d] = "stop", pc'[d] # "begin", NEW l \in After[d], Kind[l] = "start"
                   PROVE  /\ pc'[l] = "done"
                          /\ pc'[d] \in {"reset", "done"} /\ Lone(l)' => ~Alive(l)'
        BY DEF StoppedOK
    <2>2. l \in Calls /\ l # c
        BY <1>2, <2>1, PollingAssumption
    <2>3. CASE d = c
        BY <1>1, <1>2, <1>3, <2>1, <2>2, <2>3 DEF Returned
    <2>4. CASE d # c
        BY <1>3, <1>4, <2>1, <2>2, <2>4 DEF LoopInv, StoppedOK
    <2> QED
        BY <2>3, <2>4
<1>10. SlotsOK' /\ KeepsSlots'
    <2>1. SlotsOK'
        BY <1>1, <1>2, <1>3, <1>4, <1>5 DEF LoopInv, SlotsOK, Spawned
    <2>2. handleSlot # None /\ Lone(handleSlot)'
            => /\ \A d \in Calls : ~Starting(d)'
               /\ \/ Alive(handleSlot)' /\ ~Told(handleSlot)'
                  \/ \E d \in Calls : pc'[d] = "takeHandle"
        BY <1>2, <1>3, <1>4, <1>5 DEF LoopInv, KeepsSlots
    <2>3. KeepsSlots'
        BY <1>2, <2>2 DEF KeepsSlots, Lone, Alive, Told
    <2> QED
        BY <2>1, <2>3
<1> QED
    BY <1>7, <1>8, <1>9, <1>10 DEF LoopInv

(* A stop in progress leaves no lone start in progress beside it, and      *)
(* whoever is in charge of a lone loop has told it or is about to.         *)
LEMMA InCharge ==
    ASSUME LoopInv, NEW c \in Calls, Stopping(c), NEW l \in Calls
    PROVE  /\ ~(Starting(l) /\ Lone(l))
           /\ Alive(l) /\ pc[l] = "done" /\ Lone(l)
                => Told(l) \/ \E d \in Calls : pc[d] = "sendStop" /\ held[d] = l
BY DEF LoopInv, StartOK, ReachedOK, Starting, Stopping

LEMMA StopSendsStep ==
    ASSUME TypeOK, LoopInv, NEW c \in Calls, StopSends(c)
    PROVE  LoopInv'
<1> USE DEF calls, tx, task, loops, Goto, Hold
<1>1. /\ pc' = [pc EXCEPT ![c] = "takeHandle"] /\ pc[c] = "sendStop" /\ Stopping(c)
      /\ Send(held[c], "stop")
      /\ UNCHANGED <<held, txSlot, handleSlot, handleLock, loop, overlapped>>
    BY DEF StopSends, Stopping
<1>2. /\ pc'[c] = "takeHandle" /\ \A d \in Calls \ {c} : pc'[d] = pc[d]
      /\ \A d \in Calls : /\ d # c => /\ Starting(d)' <=> Starting(d)
                                      /\ Stopping(d)' <=> Stopping(d)
                          /\ Alive(d)' <=> Alive(d)
                          /\ Spawned(d)' <=> Spawned(d)
                          /\ Lone(d)' => Lone(d)
      /\ \A d \in Calls \ {c} : KindOK(d) /\ StoppedOK(d) => KindOK(d)' /\ StoppedOK(d)'
      /\ handleSlot # None => handleSlot \in Calls
      /\ txSlot # None => txSlot \in Calls
      /\ \A d \in Calls : held[d] # None => held[d] \in Calls
    BY <1>1, Moved
<1>3. Stopping(c)' /\ ~Starting(c)' /\ Kind[c] = "stop" /\ held[c] # None /\ Spawned(held[c])
      /\ ~Spawned(c)
    BY <1>1, <1>2 DEF LoopInv, KindOK, SpawnedOK, Starting, Stopping
<1>4. \A k \in Calls : /\ Told(k)' <=> Told(k) \/ (k = held[c] /\ loop[k] # "ended")
                       /\ k # held[c] => queue'[k] = queue[k]
    BY <1>1, <1>2, <1>3, SendTells DEF Messages
<1>5. ASSUME NEW d \in Calls PROVE KindOK(d)' /\ SpawnedOK(d)' /\ JoinOK(d)' /\ StoppedOK(d)'
    <2>1. ~Spawned(d) => queue'[d] = <<>>
        BY <1>3, <1>4 DEF LoopInv, SpawnedOK
    <2>2. CASE d = c
        <3>1. StoppedOK(c)'
            <4>1. SUFFICES ASSUME NEW l \in After[c], Kind[l] = "start" PROVE pc'[l] = "done"
                BY <1>2 DEF StoppedOK
            <4>2. l \in Calls /\ l # c
                BY <1>3, <4>1, PollingAssumption
            <4> QED
                BY <1>1, <1>2, <1>3, <4>1, <4>2 DEF LoopInv, StoppedOK
        <3> QED
            BY <1>2, <1>3, <2>1, <2>2, <3>1 DEF KindOK, SpawnedOK, JoinOK
    <2>3. CASE d # c
        BY <1>1, <1>2, <2>1, <2>3 DEF LoopInv, SpawnedOK, JoinOK
    <2> QED
        BY <2>2, <2>3
<1>6. ASSUME NEW l \in Calls PROVE StartOK(l)' /\ ReachedOK(l)'
    <2>1. StartOK(l)'
        BY <1>1, <1>2, <1>3, InCharge DEF StartOK
    <2>2. SUFFICES ASSUME Alive(l), pc'[l] = "done", Lone(l) PROVE ReachedOK(l)'
        BY <1>2, <2>1 DEF ReachedOK
    <2>3. l # c /\ pc[l] = "done"
        BY <1>2, <2>2
    <2>4. handleSlot' = l \/ \E d \in Calls : pc'[d] = "join" /\ held'[d] = l
        BY <1>1, <1>2, <2>2, <2>3 DEF LoopInv, ReachedOK
    <2>5. Told(l) \/ \E d \in Calls : pc[d] = "sendStop" /\ held[d] = l
        BY <1>1, <2>2, <2>3, InCharge
    <2>6. Told(l)' \/ \E d \in Calls : pc'[d] = "sendStop" /\ held'[d] = l
        BY <1>1, <1>2, <1>4, <2>2, <2>5 DEF Alive
    <2> QED
        BY <2>1, <2>4, <2>6 DEF ReachedOK
<1>7. SlotsOK' /\ KeepsSlots'
    <2>1. SlotsOK'
        BY <1>1, <1>2, <1>3 DEF LoopInv, SlotsOK
    <2>2. handleSlot # None /\ Lone(handleSlot) => \A d \in Calls : ~Starting(d)'
        BY <1>2, <1>3 DEF LoopInv, KeepsSlots
    <2> QED
        BY <1>1, <1>2, <2>1, <2>2 DEF KeepsSlots, Lone
<1> QED
    BY <1>5, <1>6, <1>7 DEF LoopInv

LEMMA TakeHandleStep ==
    ASSUME TypeOK, LoopInv, NEW c \in Calls, StopTakesHandle(c)
    PROVE  LoopInv'
<1> USE DEF calls, tx, task, loops, Goto, Hold
<1>1. PICK at \in {"join", "reset"} :
          /\ pc' = [pc EXCEPT ![c] = at]
          /\ at = "reset" => handleSlot = None /\ held' = held /\ handleLock' = handleLock
          /\ at = "join" => /\ handleSlot # None /\ held'[c] = handleSlot /\ handleLock' = c
                            /\ \A d \in Calls \ {c} : held'[d] = held[d]
    BY DEF StopTakesHandle, TypeOK
<1>2. /\ pc[c] = "takeHandle" /\ Stopping(c) /\ handleLock = None /\ handleSlot' = None
      /\ UNCHANGED <<txSlot, loop, queue, overlapped>>
      /\ \A d \in Calls \ {c} : held'[d] = held[d]
    BY DEF StopTakesHandle, Stopping, TypeOK
<1>3. /\ pc'[c] = at /\ \A d \in Calls \ {c} : pc'[d] = pc[d]
      /\ \A d \in Calls : /\ d # c => /\ Starting(d)' <=> Starting(d)
                                      /\ Stopping(d)' <=> Stopping(d)
                          /\ Alive(d)' <=> Alive(d)
                          /\ Spawned(d)' <=> Spawned(d)
                          /\ Lone(d)' => Lone(d)
      /\ \A d \in Calls \ {c} : KindOK(d) /\ StoppedOK(d) => KindOK(d)' /\ StoppedOK(d)'
      /\ handleSlot # None => handleSlot \in Calls
      /\ txSlot # None => txSlot \in Calls
      /\ \A d \in Calls : held[d] # None => held[d] \in Calls
    BY <1>1, <1>2, Moved
<1>4. ~Starting(c)' /\ Kind[c] = "stop" /\ ~Spawned(c) /\ queue[c] = <<>>
      /\ \A k \in Calls : Told(k)' <=> Told(k)
    BY <1>1, <1>2, <1>3 DEF LoopInv, KindOK, SpawnedOK, Starting, Stopping, Told
<1>5. \A d \in Calls : pc[d] # "join"
    BY <1>2, NoJoin
<1>6. \A l \in Calls : Alive(l) /\ pc[l] = "done" /\ Lone(l) => handleSlot = l
    BY <1>5 DEF LoopInv, ReachedOK
<1>7. handleSlot # None => Spawned(handleSlot) /\ pc[handleSlot] = "done" /\ handleSlot # c
    BY <1>2 DEF LoopInv, SlotsOK
<1>8. StoppedOK(c)'
    <2>1. SUFFICES ASSUME NEW l \in After[c], Kind[l] = "start"
                   PROVE  pc'[l] = "done" /\ (at = "reset" /\ Lone(l)' => ~Alive(l)')
        BY <1>3 DEF StoppedOK
    <2>2. l \in Calls /\ l # c
        BY <1>4, <2>1, PollingAssumption
    <2>3. pc[l] = "done"
        BY <1>2, <1>4, <2>1, <2>2 DEF LoopInv, StoppedOK
    <2>4. at = "reset" /\ Lone(l) => ~Alive(l)
        BY <1>1, <1>6, <2>2, <2>3, PollingAssumption DEF None
    <2> QED
        BY <1>3, <2>2, <2>3, <2>4
<1>9. ASSUME NEW d \in Calls PROVE KindOK(d)' /\ SpawnedOK(d)' /\ JoinOK(d)' /\ StoppedOK(d)'
    <2>1. CASE d = c
        <3>1. JoinOK(c)'
            BY <1>1, <1>2, <1>3, <1>7 DEF JoinOK
        <3> QED
            BY <1>2, <1>3, <1>4, <1>8, <2>1, <3>1 DEF KindOK, SpawnedOK
    <2>2. CASE d # c
        BY <1>2, <1>3, <1>5, <2>2 DEF LoopInv, SpawnedOK, JoinOK
    <2> QED
        BY <2>1, <2>2
<1>10. ASSUME NEW l \in Calls PROVE StartOK(l)' /\ ReachedOK(l)'
    <2>1. StartOK(l)'
        BY <1>2, <1>3, <1>4, InCharge DEF StartOK
    <2>2. SUFFICES ASSUME Alive(l), pc'[l] = "done", Lone(l) PROVE ReachedOK(l)'
        BY <1>3, <2>1 DEF ReachedOK
    <2>3. l # c /\ pc[l] = "done" /\ handleSlot = l
        BY <1>3, <1>6, <2>2
    <2>4. pc'[c] = "join" /\ held'[c] = l
        BY <1>1, <1>3, <2>3, PollingAssumption DEF None
    <2>5. Told(l) \/ \E d \in Calls : pc[d] = "sendStop" /\ held[d] = l
        BY <1>2, <2>2, <2>3, InCharge
    <2>6. Told(l)' \/ \E d \in Calls : pc'[d] = "sendStop" /\ held'[d] = l
        BY <1>2, <1>3, <1>4, <2>5
    <2> QED
        BY <2>1, <2>4, <2>6 DEF ReachedOK
<1>11. SlotsOK' /\ KeepsSlots'
    BY <1>2, <1>3 DEF LoopInv, SlotsOK, KeepsSlots
<1> QED
    BY <1>9, <1>10, <1>11 DEF LoopInv

(* The loop that was waited for has ended, and no lone loop is left behind *)
(* the lock.                                                               *)
LEMMA StopEndsStep ==
    ASSUME TypeOK, LoopInv, NEW c \in Calls, StopJoins(c) \/ StopResets(c)
    PROVE  LoopInv'
<1> USE DEF calls, tx, task, loops, Goto, Hold
<1>1. PICK at \in {"reset", "done"} :
          /\ pc' = [pc EXCEPT ![c] = at]
          /\ at = "reset" => pc[c] = "join" /\ loop[held[c]] = "ended" /\ handleLock' = None
          /\ at = "done" => pc[c] = "reset" /\ handleLock' = handleLock
    BY DEF StopJoins, StopResets
<1>2. UNCHANGED <<held, txSlot, handleSlot, loop, queue, overlapped>> /\ pc[c] \in {"join", "reset"}
    BY DEF StopJoins, StopResets
<1>3. /\ pc'[c] = at /\ \A d \in Calls \ {c} : pc'[d] = pc[d]
      /\ \A d \in Calls : /\ d # c => /\ Starting(d)' <=> Starting(d)
                                      /\ Stopping(d)' <=> Stopping(d)
                          /\ Alive(d)' <=> Alive(d)
                          /\ Spawned(d)' <=> Spawned(d)
                          /\ Lone(d)' => Lone(d)
      /\ \A d \in Calls \ {c} : KindOK(d) /\ StoppedOK(d) => KindOK(d)' /\ StoppedOK(d)'
      /\ handleSlot # None => handleSlot \in Calls
      /\ txSlot # None => txSlot \in Calls
      /\ \A d \in Calls : held[d] # None => held[d] \in Calls
    BY <1>1, <1>2, Moved
<1>4. ~Starting(c)' /\ ~Starting(c) /\ ~Stopping(c)' /\ Kind[c] = "stop" /\ ~Spawned(c) /\ queue[c] = <<>>
      /\ \A k \in Calls : (Told(k)' <=> Told(k)) /\ (Lone(k)' <=> Lone(k))
    BY <1>1, <1>2, <1>3 DEF LoopInv, KindOK, SpawnedOK, Starting, Stopping, Told, Lone
<1>5. \A d \in Calls : pc[d] = "join" /\ at = "reset" => d = c
    BY <1>1 DEF LoopInv, JoinOK
<1>6. at = "reset" => \A l \in Calls : Alive(l) /\ Lone(l) => pc[l] # "done"
    <2>1. SUFFICES ASSUME at = "reset", NEW l \in Calls, Alive(l), Lone(l), pc[l] = "done" PROVE FALSE
        OBVIOUS
    <2>2. handleSlot = None
        BY <1>1, <2>1 DEF LoopInv, JoinOK
    <2>3. PICK d \in Calls : pc[d] = "join" /\ held[d] = l
        BY <2>1, <2>2, PollingAssumption DEF LoopInv, ReachedOK, None
    <2>4. d = c
        BY <1>5, <2>1, <2>3
    <2> QED
        BY <1>1, <2>1, <2>3, <2>4 DEF Alive
<1>7. StoppedOK(c)'
    <2>1. SUFFICES ASSUME NEW l \in After[c], Kind[l] = "start"
                   PROVE  pc'[l] = "done" /\ (Lone(l)' => ~Alive(l)')
        BY <1>3 DEF StoppedOK
    <2>2. l \in Calls /\ l # c
        BY <1>4, <2>1, PollingAssumption
    <2>3. pc[l] = "done" /\ (pc[c] = "reset" /\ Lone(l) => ~Alive(l))
        BY <1>2, <1>4, <2>1, <2>2 DEF LoopInv, StoppedOK
    <2> QED
        BY <1>1, <1>3, <1>4, <1>6, <2>2, <2>3
<1>8. ASSUME NEW d \in Calls PROVE KindOK(d)' /\ SpawnedOK(d)' /\ JoinOK(d)' /\ StoppedOK(d)'
    <2>1. CASE d = c
        BY <1>1, <1>2, <1>3, <1>4, <1>7, <2>1 DEF KindOK, SpawnedOK, JoinOK
    <2>2. CASE d # c
        <3>1. JoinOK(d)'
            BY <1>1, <1>2, <1>3, <1>5, <2>2 DEF LoopInv, JoinOK
        <3>2. SpawnedOK(d)'
            BY <1>2, <1>3, <2>2 DEF LoopInv, SpawnedOK
        <3> QED
            BY <1>3, <2>2, <3>1, <3>2 DEF LoopInv
    <2> QED
        BY <2>1, <2>2
<1>9. ASSUME NEW l \in Calls PROVE StartOK(l)' /\ ReachedOK(l)'
    <2>1. StartOK(l)'
        BY <1>2, <1>3, <1>4 DEF LoopInv, StartOK
    <2>2. SUFFICES ASSUME Alive(l), pc'[l] = "done", Lone(l) PROVE ReachedOK(l)'
        BY <1>3, <1>4, <2>1 DEF ReachedOK
    <2>3. l # c /\ pc[l] = "done" /\ at = "done"
        BY <1>1, <1>3, <1>4, <1>6, <2>2 DEF Alive, Spawned
    <2>4. \A d \in Calls : pc[d] \in {"join", "sendStop"} => pc'[d] = pc[d] /\ held'[d] = held[d]
        BY <1>1, <1>2, <1>3, <2>3
    <2>5. \A d \in Calls : Stopping(d)' => Stopping(d)
        BY <1>3, <1>4
    <2> QED
        BY <1>2, <1>4, <2>2, <2>3, <2>4, <2>5 DEF LoopInv, ReachedOK
<1>10. SlotsOK' /\ KeepsSlots'
    <2>1. SlotsOK'
        BY <1>2, <1>3, <1>4 DEF LoopInv, SlotsOK
    <2>2. handleSlot # None /\ Lone(handleSlot)
            => /\ \A d \in Calls : ~Starting(d)'
               /\ \/ Alive(handleSlot)' /\ ~Told(handleSlot)'
                  \/ \E d \in Calls : pc'[d] = "takeHandle"
        BY <1>2, <1>3, <1>4 DEF LoopInv, KeepsSlots
    <2>3. KeepsSlots'
        BY <1>2, <2>2 DEF KeepsSlots, Lone, Alive, Told
    <2> QED
        BY <2>1, <2>3
<1> QED
    BY <1>8, <1>9, <1>10 DEF LoopInv

-----------------------------------------------------------------------------
LEMMA LoopInit == Init => LoopInv
BY PollingAssumption
   DEF Init, LoopInv, KindOK, SpawnedOK, SlotsOK, JoinOK, StartOK, KeepsSlots, ReachedOK,
       StoppedOK, Starting, Stopping, Spawned, Alive, Told, None

LEMMA LoopStep == TypeOK /\ LoopInv /\ [Next]_vars => LoopInv'
<1> SUFFICES ASSUME TypeOK, LoopInv, [Next]_vars PROVE LoopInv'
    OBVIOUS
<1>1. CASE UNCHANGED vars
    BY <1>1 DEF vars, calls, tx, task, loops, LoopInv, KindOK, SpawnedOK, SlotsOK, JoinOK,
       StartOK, KeepsSlots, ReachedOK, StoppedOK, Starting, Stopping, Spawned, Alive, Told, Lone
<1>2. CASE Next
    BY <1>2, OtherCalls, LoopSteps, StartReturns, StartSpawns, StartedStep, HandleStep, StopStep,
       StopSendsStep, TakeHandleStep, StopEndsStep DEF Next, Command
<1> QED
    BY <1>1, <1>2

(* Two loops that run are not both of lone starts, and the handle in the   *)
(* slot is that of a loop that runs or that a stop is about to take,       *)
(* unless its start overlapped another start or a stop.                    *)
THEOREM OneLoopHolds == Spec => []OneLoop
<1>1. LoopInv /\ TypeOK => OneLoop
    <2> SUFFICES ASSUME LoopInv, TypeOK PROVE OneLoop
        OBVIOUS
    <2>1. ASSUME NEW k \in Calls, NEW l \in Calls, Alive(k), Alive(l), Lone(k), Lone(l)
          PROVE  k = l
        <3>1. \A m \in {k, l} : Starting(m) \/ pc[m] = "done"
            BY <2>1 DEF LoopInv, SpawnedOK, Spawned, Alive
        <3>2. \A m \in {k, l} : pc[m] = "done" =>
                  handleSlot = m \/ \E c \in Calls : pc[c] = "join" /\ held[c] = m
            BY <2>1 DEF LoopInv, ReachedOK
        <3>3. \A m \in {k, l} : Starting(m) =>
                  handleSlot = None /\ \A d \in Calls : d # m => ~Starting(d) /\ ~Stopping(d)
            BY <2>1 DEF LoopInv, StartOK
        <3>4. \A c \in Calls : pc[c] = "join" => Stopping(c) /\ ~Starting(c)
                                                /\ handleSlot = None /\ handleLock = c
            BY DEF LoopInv, JoinOK, Starting, Stopping
        <3>5. None \notin Calls
            BY PollingAssumption DEF None
        <3>6. CASE Starting(k) \/ Starting(l)
            BY <3>1, <3>2, <3>3, <3>4, <3>5, <3>6
        <3>7. CASE pc[k] = "done" /\ pc[l] = "done"
            BY <3>2, <3>4, <3>5, <3>7
        <3> QED
            BY <3>1, <3>6, <3>7
    <2>2. \A k, l \in Calls : Alive(k) /\ Alive(l) /\ k # l => {k, l} \cap overlapped # {}
        BY <2>1 DEF Lone
    <2>3. handleSlot # None => \/ Alive(handleSlot)
                               \/ \E c \in Calls : pc[c] = "takeHandle"
                               \/ handleSlot \in overlapped
        BY DEF LoopInv, KeepsSlots, Lone
    <2> QED
        BY <2>2, <2>3 DEF OneLoop
<1> QED
    BY <1>1, LoopInit, LoopStep, TypeCorrect, PTL DEF Spec

(* When a stop has returned, the loops of the lone starts before it have   *)
(* ended; and it waits for the loop of a lone start only if somebody tells *)
(* that loop to end.                                                       *)
THEOREM StopStopsHolds == Spec => []StopStops
<1>1. LoopInv => StopStops
    <2> SUFFICES ASSUME LoopInv, NEW c \in Calls, NEW l \in Calls, Kind[c] = "stop", Alive(l),
                        l \notin overlapped
                 PROVE  /\ pc[c] = "done" => ~(Kind[l] = "start" /\ l \in After[c])
                        /\ pc[c] = "join" /\ held[c] = l =>
                              Told(l) \/ \E d \in Calls : pc[d] = "sendStop" /\ held[d] = l
        BY DEF StopStops
    <2>1. pc[c] = "done" => ~(Kind[l] = "start" /\ l \in After[c])
        BY DEF LoopInv, StoppedOK, Lone
    <2>2. pc[c] = "join" /\ held[c] = l => Stopping(c) /\ pc[l] = "done"
        BY DEF LoopInv, JoinOK, Stopping
    <2> QED
        BY <2>1, <2>2, InCharge DEF Lone
<1> QED
    BY <1>1, LoopInit, LoopStep, TypeCorrect, PTL DEF Spec
=============================================================================
