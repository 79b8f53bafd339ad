---------------------------- MODULE MonitorWakes ----------------------------
(***************************************************************************)
(* Monitors and the turns they wake (phoson_plugin_monitor and the wake    *)
(* loop of the session controller).                                        *)
(*                                                                         *)
(* A monitor is a registry entry, a watcher task and the events it queued. *)
(* Registry and queue are files that the plugin instance loads once and    *)
(* rewrites whole from its memory.  An engine rebuild loads a new instance *)
(* from the files while the old one is still closing: plugins are closed   *)
(* one after the other, in load order.  A turn, typed or started by the    *)
(* wake loop, drains the queue into its first message and makes it durable *)
(* at its first checkpoint.                                                *)
(***************************************************************************)
EXTENDS Naturals, FiniteSets

CONSTANTS
    Keys,         \* registry keys: a name in a working directory
    Sessions,     \* conversation trees
    DirOf,        \* the working directory of a key and of a session
    Data,         \* what a watcher may have to report
    Cap,          \* max_pending_per_monitor
    MaxFires,     \* bound: events queued
    MaxLoads,     \* bound: plugin instances, by start and by engine rebuild
    MaxRegister,  \* bound: registrations
    Faults        \* what the code does not survive: "late_close": after a rebuild a watcher of
                  \* the old instance acts before its close, or a wake turn drains it;
                  \* "poll_in_stop": a poll comes while a stop waits for its watcher

ASSUME MonitorAssumption ==
    /\ DOMAIN DirOf = Keys \cup Sessions
    /\ Cap \in Nat \ {0}
    /\ MaxFires \in Nat /\ MaxLoads \in Nat /\ MaxRegister \in Nat
    /\ Faults \subseteq {"late_close", "poll_in_stop"}

VARIABLES
    disk,       \* monitors.json and wake.jsonl
    mem,        \* what each plugin instance loaded, and whether it was closed
    cur,        \* the instance of the engine, 0 while no host runs
    loads,      \* instances so far
    held,       \* the watchers an instance holds in _tasks
    stray,      \* watchers that run although _tasks lost them
    stopping,   \* monitors whose stop_monitor waits for their watcher
    registered, \* registrations so far
    session,    \* the session the host shows
    turn,       \* who holds _turn_lock, and how far its turn came
    wakeOp,     \* the instance whose events a wake turn wants once it has the lock, or 0
    nextId,     \* the next event
    said,       \* how often an event entered the conversation
    saved       \* how often it is in the saved conversation

files == <<disk, mem>>
watchers == <<held, stray, stopping>>
convo == <<said, saved>>
vars == <<disk, mem, cur, loads, held, stray, stopping, registered, session, turn,
          wakeOp, nextId, said, saved>>

Loads == 1..MaxLoads
Ids == 1..MaxFires
Absent == [state |-> "absent", sess |-> "none"]
Entry == {Absent} \cup [state : {"running", "stopped"}, sess : Sessions]
Event == [id : Ids, key : Keys, sess : Sessions, data : Data, noted : BOOLEAN]
Instance == [open : {"no", "yes", "closing", "closed"},
             reg : [Keys -> Entry], queue : SUBSET Event]
Unloaded == [open |-> "no", reg |-> [k \in Keys |-> Absent], queue |-> {}]

\* The types of everything but the conversations.
ControlOK ==
    /\ disk \in [reg : [Keys -> Entry], queue : SUBSET Event]
    /\ mem \in [Loads -> Instance]
    /\ loads \in 0..MaxLoads /\ cur \in 0..loads
    /\ held \in [Loads -> SUBSET Keys] /\ stray \in [Loads -> SUBSET Keys]
    /\ stopping \subseteq Keys
    /\ registered \in 0..MaxRegister
    /\ session \in Sessions
    /\ turn \in {"free", "appended", "durable"}
    /\ wakeOp \in 0..loads
    /\ nextId \in 1..(MaxFires + 1)

MonitorTypeOK ==
    /\ ControlOK
    /\ said \in [Ids -> 0..2] /\ saved \in [Ids -> 0..2]

InQueue(q) == {e.id : e \in q}

Closing == {i \in Loads : mem[i].open = "closing"}

\* A watcher of an old instance is cancelled before it acts again.
Prompt(i) == "late_close" \in Faults \/ mem[i].open = "yes"

\* The event that waits longest: events are numbered in the order they are queued.
Oldest(q) == CHOOSE e \in q : \A f \in q : e.id <= f.id

\* Seeded fault: the tick only looks at the oldest event of the queue.
Pending_Oldest(q, s) == {e \in q : e = Oldest(q) /\ e.sess = s}

\* WakeQueue.pending.
Pending(q, s) == {e \in q : e.sess = s}

-----------------------------------------------------------------------------
(* The files *)

\* MonitorStore._save.
SaveRegistry(i, reg) ==
    /\ mem' = [mem EXCEPT ![i].reg = reg]
    /\ disk' = [disk EXCEPT !.reg = reg]

\* Seeded fault: the cap counts the events of all monitors.
Append1_OneCap(q, e) ==
    LET full == Cardinality(q) + 1 > Cap
    IN  (IF full THEN q \ {Oldest(q)} ELSE q) \cup {[e EXCEPT !.noted = full]}

\* WakeQueue.append: nothing for what is pending already, the oldest gives way.
Append1(q, e) ==
    LET own == {x \in q : x.key = e.key}
        same == \E x \in own : ~x.noted /\ x.data = e.data
        full == Cardinality(own) + 1 > Cap
        kept == IF full THEN q \ {Oldest(own)} ELSE q
    IN  IF same THEN q ELSE kept \cup {[e EXCEPT !.noted = full]}

\* _fire: an unknown monitor's fire is dropped; mark_fired saves the registry.
Fire(i, k) ==
    /\ Prompt(i)
    /\ k \in held[i] \cup stray[i]
    /\ mem[i].reg[k] # Absent
    /\ nextId <= MaxFires
    /\ \E d \in Data :
           LET e == [id |-> nextId, key |-> k, sess |-> mem[i].reg[k].sess,
                     data |-> d, noted |-> FALSE]
               q == Append1(mem[i].queue, e)
           IN  /\ mem' = [mem EXCEPT ![i].queue = q]
               /\ disk' = [reg |-> mem[i].reg,
                           queue |-> IF q = mem[i].queue THEN disk.queue ELSE q]
               /\ nextId' = IF q = mem[i].queue THEN nextId ELSE nextId + 1
    /\ UNCHANGED <<cur, loads, registered, session, turn, wakeOp>>
    /\ UNCHANGED watchers /\ UNCHANGED convo

\* _mark_stopped, of a watcher that completed or crashed: whichever task _tasks holds
\* under the key is forgotten.
WatcherEnds(i, k) ==
    /\ Prompt(i)
    /\ k \in held[i] \cup stray[i]
    /\ stray' = [stray EXCEPT ![i] = IF k \in held[i] THEN @ ELSE @ \ {k}]
    /\ held' = [held EXCEPT ![i] = @ \ {k}]
    /\ IF mem[i].reg[k].state = "running"
         THEN SaveRegistry(i, [mem[i].reg EXCEPT ![k].state = "stopped"])
         ELSE UNCHANGED files
    /\ UNCHANGED <<cur, loads, stopping, registered, session, turn, wakeOp, nextId>>
    /\ UNCHANGED convo

-----------------------------------------------------------------------------
(* Tools of a turn *)

\* _register_monitor: the task of an entry that is gone is overwritten in _tasks.
Register(k) ==
    /\ cur # 0 /\ turn # "free"
    /\ registered < MaxRegister
    /\ DirOf[k] = DirOf[session] /\ stopping = {}
    /\ mem[cur].reg[k] = Absent
    /\ SaveRegistry(cur, [mem[cur].reg EXCEPT
                             ![k] = [state |-> "running", sess |-> session]])
    /\ stray' = [stray EXCEPT ![cur] = IF k \in held[cur] THEN @ \cup {k} ELSE @]
    /\ held' = [held EXCEPT ![cur] = @ \cup {k}]
    /\ registered' = registered + 1
    /\ UNCHANGED <<cur, loads, stopping, session, turn, wakeOp, nextId>>
    /\ UNCHANGED convo

\* _stop_monitor: forget the watcher, cancel it and wait for it ...
StopMonitor(k) ==
    /\ cur # 0 /\ turn # "free"
    /\ DirOf[k] = DirOf[session]
    /\ mem[cur].reg[k] # Absent /\ stopping = {}
    /\ held' = [held EXCEPT ![cur] = @ \ {k}]
    /\ stopping' = stopping \cup {k}
    /\ UNCHANGED <<cur, loads, stray, registered, session, turn, wakeOp, nextId>>
    /\ UNCHANGED files /\ UNCHANGED convo

\* ... then remove the entry.
StopReturns(k) ==
    /\ k \in stopping
    /\ stopping' = stopping \ {k}
    /\ IF mem[cur].reg[k] # Absent
         THEN SaveRegistry(cur, [mem[cur].reg EXCEPT ![k] = Absent])
         ELSE UNCHANGED files
    /\ UNCHANGED <<cur, loads, held, stray, registered, session, turn, wakeOp, nextId>>
    /\ UNCHANGED convo

-----------------------------------------------------------------------------
(* The wake loop *)

InScope(k) == DirOf[k] = DirOf[session]

Wanted == {k \in Keys : mem[cur].reg[k].state = "running" /\ InScope(k)}

\* ensure_started: by every poll (reconcile_scope) and after every load.
Reconcile ==
    /\ cur # 0
    /\ "poll_in_stop" \in Faults \/ Wanted \cap stopping = {}
    /\ held' = [held EXCEPT ![cur] = Wanted]
    /\ UNCHANGED <<stray, stopping>>

\* _wake_loop_tick: follow the scope, then start a wake turn if the host is idle and an
\* event of the session is pending.
Tick ==
    /\ wakeOp = 0
    /\ Reconcile
    /\ wakeOp' = IF turn = "free" /\ Pending(mem[cur].queue, session) # {} THEN cur ELSE 0
    /\ UNCHANGED <<cur, loads, registered, session, turn, nextId>>
    /\ UNCHANGED files /\ UNCHANGED convo

\* Seeded fault: consume leaves the file to the next rewrite.
Drain_MemoryOnly(i) ==
    LET got == InQueue(Pending(mem[i].queue, session))
        rest == mem[i].queue \ Pending(mem[i].queue, session)
    IN  /\ mem' = [mem EXCEPT ![i].queue = rest]
        /\ UNCHANGED disk
        /\ said' = [x \in Ids |-> IF x \in got THEN said[x] + 1 ELSE said[x]]

\* drain_pending_wakes: consume rewrites the queue file even when nothing was pending.
Drain(i) ==
    LET got == InQueue(Pending(mem[i].queue, session))
        rest == mem[i].queue \ Pending(mem[i].queue, session)
    IN  /\ mem' = [mem EXCEPT ![i].queue = rest]
        /\ disk' = [disk EXCEPT !.queue = rest]
        /\ said' = [x \in Ids |-> IF x \in got THEN said[x] + 1 ELSE said[x]]

\* run_turn: drain and append without an await in between.
UserTurn ==
    /\ cur # 0 /\ turn = "free"
    /\ Drain(cur)
    /\ turn' = "appended"
    /\ UNCHANGED <<cur, loads, registered, session, wakeOp, nextId, saved>>
    /\ UNCHANGED watchers

\* _run_wake_turn: a typed turn may have drained the events first.
WakeTurn ==
    /\ wakeOp # 0 /\ turn = "free"
    /\ Drain(wakeOp)
    /\ turn' = IF Pending(mem[wakeOp].queue, session) # {} THEN "appended" ELSE "free"
    /\ wakeOp' = 0
    /\ UNCHANGED <<cur, loads, registered, session, nextId, saved>>
    /\ UNCHANGED watchers

\* The wake turn is cancelled while it waits for the lock.
CancelWake ==
    /\ wakeOp # 0
    /\ wakeOp' = 0
    /\ UNCHANGED <<cur, loads, registered, session, turn, nextId>>
    /\ UNCHANGED files /\ UNCHANGED watchers /\ UNCHANGED convo

\* _checkpoint of _execute_turn.
Checkpoint ==
    /\ turn = "appended"
    /\ turn' = "durable"
    /\ saved' = said
    /\ UNCHANGED <<cur, loads, registered, session, wakeOp, nextId, said>>
    /\ UNCHANGED files /\ UNCHANGED watchers

\* The turn returns, or is cancelled and _abort_turn saves it.
EndTurn ==
    /\ turn # "free" /\ stopping = {}
    /\ turn' = "free"
    /\ saved' = said
    /\ UNCHANGED <<cur, loads, registered, session, wakeOp, nextId, said>>
    /\ UNCHANGED files /\ UNCHANGED watchers

\* /new and /load: the next tick follows to the directory of the session.
SwitchSession ==
    /\ cur # 0 /\ turn = "free"
    /\ session' \in Sessions \ {session}
    /\ UNCHANGED <<cur, loads, registered, turn, wakeOp, nextId>>
    /\ UNCHANGED files /\ UNCHANGED watchers /\ UNCHANGED convo

-----------------------------------------------------------------------------
(* Instances *)

\* Seeded fault: initialize starts every monitor of the registry.
Loaded_Revives(m) ==
    [m EXCEPT ![loads + 1] =
        [open |-> "yes", queue |-> disk.queue,
         reg |-> [k \in Keys |-> IF disk.reg[k] = Absent THEN Absent
                                 ELSE [disk.reg[k] EXCEPT !.state = "running"]]]]

\* MonitorPlugin.initialize of a new instance.
Loaded(m) ==
    [m EXCEPT ![loads + 1] = [open |-> "yes", reg |-> disk.reg, queue |-> disk.queue]]

\* Seeded fault: aclose forgets its tasks without cancelling them.
Closed_LeavesTasks(i) ==
    /\ UNCHANGED held
    /\ disk' = [disk EXCEPT !.reg = mem[i].reg]

\* aclose: cancel the watchers of _tasks, flush the registry.
Closed(i) ==
    /\ held' = [held EXCEPT ![i] = {}]
    /\ disk' = [disk EXCEPT !.reg = mem[i].reg]

\* A host starts, in some session.
StartHost ==
    /\ cur = 0 /\ loads < MaxLoads
    /\ mem' = Loaded(mem)
    /\ cur' = loads + 1 /\ loads' = loads + 1
    /\ session' \in Sessions
    /\ UNCHANGED <<disk, registered, turn, wakeOp, nextId>>
    /\ UNCHANGED watchers /\ UNCHANGED convo

\* _rebuild_engine, by a command between turns: the old instance is closed by a task.
Rebuild ==
    /\ cur # 0 /\ turn = "free" /\ loads < MaxLoads
    /\ "late_close" \in Faults \/ wakeOp = 0
    /\ cur' = loads + 1 /\ loads' = loads + 1
    /\ mem' = [Loaded(mem) EXCEPT ![cur].open = "closing"]
    /\ UNCHANGED <<disk, registered, session, turn, wakeOp, nextId>>
    /\ UNCHANGED watchers /\ UNCHANGED convo

CloseOld(i) ==
    /\ i \in Closing
    /\ mem' = [mem EXCEPT ![i].open = "closed"]
    /\ Closed(i)
    /\ UNCHANGED <<cur, loads, stray, stopping, registered, session, turn, wakeOp,
                   nextId>>
    /\ UNCHANGED convo

\* The process ends: nothing but the files and the saved conversation is left.
Gone ==
    /\ cur' = 0
    /\ mem' = [i \in Loads |-> [mem[i] EXCEPT !.open = IF @ = "no" THEN "no" ELSE "closed"]]
    /\ held' = [i \in Loads |-> {}] /\ stray' = [i \in Loads |-> {}]
    /\ stopping' = {}
    /\ turn' = "free" /\ wakeOp' = 0
    /\ said' = saved
    /\ UNCHANGED <<loads, registered, session, nextId, saved>>

Crash ==
    /\ cur # 0
    /\ Gone
    /\ UNCHANGED disk

\* shutdown: the wake loop ends first, then the plugins are closed.
Shutdown ==
    /\ cur # 0 /\ turn = "free"
    /\ Gone
    /\ disk' = [disk EXCEPT !.reg = mem[cur].reg]

MonitorInit ==
    /\ disk = [reg |-> [k \in Keys |-> Absent], queue |-> {}]
    /\ mem = [i \in Loads |-> Unloaded]
    /\ cur = 0 /\ loads = 0 /\ registered = 0
    /\ held = [i \in Loads |-> {}] /\ stray = [i \in Loads |-> {}]
    /\ stopping = {}
    /\ session \in Sessions
    /\ turn = "free" /\ wakeOp = 0
    /\ nextId = 1
    /\ said = [x \in Ids |-> 0] /\ saved = [x \in Ids |-> 0]

MonitorNext ==
    \/ \E i \in Loads, k \in Keys : Fire(i, k) \/ WatcherEnds(i, k)
    \/ \E k \in Keys : Register(k) \/ StopMonitor(k) \/ StopReturns(k)
    \/ Tick \/ UserTurn \/ WakeTurn \/ CancelWake \/ Checkpoint \/ EndTurn
    \/ SwitchSession
    \/ StartHost \/ Rebuild \/ Crash \/ Shutdown
    \/ \E i \in Loads : CloseOld(i)

\* The loop polls, a started turn goes on and a cancelled watcher is waited for; users,
\* watchers, cancellations and crashes need not come, nor the close of an old instance.
MonitorSpec ==
    /\ MonitorInit /\ [][MonitorNext]_vars
    /\ WF_vars(Tick) /\ SF_vars(WakeTurn) /\ WF_vars(EndTurn)
    /\ WF_vars(\E k \in Keys : StopReturns(k))

-----------------------------------------------------------------------------
(* Properties *)

\* Where an event is: on disk or in memory, in a conversation, or given up.
Place(x) ==
    CASE saved[x] = 1 -> "delivered"
      [] saved[x] > 1 -> "twice"
      [] saved[x] = 0 /\ said[x] > 0 -> "queued"
      [] OTHER -> IF x >= nextId THEN "unsent"
                  ELSE IF x \in InQueue(IF cur = 0 THEN disk.queue ELSE mem[cur].queue)
                         THEN "queued" ELSE "dropped"

Box == INSTANCE Delivery WITH where <- [x \in Ids |-> Place(x)], Messages <- Ids,
                              MayDrop <- TRUE

\* An event of a monitor enters the saved conversation at most once, and one that was
\* given up or consumed never returns, over restarts, rebuilds and crashes: wake.jsonl
\* is equal to the queue in memory (WakeQueue), and a drain happens inside the turn lock.
DeliveredOnce == Box!DeliverySpec

\* A queued event is only given up for a newer one of its monitor that filled the cap,
\* or by a crash before the first checkpoint of the turn that drained it (storage.py:
\* "Pending wakes survive restarts and are drained by whichever host takes over").
NoSilentLoss ==
    [][\A x \in Ids :
          Place(x) = "queued" /\ Place(x)' = "dropped" =>
              \/ turn = "appended" /\ cur' = 0
              \/ \E e \in mem[cur].queue, n \in mem'[cur].queue :
                     e.id = x /\ n.id = nextId /\ n.key = e.key /\ n.noted]_vars

Watched ==
    /\ \A i \in Loads : stray[i] = {}
    /\ \A i \in Loads \ {cur} : held[i] = {} \/ i \in Closing

\* At most one watcher of a monitor runs, and it is the one its instance can cancel;
\* none outlives its instance (ensure_started, _spawn_task, _stop_monitor, aclose).
OneWatcher == MonitorTypeOK /\ Watched

\* An instance that would write another registry than the file has.
Stale(i) == mem[i].open \in {"yes", "closing"} /\ mem[i].reg # disk.reg

OnlyStopped(was, is) ==
    \A k \in Keys : was[k].state # "running" => is[k] \in {was[k], Absent}

\* What stop_monitor removed and what stopped by itself stays so on disk: no fire, no end of
\* a watcher, no load and no close of an instance brings an entry back or to life, only a
\* registration does - or an instance that writes a registry which is out of date, and a
\* host has none but for what happens between a rebuild and the close of the old instance.
StoppedStays ==
    [][/\ \/ registered' # registered
          \/ OnlyStopped(disk.reg, disk'.reg)
          \/ \E i \in Loads : Stale(i) /\ disk'.reg = mem'[i].reg
       /\ Closing = {} /\ (\A i \in Loads : ~Stale(i)) => \A i \in Loads : ~Stale(i)']_vars

\* "stopped and removed from the registry" (_plugin.py, _stop_monitor).
RemovedStays == [][registered' # registered \/ OnlyStopped(disk.reg, disk'.reg)]_vars

\* An event of the shown session starts a turn without the user having to write
\* (_monitor_wake_loop), unless the session is left or the host ends.
WakeServed ==
    \A x \in Ids, s \in Sessions :
        (cur # 0 /\ session = s
            /\ \E e \in mem[cur].queue : e.id = x /\ e.sess = s)
            ~> (cur = 0 \/ session # s \/ x \notin InQueue(mem[cur].queue))

-----------------------------------------------------------------------------
(* Inductive invariants *)

\* One instance is the engine's, a turn belongs to a running host, and a stop to a turn.
Hosts ==
    /\ cur = 0 => turn = "free" /\ wakeOp = 0
    /\ turn = "free" => stopping = {}
    /\ \A i \in Loads : /\ mem[i].open = "yes" <=> i = cur
                        /\ i > loads => mem[i].open = "no"

\* Every watcher can be cancelled, watches an entry of its instance, and is not one that
\* a stop waits for.
Tended ==
    \A i \in Loads :
        /\ stray[i] = {}
        /\ held[i] # {} => i = cur \/ i \in Closing
        /\ \A k \in held[i] : mem[i].reg[k] # Absent
        /\ i = cur => held[i] \cap stopping = {}

\* Every poll leaves alone what a stop waits for.
WatchInv == ControlOK /\ Hosts /\ Tended

\* The queue file is what the live instance has in memory, and a wake turn drains that one.
Mirrored ==
    /\ wakeOp \in {0, cur}
    /\ cur # 0 => disk.queue = mem[cur].queue

\* A queued event is one event, and was never said; what was said and not saved belongs
\* to a turn that has not reached its checkpoint.
Accounted ==
    /\ \A e \in disk.queue : e.id < nextId /\ said[e.id] = 0
    /\ \A e, f \in disk.queue : e.id = f.id => e = f
    /\ said \in [Ids -> 0..1] /\ saved \in [Ids -> 0..1]
    /\ \A x \in Ids : saved[x] <= said[x] /\ (x >= nextId => said[x] = 0)
    /\ turn # "appended" => said = saved

WakeInv == WatchInv /\ Mirrored /\ Accounted
=============================================================================
