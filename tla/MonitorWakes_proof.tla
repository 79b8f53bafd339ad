------------------------- MODULE MonitorWakes_proof -------------------------
(***************************************************************************)
(* Proofs about the monitors and the turns they wake, for any monitors,    *)
(* sessions and directories, any cap and any number of events, instances   *)
(* and registrations.                                                      *)
(***************************************************************************)
EXTENDS MonitorWakes, FiniteSetTheorems, WellFoundedInduction, TLAPS

LEMMA Bounds ==
    MaxFires \in Nat /\ MaxLoads \in Nat /\ MaxRegister \in Nat /\ Cap \in Nat \ {0}
  BY MonitorAssumption

-----------------------------------------------------------------------------
(* Instances and entries *)

\* Rewriting one part of an instance leaves the rest of it, and the others, alone.
LEMMA SetQueue ==
    ASSUME mem \in [Loads -> Instance], NEW i \in Loads, NEW q \in SUBSET Event,
           mem' = [mem EXCEPT ![i].queue = q]
    PROVE  /\ mem' \in [Loads -> Instance]
           /\ \A j \in Loads : mem'[j].open = mem[j].open /\ mem'[j].reg = mem[j].reg
           /\ \A j \in Loads \ {i} : mem'[j].queue = mem[j].queue
           /\ mem'[i].queue = q
  BY DEF Instance

LEMMA SetRegistry ==
    ASSUME mem \in [Loads -> Instance], NEW i \in Loads, NEW reg \in [Keys -> Entry],
           mem' = [mem EXCEPT ![i].reg = reg]
    PROVE  /\ mem' \in [Loads -> Instance]
           /\ \A j \in Loads : mem'[j].open = mem[j].open /\ mem'[j].queue = mem[j].queue
           /\ \A j \in Loads \ {i} : mem'[j].reg = mem[j].reg
           /\ mem'[i].reg = reg
  BY DEF Instance

LEMMA EntryParts ==
    /\ Absent \in Entry /\ Absent.state = "absent"
    /\ \A e \in Entry : e # Absent => e.state \in {"running", "stopped"} /\ e.sess \in Sessions
    /\ \A s \in Sessions : [state |-> "running", sess |-> s] \in Entry \ {Absent}
  BY DEF Entry, Absent

\* A watcher's end leaves its entry stopped, and every other entry as it was.
LEMMA StopsEntry ==
    ASSUME NEW reg \in [Keys -> Entry], NEW k \in Keys, reg[k].state = "running"
    PROVE  /\ [reg EXCEPT ![k].state = "stopped"] \in [Keys -> Entry]
           /\ \A j \in Keys : [reg EXCEPT ![k].state = "stopped"][j] =
                                 IF j = k THEN [reg[k] EXCEPT !.state = "stopped"] ELSE reg[j]
           /\ [reg[k] EXCEPT !.state = "stopped"].state = "stopped"
<1>1. reg[k] \in Entry /\ reg[k] # Absent
  BY EntryParts
<1>2. reg[k] \in [state : {"running", "stopped"}, sess : Sessions]
  BY <1>1 DEF Entry
<1>3. [reg[k] EXCEPT !.state = "stopped"] \in Entry
      /\ [reg[k] EXCEPT !.state = "stopped"].state = "stopped"
  BY <1>2 DEF Entry
<1> QED
  BY <1>3

\* Some event of a queue waits longest.
LEMMA OldestIsThere ==
    ASSUME NEW q \in SUBSET Event, q # {}
    PROVE  Oldest(q) \in q
<1> DEFINE Below(e) == 1..e.id
           T == {Below(e) : e \in q}
<1>1. \A e \in q : e.id \in Nat
  BY Bounds DEF Event, Ids
<1>2. T \subseteq FiniteSubsetsOf(Nat) /\ T # {}
  <2>1. ASSUME NEW e \in q PROVE Below(e) \in FiniteSubsetsOf(Nat)
    <3>1. 1 \in Int /\ e.id \in Int /\ Below(e) \in SUBSET Nat
      BY <1>1
    <3>2. IsFiniteSet(Below(e))
      BY <3>1, FS_Interval, Zenon
    <3> QED
      BY <3>1, <3>2 DEF FiniteSubsetsOf
  <2> QED
    BY <2>1, Zenon
<1>3. PICK t \in T : \A u \in T : ~(<<u, t>> \in StrictSubsetOrdering(Nat))
  BY <1>2, WFMin, FS_StrictSubsetOrderingWellFounded
<1>4. PICK e \in q : t = Below(e)
  OBVIOUS
<1>5. ASSUME NEW f \in q, f.id < e.id PROVE FALSE
  <2>1. f.id \in Nat /\ e.id \in Nat
    BY <1>1
  <2>2. /\ 1..f.id \subseteq 1..e.id /\ e.id \in 1..e.id /\ e.id \notin 1..f.id
        /\ 1..f.id \in SUBSET Nat /\ 1..e.id \in SUBSET Nat
    BY ONLY <1>5, <2>1
  <2>3. <<Below(f), Below(e)>> \in StrictSubsetOrdering(Nat)
    BY <2>2 DEF StrictSubsetOrdering
  <2> QED
    BY <1>3, <1>4, <2>3
<1>6. \A f \in q : e.id <= f.id
  BY <1>1, <1>5
<1> QED
  BY <1>6 DEF Oldest

\* What a watcher may queue: the queue gains at most the new event, and loses at most an
\* event of the same monitor, of which the new one takes note.
LEMMA AppendsOne ==
    ASSUME NEW q \in SUBSET Event, NEW e \in Event
    PROVE  /\ Append1(q, e) \in SUBSET Event
           /\ Append1(q, e) = q \/ \E n \in Append1(q, e) :
                 /\ n.id = e.id /\ Append1(q, e) \subseteq q \cup {n}
                 /\ \A x \in q \ Append1(q, e) : n.key = x.key /\ n.noted
<1> DEFINE own == {x \in q : x.key = e.key}
           same == \E x \in own : ~x.noted /\ x.data = e.data
           full == Cardinality(own) + 1 > Cap
           kept == IF full THEN q \ {Oldest(own)} ELSE q
           n == [e EXCEPT !.noted = full]
<1>b. \A b \in BOOLEAN : /\ [e EXCEPT !.noted = b] \in Event
                          /\ [e EXCEPT !.noted = b].id = e.id
                          /\ [e EXCEPT !.noted = b].key = e.key
                          /\ [e EXCEPT !.noted = b].noted = b
  BY DEF Event
<1>f. full \in BOOLEAN
  OBVIOUS
<1>o. full => own # {}
  <2> SUFFICES ASSUME full, own = {} PROVE FALSE
    OBVIOUS
  <2>1. Cardinality(own) = 0
    BY FS_EmptySet
  <2>2. ~(0 + 1 > Cap)
    BY Bounds
  <2> QED
    BY <2>1, <2>2
<1>2. Append1(q, e) = IF same THEN q ELSE kept \cup {n}
  BY DEF Append1
<1>3. full => Oldest(own) \in own
  BY <1>o, OldestIsThere
<1> HIDE DEF full
<1>1. n \in Event /\ n.id = e.id /\ n.key = e.key /\ n.noted = full
  BY <1>b, <1>f
<1>4. kept \subseteq q /\ \A x \in q \ kept : full /\ x.key = e.key
  BY <1>3
<1> HIDE DEF n, kept, same
<1> QED
  BY <1>1, <1>2, <1>4

-----------------------------------------------------------------------------
(* Watchers *)

\* A step that starts and ends no instance, no watcher and no stop.
LEMMA SameWatchers ==
    ASSUME WatchInv, ControlOK', UNCHANGED <<cur, loads, held, stray, stopping>>,
           \A j \in Loads : mem'[j].open = mem[j].open /\ mem'[j].reg = mem[j].reg,
           turn' = "free" => stopping = {},
           cur = 0 => turn' = "free" /\ wakeOp' = 0
    PROVE  WatchInv'
<1>1. Closing' = Closing
  BY DEF Closing
<1>2. Hosts'
  BY DEF WatchInv, Hosts
<1>3. Tended'
  BY <1>1 DEF WatchInv, Tended
<1> QED
  BY <1>2, <1>3 DEF WatchInv

LEMMA FireWatch ==
    ASSUME WatchInv, NEW i \in Loads, NEW k \in Keys, Fire(i, k)
    PROVE  WatchInv'
<1>1. /\ k \in held[i] /\ mem[i].reg[k] \in Entry \ {Absent} /\ nextId \in Ids
      /\ disk \in [reg : [Keys -> Entry], queue : SUBSET Event]
      /\ mem \in [Loads -> Instance] /\ mem[i].queue \in SUBSET Event
      /\ mem[i].reg \in [Keys -> Entry]
  BY DEF WatchInv, ControlOK, Tended, Fire, Instance, Ids
<1>2. PICK d \in Data :
           LET e == [id |-> nextId, key |-> k, sess |-> mem[i].reg[k].sess,
                     data |-> d, noted |-> FALSE]
               q == Append1(mem[i].queue, e)
           IN  /\ mem' = [mem EXCEPT ![i].queue = q]
               /\ disk' = [reg |-> mem[i].reg,
                           queue |-> IF q = mem[i].queue THEN disk.queue ELSE q]
               /\ nextId' = IF q = mem[i].queue THEN nextId ELSE nextId + 1
  BY DEF Fire
<1> DEFINE e == [id |-> nextId, key |-> k, sess |-> mem[i].reg[k].sess,
                 data |-> d, noted |-> FALSE]
           q == Append1(mem[i].queue, e)
<1>3. e \in Event
  BY <1>1, EntryParts DEF Event
<1>4. q \in SUBSET Event
  BY <1>1, <1>3, AppendsOne
<1> HIDE DEF e, q
<1>5. /\ mem' = [mem EXCEPT ![i].queue = q]
      /\ disk' = [reg |-> mem[i].reg, queue |-> IF q = mem[i].queue THEN disk.queue ELSE q]
      /\ nextId' = IF q = mem[i].queue THEN nextId ELSE nextId + 1
  BY <1>2 DEF e, q
<1>6. /\ mem' \in [Loads -> Instance]
      /\ \A j \in Loads : mem'[j].open = mem[j].open /\ mem'[j].reg = mem[j].reg
  BY <1>1, <1>4, <1>5, SetQueue
<1>7. disk' \in [reg : [Keys -> Entry], queue : SUBSET Event]
  BY <1>1, <1>4, <1>5
<1>8. nextId' \in 1..(MaxFires + 1)
  <2>1. nextId \in 1..MaxFires /\ (nextId' = nextId \/ nextId' = nextId + 1)
    BY <1>1, <1>5 DEF Ids
  <2> QED
    BY <2>1, Bounds
<1>9. UNCHANGED <<cur, loads, registered, session, turn, wakeOp, held, stray, stopping>>
  BY DEF Fire, watchers
<1>10. ControlOK'
  BY <1>6, <1>7, <1>8, <1>9 DEF WatchInv, ControlOK
<1>11. (turn' = "free" => stopping = {}) /\ (cur = 0 => turn' = "free" /\ wakeOp' = 0)
  BY <1>9 DEF WatchInv, Hosts
<1> QED
  BY <1>6, <1>9, <1>10, <1>11, SameWatchers

LEMMA EndsWatch ==
    ASSUME WatchInv, NEW i \in Loads, NEW k \in Keys, WatcherEnds(i, k)
    PROVE  WatchInv'
<1>1. /\ k \in held[i] /\ stray[i] = {} /\ mem[i].reg \in [Keys -> Entry]
      /\ disk \in [reg : [Keys -> Entry], queue : SUBSET Event]
      /\ mem \in [Loads -> Instance]
      /\ held \in [Loads -> SUBSET Keys] /\ stray \in [Loads -> SUBSET Keys]
  BY DEF WatchInv, ControlOK, Tended, WatcherEnds, Instance
<1>2. held' = [held EXCEPT ![i] = @ \ {k}] /\ stray' = stray
  BY <1>1 DEF WatcherEnds
<1>3. UNCHANGED <<cur, loads, stopping, registered, session, turn, wakeOp, nextId>>
  BY DEF WatcherEnds
<1>4. /\ mem' \in [Loads -> Instance]
      /\ disk' \in [reg : [Keys -> Entry], queue : SUBSET Event]
      /\ \A j \in Loads : /\ mem'[j].open = mem[j].open
                          /\ \A n \in Keys : mem[j].reg[n] # Absent => mem'[j].reg[n] # Absent
  <2>1. CASE mem[i].reg[k].state = "running"
    <3> DEFINE reg == [mem[i].reg EXCEPT ![k].state = "stopped"]
    <3>1. /\ reg \in [Keys -> Entry]
          /\ \A n \in Keys : mem[i].reg[n] # Absent => reg[n] # Absent
      <4>1. reg[k] # Absent /\ reg \in [Keys -> Entry]
        <5>1. /\ reg \in [Keys -> Entry]
              /\ reg[k] = [mem[i].reg[k] EXCEPT !.state = "stopped"]
              /\ [mem[i].reg[k] EXCEPT !.state = "stopped"].state = "stopped"
          BY <1>1, <2>1, StopsEntry
        <5> HIDE DEF reg
        <5>2. reg[k].state = "stopped"
          BY <5>1
        <5> QED
          BY <5>1, <5>2, EntryParts
      <4>2. \A n \in Keys \ {k} : reg[n] = mem[i].reg[n]
        BY <1>1
      <4> QED
        BY <4>1, <4>2
    <3>2. mem' = [mem EXCEPT ![i].reg = reg] /\ disk' = [disk EXCEPT !.reg = reg]
      BY <2>1 DEF WatcherEnds, SaveRegistry
    <3> HIDE DEF reg
    <3> QED
      BY <1>1, <3>1, <3>2, SetRegistry, ZenonT(40)
  <2>2. CASE mem[i].reg[k].state # "running"
    BY <1>1, <2>2 DEF WatcherEnds, files
  <2> QED
    BY <2>1, <2>2
<1>5. ControlOK'
  BY <1>1, <1>2, <1>3, <1>4 DEF WatchInv, ControlOK
<1>6. Closing' = Closing
  BY <1>4 DEF Closing
<1>7. Hosts'
  BY <1>3, <1>4 DEF WatchInv, Hosts
<1>8. Tended'
  BY <1>1, <1>2, <1>3, <1>4, <1>6 DEF WatchInv, Tended
<1> QED
  BY <1>5, <1>7, <1>8 DEF WatchInv

LEMMA RegisterWatch ==
    ASSUME WatchInv, NEW k \in Keys, Register(k)
    PROVE  WatchInv'
<1>1. /\ cur \in Loads /\ stray[cur] = {} /\ mem[cur].reg \in [Keys -> Entry]
      /\ disk \in [reg : [Keys -> Entry], queue : SUBSET Event]
      /\ mem \in [Loads -> Instance] /\ session \in Sessions
      /\ held \in [Loads -> SUBSET Keys] /\ stray \in [Loads -> SUBSET Keys]
      /\ mem[cur].reg[k] = Absent /\ stopping = {}
  <2>1. cur \in Loads
    BY Bounds DEF WatchInv, ControlOK, Register, Loads
  <2> QED
    BY <2>1 DEF WatchInv, ControlOK, Tended, Register, Instance
<1>2. k \notin held[cur]
  BY <1>1 DEF WatchInv, Tended
<1>3. /\ held' = [held EXCEPT ![cur] = @ \cup {k}] /\ stray' = stray
      /\ UNCHANGED <<cur, loads, stopping, session, turn, wakeOp, nextId>>
      /\ registered' \in 0..MaxRegister
  <2>1. registered \in 0..MaxRegister /\ registered < MaxRegister /\ registered' = registered + 1
    BY DEF Register, WatchInv, ControlOK
  <2>2. registered' \in 0..MaxRegister
    BY <2>1, Bounds
  <2> QED
    BY <1>1, <1>2, <2>2 DEF Register
<1> DEFINE entry == [state |-> "running", sess |-> session]
           reg == [mem[cur].reg EXCEPT ![k] = entry]
<1>4. /\ reg \in [Keys -> Entry] /\ reg[k] # Absent
      /\ \A n \in Keys : mem[cur].reg[n] # Absent => reg[n] # Absent
  <2>1. entry \in Entry \ {Absent}
    BY <1>1, EntryParts
  <2> HIDE DEF entry
  <2> QED
    BY <1>1, <2>1
<1>5. mem' = [mem EXCEPT ![cur].reg = reg] /\ disk' = [disk EXCEPT !.reg = reg]
  BY DEF Register, SaveRegistry
<1> HIDE DEF reg
<1>6. /\ mem' \in [Loads -> Instance]
      /\ disk' \in [reg : [Keys -> Entry], queue : SUBSET Event]
      /\ mem'[cur].reg[k] # Absent
      /\ \A j \in Loads : /\ mem'[j].open = mem[j].open
                          /\ \A n \in Keys : mem[j].reg[n] # Absent => mem'[j].reg[n] # Absent
  BY <1>1, <1>4, <1>5, SetRegistry, ZenonT(40)
<1>7. ControlOK'
  BY <1>1, <1>3, <1>6 DEF WatchInv, ControlOK
<1>8. Closing' = Closing
  BY <1>6 DEF Closing
<1>9. Hosts'
  BY <1>3, <1>6 DEF WatchInv, Hosts
<1>10. Tended'
  BY <1>1, <1>3, <1>6, <1>8 DEF WatchInv, Tended
<1> QED
  BY <1>7, <1>9, <1>10 DEF WatchInv

LEMMA StopWatch ==
    ASSUME WatchInv, NEW k \in Keys, StopMonitor(k)
    PROVE  WatchInv'
<1>1. /\ cur \in Loads /\ held \in [Loads -> SUBSET Keys] /\ stopping = {}
      /\ turn # "free"
  BY Bounds DEF WatchInv, ControlOK, StopMonitor, Loads
<1>2. /\ held' = [held EXCEPT ![cur] = @ \ {k}] /\ stopping' = {k}
      /\ UNCHANGED <<disk, mem, cur, loads, stray, registered, session, turn, wakeOp, nextId>>
  BY <1>1 DEF StopMonitor, files
<1>3. ControlOK'
  BY <1>1, <1>2 DEF WatchInv, ControlOK
<1>4. Closing' = Closing
  BY <1>2 DEF Closing
<1>5. Hosts'
  BY <1>1, <1>2 DEF WatchInv, Hosts
<1>6. Tended'
  BY <1>1, <1>2, <1>4 DEF WatchInv, Tended
<1> QED
  BY <1>3, <1>5, <1>6 DEF WatchInv

LEMMA ReturnsWatch ==
    ASSUME WatchInv, NEW k \in Keys, StopReturns(k)
    PROVE  WatchInv'
<1>1. /\ cur \in Loads /\ k \in stopping /\ mem \in [Loads -> Instance]
      /\ mem[cur].reg \in [Keys -> Entry]
      /\ disk \in [reg : [Keys -> Entry], queue : SUBSET Event]
  <2>1. cur # 0 /\ k \in stopping
    BY DEF WatchInv, Hosts, StopReturns
  <2>2. cur \in Loads
    BY <2>1, Bounds DEF WatchInv, ControlOK, Loads
  <2> QED
    BY <2>1, <2>2 DEF WatchInv, ControlOK, Instance
<1>2. /\ stopping' = stopping \ {k}
      /\ UNCHANGED <<cur, loads, held, stray, registered, session, turn, wakeOp, nextId>>
  BY DEF StopReturns
<1>3. /\ mem' \in [Loads -> Instance]
      /\ disk' \in [reg : [Keys -> Entry], queue : SUBSET Event]
      /\ \A j \in Loads : mem'[j].open = mem[j].open
      /\ \A j \in Loads : \A n \in Keys :
            mem'[j].reg[n] = mem[j].reg[n] \/ (j = cur /\ n = k)
  <2>1. CASE mem[cur].reg[k] # Absent
    <3> DEFINE reg == [mem[cur].reg EXCEPT ![k] = Absent]
    <3>1. reg \in [Keys -> Entry] /\ \A n \in Keys \ {k} : reg[n] = mem[cur].reg[n]
      BY <1>1, EntryParts
    <3>2. mem' = [mem EXCEPT ![cur].reg = reg] /\ disk' = [disk EXCEPT !.reg = reg]
      BY <2>1 DEF StopReturns, SaveRegistry
    <3> HIDE DEF reg
    <3> QED
      BY <1>1, <3>1, <3>2, SetRegistry, ZenonT(40)
  <2>2. CASE mem[cur].reg[k] = Absent
    BY <1>1, <2>2 DEF StopReturns, files
  <2> QED
    BY <2>1, <2>2
<1>4. ControlOK'
  BY <1>2, <1>3 DEF WatchInv, ControlOK
<1>5. Closing' = Closing
  BY <1>3 DEF Closing
<1>6. Hosts'
  BY <1>1, <1>2, <1>3 DEF WatchInv, Hosts
<1>7. Tended'
  <2>1. held \in [Loads -> SUBSET Keys]
    BY DEF WatchInv, ControlOK
  <2> QED
    BY <1>1, <1>2, <1>3, <1>5, <2>1 DEF WatchInv, Tended
<1> QED
  BY <1>4, <1>6, <1>7 DEF WatchInv

\* The poll starts what runs in the registry and is in scope: never what a stop waits for.
LEMMA TickWatch ==
    ASSUME WatchInv, "poll_in_stop" \notin Faults, Tick
    PROVE  WatchInv'
<1>c. cur # 0
  BY DEF Tick, Reconcile
<1>l. cur \in Loads /\ cur \in 0..loads /\ loads \in Nat
  BY <1>c, Bounds DEF WatchInv, ControlOK, Loads
<1>1. /\ held \in [Loads -> SUBSET Keys] /\ Wanted \cap stopping = {}
      /\ (wakeOp' = 0 \/ wakeOp' = cur)
  BY DEF WatchInv, ControlOK, Tick, Reconcile
<1>2. /\ held' = [held EXCEPT ![cur] = Wanted]
      /\ UNCHANGED <<disk, mem, cur, loads, stray, stopping, registered, session, turn, nextId>>
  BY DEF Tick, Reconcile, files
<1>3. Wanted \in SUBSET Keys /\ \A k \in Wanted : mem[cur].reg[k] # Absent
  BY EntryParts DEF Wanted
<1>4. ControlOK'
  <2>1. wakeOp' \in 0..loads'
    <3>1. CASE wakeOp' = 0
      BY <1>2, <1>l, <3>1
    <3>2. CASE wakeOp' = cur
      BY <1>2, <1>l, <3>2
    <3> QED
      BY <1>1, <3>1, <3>2
  <2> QED
    BY <1>1, <1>2, <1>3, <1>l, <2>1 DEF WatchInv, ControlOK
<1>5. Closing' = Closing
  BY <1>2 DEF Closing
<1>6. Hosts'
  BY <1>c, <1>1, <1>2 DEF WatchInv, Hosts
<1>7. Tended'
  BY <1>1, <1>2, <1>3, <1>5, <1>l DEF WatchInv, Tended
<1> QED
  BY <1>4, <1>6, <1>7 DEF WatchInv

\* A drain takes events out of the queue of one instance, in memory and on disk.
LEMMA DrainFiles ==
    ASSUME ControlOK, NEW i \in Loads, Drain(i)
    PROVE  /\ mem' \in [Loads -> Instance]
           /\ disk' \in [reg : [Keys -> Entry], queue : SUBSET Event]
           /\ \A j \in Loads : mem'[j].open = mem[j].open /\ mem'[j].reg = mem[j].reg
           /\ mem'[i].queue = mem[i].queue \ Pending(mem[i].queue, session)
           /\ disk'.reg = disk.reg /\ disk'.queue = mem'[i].queue
<1> DEFINE rest == mem[i].queue \ Pending(mem[i].queue, session)
<1>1. mem' = [mem EXCEPT ![i].queue = rest] /\ disk' = [disk EXCEPT !.queue = rest]
  BY DEF Drain
<1>2. /\ mem \in [Loads -> Instance] /\ rest \in SUBSET Event
      /\ disk \in [reg : [Keys -> Entry], queue : SUBSET Event]
  BY DEF ControlOK, Instance
<1> HIDE DEF rest
<1>3. /\ mem' \in [Loads -> Instance] /\ mem'[i].queue = rest
      /\ \A j \in Loads : mem'[j].open = mem[j].open /\ mem'[j].reg = mem[j].reg
  BY <1>1, <1>2, SetQueue
<1> QED
  BY <1>1, <1>2, <1>3 DEF rest

\* Turns come and go, drain and save: no watcher notices.
LEMMA TurnsWatch ==
    ASSUME WatchInv,
           UserTurn \/ WakeTurn \/ CancelWake \/ Checkpoint \/ EndTurn \/ SwitchSession
    PROVE  WatchInv'
<1>1. UNCHANGED <<cur, loads, held, stray, stopping, registered, nextId>>
  BY DEF UserTurn, WakeTurn, CancelWake, Checkpoint, EndTurn, SwitchSession, watchers
<1>2. cur # 0
  BY DEF WatchInv, Hosts, UserTurn, WakeTurn, CancelWake, Checkpoint, EndTurn, SwitchSession
<1>3. (turn' = "free" => stopping = {}) /\ turn' \in {"free", "appended", "durable"}
      /\ session' \in Sessions /\ wakeOp' \in {0, wakeOp}
  BY DEF WatchInv, ControlOK, Hosts, UserTurn, WakeTurn, CancelWake, Checkpoint, EndTurn,
         SwitchSession
<1>4. /\ mem' \in [Loads -> Instance]
      /\ disk' \in [reg : [Keys -> Entry], queue : SUBSET Event]
      /\ \A j \in Loads : mem'[j].open = mem[j].open /\ mem'[j].reg = mem[j].reg
  <2>1. CASE UserTurn
    <3>1. cur \in Loads /\ Drain(cur)
      BY <2>1, Bounds DEF UserTurn, WatchInv, ControlOK, Loads
    <3> QED
      BY <3>1, DrainFiles DEF WatchInv
  <2>2. CASE WakeTurn
    <3>1. wakeOp \in Loads /\ Drain(wakeOp)
      BY <2>2, Bounds DEF WakeTurn, WatchInv, ControlOK, Loads
    <3> QED
      BY <3>1, DrainFiles DEF WatchInv
  <2>3. CASE CancelWake \/ Checkpoint \/ EndTurn \/ SwitchSession
    BY <2>3 DEF CancelWake, Checkpoint, EndTurn, SwitchSession, files, WatchInv, ControlOK
  <2> QED
    BY <2>1, <2>2, <2>3
<1>5. ControlOK'
  <2>1. wakeOp' \in 0..loads
    BY <1>3, Bounds DEF WatchInv, ControlOK
  <2> QED
    BY <1>1, <1>3, <1>4, <2>1 DEF WatchInv, ControlOK
<1> QED
  BY <1>1, <1>2, <1>3, <1>4, <1>5, SameWatchers

\* A new instance takes what the files say, and disturbs no other.
LEMMA LoadsNew ==
    ASSUME ControlOK, loads < MaxLoads
    PROVE  /\ loads + 1 \in Loads /\ loads + 1 \in 1..MaxLoads /\ loads \in Nat
           /\ Loaded(mem) \in [Loads -> Instance]
           /\ Loaded(mem)[loads + 1].open = "yes"
           /\ Loaded(mem)[loads + 1].reg = disk.reg
           /\ Loaded(mem)[loads + 1].queue = disk.queue
           /\ \A j \in Loads \ {loads + 1} : Loaded(mem)[j] = mem[j]
<1>1. loads + 1 \in Loads /\ loads + 1 \in 1..MaxLoads /\ loads \in Nat
  BY Bounds DEF ControlOK, Loads
<1> DEFINE new == [open |-> "yes", reg |-> disk.reg, queue |-> disk.queue]
<1>2. new \in Instance /\ mem \in [Loads -> Instance]
  BY DEF ControlOK, Instance
<1>3. Loaded(mem) = [mem EXCEPT ![loads + 1] = new]
  BY DEF Loaded
<1>4. new.open = "yes" /\ new.reg = disk.reg /\ new.queue = disk.queue
  OBVIOUS
<1> HIDE DEF new
<1> QED
  BY <1>1, <1>2, <1>3, <1>4

LEMMA StartWatch ==
    ASSUME WatchInv, StartHost
    PROVE  WatchInv'
<1>1. /\ loads < MaxLoads /\ cur = 0 /\ mem' = Loaded(mem) /\ cur' = loads + 1 /\ loads' = loads + 1
      /\ session' \in Sessions
      /\ UNCHANGED <<disk, registered, turn, wakeOp, nextId, held, stray, stopping>>
  BY DEF StartHost, watchers
<1>2. /\ loads + 1 \in Loads /\ loads + 1 \in 1..MaxLoads /\ loads \in Nat
      /\ mem' \in [Loads -> Instance] /\ mem'[loads + 1].open = "yes"
      /\ \A j \in Loads \ {loads + 1} : mem'[j] = mem[j]
  BY <1>1, LoadsNew DEF WatchInv
<1>3. turn = "free" /\ wakeOp = 0 /\ stopping = {}
  BY <1>1 DEF WatchInv, Hosts
<1>4. ControlOK'
  BY <1>1, <1>2, <1>3 DEF WatchInv, ControlOK
<1>5. mem[loads + 1].open = "no" /\ \A j \in Loads : j > loads + 1 => j > loads
  BY <1>2 DEF WatchInv, Hosts, Loads
<1>6. Closing' = Closing /\ loads + 1 \notin Closing
  BY <1>2, <1>5 DEF Closing
<1>7. held[loads + 1] = {}
  BY <1>1, <1>2, <1>6 DEF WatchInv, Tended
<1>8. Hosts'
  BY <1>1, <1>2, <1>3, <1>5 DEF WatchInv, Hosts, Loads
<1>9. Tended'
  <2> SUFFICES ASSUME NEW j \in Loads
               PROVE  /\ stray'[j] = {}
                      /\ held'[j] # {} => j = cur' \/ j \in Closing'
                      /\ \A k \in held'[j] : mem'[j].reg[k] # Absent
                      /\ j = cur' => held'[j] \cap stopping' = {}
    BY DEF Tended
  <2>1. /\ held'[j] = held[j] /\ stray'[j] = {} /\ (held[j] # {} => j \in Closing)
        /\ \A k \in held[j] : mem[j].reg[k] # Absent
    BY <1>1 DEF WatchInv, Tended, Loads
  <2>2. CASE j = loads + 1
    BY <1>7, <2>1, <2>2
  <2>3. CASE j # loads + 1
    BY <1>1, <1>2, <1>6, <2>1, <2>3
  <2> QED
    BY <2>2, <2>3
<1> QED
  BY <1>4, <1>8, <1>9 DEF WatchInv

LEMMA RebuildWatch ==
    ASSUME WatchInv, Rebuild
    PROVE  WatchInv'
<1>1. /\ loads < MaxLoads /\ cur # 0 /\ turn = "free" /\ cur' = loads + 1 /\ loads' = loads + 1
      /\ mem' = [Loaded(mem) EXCEPT ![cur].open = "closing"]
      /\ UNCHANGED <<disk, registered, session, turn, wakeOp, nextId, held, stray, stopping>>
  BY DEF Rebuild, watchers
<1>2. /\ loads + 1 \in Loads /\ loads + 1 \in 1..MaxLoads /\ loads \in Nat
      /\ Loaded(mem) \in [Loads -> Instance] /\ Loaded(mem)[loads + 1].open = "yes"
      /\ \A j \in Loads \ {loads + 1} : Loaded(mem)[j] = mem[j]
  BY <1>1, LoadsNew DEF WatchInv
<1>3. cur \in Loads /\ cur # loads + 1 /\ cur \in 0..loads /\ wakeOp \in 0..loads
  BY <1>1, Bounds DEF WatchInv, ControlOK, Loads
<1>4. /\ mem' \in [Loads -> Instance] /\ mem'[loads + 1].open = "yes"
      /\ mem'[cur].open = "closing" /\ mem'[cur].reg = mem[cur].reg
      /\ \A j \in Loads \ {cur, loads + 1} : mem'[j] = mem[j]
  <2>1. \A m \in [Loads -> Instance] :
           /\ [m EXCEPT ![cur].open = "closing"] \in [Loads -> Instance]
           /\ [m EXCEPT ![cur].open = "closing"][cur].open = "closing"
           /\ [m EXCEPT ![cur].open = "closing"][cur].reg = m[cur].reg
           /\ \A j \in Loads \ {cur} : [m EXCEPT ![cur].open = "closing"][j] = m[j]
    BY <1>3 DEF Instance
  <2> QED
    BY <1>1, <1>2, <1>3, <2>1
<1>5. stopping = {}
  BY <1>1 DEF WatchInv, Hosts
<1>6. ControlOK'
  <2>1. wakeOp' \in 0..loads' /\ cur' \in 0..loads' /\ loads' \in 0..MaxLoads
    BY <1>1, <1>2, <1>3
  <2> QED
    BY <1>1, <1>4, <2>1 DEF WatchInv, ControlOK
<1>7. mem[loads + 1].open = "no" /\ \A j \in Loads : j > loads + 1 => j > loads
  BY <1>2 DEF WatchInv, Hosts, Loads
<1>8. Closing' = Closing \cup {cur} /\ loads + 1 \notin Closing
  BY <1>2, <1>3, <1>4, <1>7 DEF Closing
<1>9. held[loads + 1] = {}
  BY <1>2, <1>3, <1>8 DEF WatchInv, Tended
<1>10. Hosts'
  <2>1. ~(cur > loads + 1)
    BY <1>2, <1>3
  <2> QED
    BY <1>1, <1>2, <1>3, <1>4, <1>5, <1>7, <2>1 DEF WatchInv, Hosts
<1>11. Tended'
  <2> SUFFICES ASSUME NEW j \in Loads
               PROVE  /\ stray'[j] = {}
                      /\ held'[j] # {} => j = cur' \/ j \in Closing'
                      /\ \A k \in held'[j] : mem'[j].reg[k] # Absent
                      /\ j = cur' => held'[j] \cap stopping' = {}
    BY DEF Tended
  <2>1. held'[j] = held[j] /\ stray'[j] = {} /\ (held[j] # {} => j = cur \/ j \in Closing)
        /\ \A k \in held[j] : mem[j].reg[k] # Absent
    BY <1>1 DEF WatchInv, Tended
  <2>2. CASE j = loads + 1
    BY <1>9, <2>1, <2>2
  <2>3. CASE j # loads + 1
    BY <1>1, <1>4, <1>8, <2>1, <2>3
  <2> QED
    BY <2>2, <2>3
<1> QED
  BY <1>6, <1>10, <1>11 DEF WatchInv

LEMMA CloseWatch ==
    ASSUME WatchInv, NEW i \in Loads, CloseOld(i)
    PROVE  WatchInv'
<1>1. /\ mem[i].open = "closing" /\ mem' = [mem EXCEPT ![i].open = "closed"]
      /\ held' = [held EXCEPT ![i] = {}] /\ disk' = [disk EXCEPT !.reg = mem[i].reg]
      /\ UNCHANGED <<cur, loads, stray, stopping, registered, session, turn, wakeOp, nextId>>
  BY DEF CloseOld, Closed, Closing
<1>2. /\ mem \in [Loads -> Instance] /\ held \in [Loads -> SUBSET Keys]
      /\ mem[i].reg \in [Keys -> Entry] /\ disk \in [reg : [Keys -> Entry], queue : SUBSET Event]
  BY DEF WatchInv, ControlOK, Instance
<1>3. /\ mem' \in [Loads -> Instance] /\ mem'[i].open = "closed"
      /\ \A j \in Loads : mem'[j].reg = mem[j].reg
      /\ \A j \in Loads \ {i} : mem'[j] = mem[j]
  BY <1>1, <1>2 DEF Instance
<1>4. disk' \in [reg : [Keys -> Entry], queue : SUBSET Event]
  BY <1>1, <1>2
<1>5. ControlOK'
  BY <1>1, <1>2, <1>3, <1>4 DEF WatchInv, ControlOK
<1>6. Closing' = Closing \ {i}
  BY <1>3 DEF Closing
<1>7. i # cur /\ ~(i > loads)
  BY <1>1 DEF WatchInv, Hosts
<1>8. Hosts'
  BY <1>1, <1>3, <1>7 DEF WatchInv, Hosts
<1>9. Tended'
  BY <1>1, <1>2, <1>3, <1>6 DEF WatchInv, Tended
<1> QED
  BY <1>5, <1>8, <1>9 DEF WatchInv

LEMMA GoneWatch ==
    ASSUME WatchInv, Crash \/ Shutdown
    PROVE  WatchInv'
<1>1. /\ Gone /\ cur # 0 /\ (disk' = disk \/ disk' = [disk EXCEPT !.reg = mem[cur].reg])
  BY DEF Crash, Shutdown
<1>2. /\ mem \in [Loads -> Instance] /\ disk \in [reg : [Keys -> Entry], queue : SUBSET Event]
      /\ cur \in Loads /\ mem[cur].reg \in [Keys -> Entry]
  <2>1. cur \in Loads
    BY <1>1, Bounds DEF WatchInv, ControlOK, Loads
  <2> QED
    BY <2>1 DEF WatchInv, ControlOK, Instance
<1>3. disk' \in [reg : [Keys -> Entry], queue : SUBSET Event]
  BY <1>1, <1>2
<1>4. /\ mem' \in [Loads -> Instance]
      /\ \A j \in Loads : /\ mem'[j].open \in {"no", "closed"}
                          /\ mem[j].open = "no" => mem'[j].open = "no"
  BY <1>1, <1>2, ZenonT(40) DEF Gone, Instance
<1>5. /\ cur' = 0 /\ held' = [i \in Loads |-> {}] /\ stray' = [i \in Loads |-> {}]
      /\ stopping' = {} /\ turn' = "free" /\ wakeOp' = 0
      /\ UNCHANGED <<loads, registered, session, nextId>>
  BY <1>1 DEF Gone
<1>6. ControlOK'
  BY <1>3, <1>4, <1>5, Bounds DEF WatchInv, ControlOK
<1>7. Hosts'
  BY <1>4, <1>5, Bounds DEF WatchInv, Hosts, Loads
<1>8. Tended'
  BY <1>5 DEF Tended
<1> QED
  BY <1>6, <1>7, <1>8 DEF WatchInv

LEMMA WatchInit == MonitorInit => WatchInv
<1> SUFFICES ASSUME MonitorInit PROVE WatchInv
  OBVIOUS
<1>1. mem \in [Loads -> Instance] /\ \A i \in Loads : mem[i].open = "no"
  BY EntryParts DEF MonitorInit, Unloaded, Instance
<1>2. ControlOK
  BY <1>1, EntryParts, Bounds DEF MonitorInit, ControlOK
<1>3. Hosts
  BY <1>1, Bounds DEF MonitorInit, Hosts, Loads
<1>4. Tended
  BY DEF MonitorInit, Tended
<1> QED
  BY <1>2, <1>3, <1>4 DEF WatchInv

LEMMA WatchStep ==
    ASSUME WatchInv, "poll_in_stop" \notin Faults, [MonitorNext]_vars
    PROVE  WatchInv'
<1>1. CASE UNCHANGED vars
  <2>1. ControlOK' /\ Hosts' /\ Tended'
    BY <1>1 DEF vars, WatchInv, ControlOK, Hosts, Tended, Closing
  <2> QED
    BY <2>1 DEF WatchInv
<1>2. ASSUME NEW i \in Loads, NEW k \in Keys, Fire(i, k) \/ WatcherEnds(i, k)
      PROVE  WatchInv'
  BY <1>2, FireWatch, EndsWatch
<1>3. ASSUME NEW k \in Keys, Register(k) \/ StopMonitor(k) \/ StopReturns(k)
      PROVE  WatchInv'
  BY <1>3, RegisterWatch, StopWatch, ReturnsWatch
<1>4. CASE Tick
  BY <1>4, TickWatch
<1>5. CASE UserTurn \/ WakeTurn \/ CancelWake \/ Checkpoint \/ EndTurn \/ SwitchSession
  BY <1>5, TurnsWatch
<1>6. CASE StartHost
  BY <1>6, StartWatch
<1>7. CASE Rebuild
  BY <1>7, RebuildWatch
<1>8. CASE Crash \/ Shutdown
  BY <1>8, GoneWatch
<1>9. ASSUME NEW i \in Loads, CloseOld(i) PROVE WatchInv'
  BY <1>9, CloseWatch
<1> QED
  BY <1>1, <1>2, <1>3, <1>4, <1>5, <1>6, <1>7, <1>8, <1>9 DEF MonitorNext

\* The inductive invariant of the watchers: every one can be cancelled, and watches an
\* entry of its instance.
THEOREM WatchersTended == "poll_in_stop" \notin Faults => (MonitorSpec => []WatchInv)
<1> SUFFICES ASSUME "poll_in_stop" \notin Faults PROVE MonitorSpec => []WatchInv
  OBVIOUS
<1>1. WatchInv /\ [MonitorNext]_vars => WatchInv'
  BY WatchStep
<1> QED
  BY <1>1, WatchInit, PTL DEF MonitorSpec

-----------------------------------------------------------------------------
(* Events *)

\* What a step may do to the events: nothing, queue one, hand some to a turn, save what
\* the turns were handed, or lose what was not saved.
Keeps ==
    /\ disk'.queue = disk.queue /\ UNCHANGED <<said, saved, nextId>>
    /\ turn' # "appended" => said = saved

Queues ==
    /\ UNCHANGED <<said, saved, turn, cur>> /\ nextId \in Ids /\ nextId' = nextId + 1
    /\ \E n \in disk'.queue :
           /\ n.id = nextId /\ disk'.queue \subseteq disk.queue \cup {n}
           /\ \A x \in disk.queue \ disk'.queue : n.key = x.key /\ n.noted

Hands ==
    /\ UNCHANGED <<saved, nextId>> /\ turn = "free"
    /\ \E got \in SUBSET InQueue(disk.queue) :
           /\ disk'.queue = {e \in disk.queue : e.id \notin got}
           /\ said' = [x \in Ids |-> IF x \in got THEN said[x] + 1 ELSE said[x]]
           /\ turn' = "appended" \/ got = {}

Saves == disk'.queue = disk.queue /\ UNCHANGED <<said, nextId>> /\ saved' = said

Loses ==
    /\ disk'.queue = disk.queue /\ UNCHANGED <<saved, nextId>> /\ said' = saved
    /\ turn' = "free" /\ cur' = 0

Accounts == Keeps \/ Queues \/ Hands \/ Saves \/ Loses

LEMMA AccountStep ==
    ASSUME ControlOK, Accounted, Accounts
    PROVE  Accounted'
<1>1. disk.queue \in SUBSET Event /\ \A e \in Event : e.id \in Ids
  BY DEF ControlOK, Event
<1>2. CASE Keeps
  BY <1>2 DEF Keeps, Accounted
<1>3. CASE Queues
  <2>1. PICK n \in disk'.queue : n.id = nextId /\ disk'.queue \subseteq disk.queue \cup {n}
    BY <1>3 DEF Queues
  <2>2. UNCHANGED <<said, saved, turn>> /\ nextId \in Nat /\ nextId' = nextId + 1
        /\ nextId \in Ids /\ \A x \in Ids : x \in Nat
    BY <1>3, Bounds DEF Queues, Ids
  <2>3. said[nextId] = 0
    BY <2>2 DEF Accounted
  <2>4. \A e \in disk'.queue : e.id < nextId' /\ said'[e.id] = 0
    <3> SUFFICES ASSUME NEW e \in disk'.queue PROVE e.id < nextId' /\ said'[e.id] = 0
      OBVIOUS
    <3>1. CASE e = n
      BY <2>1, <2>2, <2>3, <3>1
    <3>2. CASE e \in disk.queue
      <4>1. e.id \in Nat /\ e.id < nextId /\ said[e.id] = 0
        BY <1>1, <2>2, <3>2 DEF Accounted
      <4> QED
        BY <2>2, <4>1
    <3> QED
      BY <2>1, <3>1, <3>2
  <2>5. \A e, f \in disk'.queue : e.id = f.id => e = f
    <3>1. \A e \in disk.queue : e.id # n.id
      <4> SUFFICES ASSUME NEW e \in disk.queue, e.id = nextId PROVE FALSE
        BY <2>1
      <4> QED
        BY <2>2 DEF Accounted
    <3> QED
      BY <2>1, <3>1 DEF Accounted
  <2>6. \A x \in Ids : saved'[x] <= said'[x] /\ (x >= nextId' => said'[x] = 0)
    BY <2>2 DEF Accounted
  <2> QED
    BY <2>2, <2>4, <2>5, <2>6 DEF Accounted
<1>4. CASE Hands
  <2>1. PICK got \in SUBSET InQueue(disk.queue) :
           /\ disk'.queue = {e \in disk.queue : e.id \notin got}
           /\ said' = [x \in Ids |-> IF x \in got THEN said[x] + 1 ELSE said[x]]
           /\ turn' = "appended" \/ got = {}
    BY <1>4 DEF Hands
  <2>2. saved' = saved /\ nextId' = nextId /\ said = saved
    BY <1>4 DEF Hands, Accounted
  <2>3. \A x \in got : x \in Ids /\ said[x] = 0 /\ x < nextId
    BY <1>1 DEF InQueue, Accounted
  <2>4. \A x \in Ids : x \in Nat /\ nextId \in Nat
    BY Bounds DEF Ids, ControlOK
  <2>5. said' \in [Ids -> 0..1] /\ \A x \in Ids : x \notin got => said'[x] = said[x]
    BY <2>1, <2>3 DEF Accounted
  <2>6. \A x \in Ids : saved'[x] <= said'[x] /\ (x >= nextId' => said'[x] = 0)
    <3> SUFFICES ASSUME NEW x \in Ids
                 PROVE  saved'[x] <= said'[x] /\ (x >= nextId' => said'[x] = 0)
      OBVIOUS
    <3>1. CASE x \in got
      BY <2>1, <2>2, <2>3, <2>4, <3>1
    <3>2. CASE x \notin got
      BY <2>2, <2>5, <3>2 DEF Accounted
    <3> QED
      BY <3>1, <3>2
  <2>7. \A e \in disk'.queue : e \in disk.queue /\ e.id \in Ids /\ said'[e.id] = said[e.id]
    BY <1>1, <2>1, <2>5
  <2>8. turn' # "appended" => said' = saved'
    <3> SUFFICES ASSUME got = {} PROVE said' = saved'
      BY <2>1
    <3>1. said \in [Ids -> 0..1]
      BY DEF Accounted
    <3> QED
      BY <2>1, <2>2, <3>1
  <2> QED
    BY <2>2, <2>5, <2>6, <2>7, <2>8 DEF Accounted
<1>5. CASE Saves
  BY <1>5 DEF Saves, Accounted
<1>6. CASE Loses
  <2>1. \A x \in Ids : said[x] = 0 => saved[x] = 0
    BY DEF Accounted
  <2> QED
    BY <1>1, <1>6, <2>1 DEF Loses, Accounted
<1> QED
  BY <1>2, <1>3, <1>4, <1>5, <1>6 DEF Accounts

-----------------------------------------------------------------------------
(* Files *)

\* The live instance is the only one whose watchers act, and what it has queued is on disk.
LEMMA LiveInstance ==
    ASSUME WakeInv, Faults = {}
    PROVE  /\ wakeOp \in {0, cur}
           /\ \A i \in Loads, k \in Keys : Fire(i, k) \/ WatcherEnds(i, k) => i = cur
           /\ cur # 0 => cur \in Loads /\ mem[cur].queue = disk.queue
<1>1. cur # 0 => cur \in Loads
  BY Bounds DEF WakeInv, WatchInv, ControlOK, Loads
<1> QED
  BY <1>1 DEF WakeInv, WatchInv, Hosts, Mirrored, Fire, WatcherEnds, Prompt

\* A step that leaves files, instances and conversations alone.
LEMMA FilesStay ==
    ASSUME WakeInv, UNCHANGED <<disk, mem, cur, said, saved, nextId>>,
           wakeOp' \in {0, cur}, turn' # "appended" => turn # "appended"
    PROVE  Mirrored' /\ Accounts
<1>1. Mirrored'
  BY DEF WakeInv, Mirrored
<1>2. Keeps
  BY DEF WakeInv, Accounted, Keeps
<1> QED
  BY <1>1, <1>2 DEF Accounts

LEMMA FireFiles ==
    ASSUME WakeInv, Faults = {}, NEW i \in Loads, NEW k \in Keys, Fire(i, k)
    PROVE  Mirrored' /\ Accounts
<1>l. i = cur /\ i # 0 /\ wakeOp \in {0, cur} /\ mem[i].queue = disk.queue
  BY LiveInstance, Bounds DEF Loads
<1>1. /\ i = cur /\ i # 0 /\ wakeOp \in {0, cur} /\ mem[i].queue = disk.queue
      /\ mem[i].reg[k] # Absent /\ nextId <= MaxFires
  BY <1>l DEF Fire
<1>2. /\ disk \in [reg : [Keys -> Entry], queue : SUBSET Event] /\ nextId \in Ids
      /\ mem \in [Loads -> Instance] /\ mem[i].queue \in SUBSET Event
      /\ mem[i].reg[k] \in Entry \ {Absent}
  <2>1. nextId \in Ids
    BY <1>1, Bounds DEF WakeInv, WatchInv, ControlOK, Ids
  <2> QED
    BY <1>1, <2>1 DEF WakeInv, WatchInv, ControlOK, Instance
<1>3. PICK d \in Data :
           LET e == [id |-> nextId, key |-> k, sess |-> mem[i].reg[k].sess,
                     data |-> d, noted |-> FALSE]
               q == Append1(mem[i].queue, e)
           IN  /\ mem' = [mem EXCEPT ![i].queue = q]
               /\ disk' = [reg |-> mem[i].reg,
                           queue |-> IF q = mem[i].queue THEN disk.queue ELSE q]
               /\ nextId' = IF q = mem[i].queue THEN nextId ELSE nextId + 1
  BY DEF Fire
<1> DEFINE e == [id |-> nextId, key |-> k, sess |-> mem[i].reg[k].sess,
                 data |-> d, noted |-> FALSE]
           q == Append1(mem[i].queue, e)
<1>4. e \in Event /\ e.id = nextId
  BY <1>2, EntryParts DEF Event
<1> HIDE DEF e
<1>5. /\ q \in SUBSET Event
      /\ q = mem[i].queue \/ \E n \in q : /\ n.id = nextId /\ q \subseteq mem[i].queue \cup {n}
                                          /\ \A x \in mem[i].queue \ q : n.key = x.key /\ n.noted
  BY <1>2, <1>4, AppendsOne
<1>6. /\ mem' = [mem EXCEPT ![i].queue = q]
      /\ disk' = [reg |-> mem[i].reg, queue |-> IF q = mem[i].queue THEN disk.queue ELSE q]
      /\ nextId' = IF q = mem[i].queue THEN nextId ELSE nextId + 1
  BY <1>3 DEF e
<1> HIDE DEF q
<1>7. mem'[i].queue = q
  BY <1>2, <1>5, <1>6, SetQueue
<1>8. disk'.queue = q
  BY <1>1, <1>6
<1>9. UNCHANGED <<cur, wakeOp, turn, said, saved>>
  BY DEF Fire, convo
<1>10. Mirrored'
  BY <1>1, <1>7, <1>8, <1>9 DEF Mirrored
<1>11. Accounts
  <2>1. CASE q = mem[i].queue
    <3>1. Keeps
      BY <1>1, <1>6, <1>8, <1>9, <2>1 DEF Keeps, WakeInv, Accounted
    <3> QED
      BY <3>1 DEF Accounts
  <2>2. CASE q # mem[i].queue
    <3>1. Queues
      BY <1>1, <1>2, <1>5, <1>6, <1>8, <1>9, <2>2 DEF Queues
    <3> QED
      BY <3>1 DEF Accounts
  <2> QED
    BY <2>1, <2>2
<1> QED
  BY <1>10, <1>11

\* The registry of the live instance is rewritten, in memory and on disk.
LEMMA SavesEntry ==
    ASSUME WakeInv, Faults = {}, cur # 0, NEW reg \in [Keys -> Entry], SaveRegistry(cur, reg),
           UNCHANGED <<cur, wakeOp, turn, said, saved, nextId>>
    PROVE  Mirrored' /\ Accounts
<1>1. cur \in Loads /\ wakeOp \in {0, cur} /\ mem[cur].queue = disk.queue
  BY LiveInstance
<1>2. /\ disk \in [reg : [Keys -> Entry], queue : SUBSET Event] /\ mem \in [Loads -> Instance]
  BY DEF WakeInv, WatchInv, ControlOK
<1>3. mem'[cur].queue = mem[cur].queue /\ disk'.queue = disk.queue
  BY <1>1, <1>2, SetRegistry DEF SaveRegistry
<1>4. Mirrored'
  BY <1>1, <1>3 DEF Mirrored
<1>5. Keeps
  BY <1>3 DEF Keeps, WakeInv, Accounted
<1> QED
  BY <1>4, <1>5 DEF Accounts

LEMMA EndsFiles ==
    ASSUME WakeInv, Faults = {}, NEW i \in Loads, NEW k \in Keys, WatcherEnds(i, k)
    PROVE  Mirrored' /\ Accounts
<1>1. i = cur /\ i # 0 /\ wakeOp \in {0, cur}
  BY LiveInstance, Bounds DEF Loads
<1>2. UNCHANGED <<cur, wakeOp, turn, said, saved, nextId>>
  BY DEF WatcherEnds, convo
<1>3. CASE mem[i].reg[k].state = "running"
  <2> DEFINE reg == [mem[i].reg EXCEPT ![k].state = "stopped"]
  <2>1. mem[i].reg \in [Keys -> Entry]
    BY DEF WakeInv, WatchInv, ControlOK, Instance
  <2>2. reg \in [Keys -> Entry]
    BY <1>3, <2>1, StopsEntry
  <2>3. SaveRegistry(cur, reg)
    BY <1>1, <1>3 DEF WatcherEnds
  <2> HIDE DEF reg
  <2> QED
    BY <1>1, <1>2, <2>2, <2>3, SavesEntry
<1>4. CASE mem[i].reg[k].state # "running"
  BY <1>1, <1>2, <1>4, FilesStay DEF WatcherEnds, files
<1> QED
  BY <1>3, <1>4

LEMMA RegisterFiles ==
    ASSUME WakeInv, Faults = {}, NEW k \in Keys, Register(k)
    PROVE  Mirrored' /\ Accounts
<1> DEFINE entry == [state |-> "running", sess |-> session]
           reg == [mem[cur].reg EXCEPT ![k] = entry]
<1>1. cur # 0 /\ cur \in Loads /\ session \in Sessions
  BY LiveInstance DEF Register, WakeInv, WatchInv, ControlOK
<1>2. mem[cur].reg \in [Keys -> Entry]
  BY <1>1 DEF WakeInv, WatchInv, ControlOK, Instance
<1>3. entry \in Entry
  BY <1>1, EntryParts
<1>4. SaveRegistry(cur, reg) /\ UNCHANGED <<cur, wakeOp, turn, said, saved, nextId>>
  BY DEF Register, convo
<1> HIDE DEF entry
<1>5. reg \in [Keys -> Entry]
  BY <1>2, <1>3
<1> HIDE DEF reg
<1> QED
  BY <1>1, <1>4, <1>5, SavesEntry

LEMMA ReturnsFiles ==
    ASSUME WakeInv, Faults = {}, NEW k \in Keys, StopReturns(k)
    PROVE  Mirrored' /\ Accounts
<1>1. cur # 0 /\ cur \in Loads /\ wakeOp \in {0, cur}
  BY LiveInstance DEF StopReturns, WakeInv, WatchInv, Hosts
<1>2. UNCHANGED <<cur, wakeOp, turn, said, saved, nextId>>
  BY DEF StopReturns, convo
<1>3. CASE mem[cur].reg[k] # Absent
  <2> DEFINE reg == [mem[cur].reg EXCEPT ![k] = Absent]
  <2>1. mem[cur].reg \in [Keys -> Entry]
    BY <1>1 DEF WakeInv, WatchInv, ControlOK, Instance
  <2>2. reg \in [Keys -> Entry]
    BY <2>1, EntryParts
  <2>3. SaveRegistry(cur, reg)
    BY <1>3 DEF StopReturns
  <2> HIDE DEF reg
  <2> QED
    BY <1>1, <1>2, <2>2, <2>3, SavesEntry
<1>4. CASE mem[cur].reg[k] = Absent
  BY <1>1, <1>2, <1>4, FilesStay DEF StopReturns, files
<1> QED
  BY <1>3, <1>4

LEMMA QuietFiles ==
    ASSUME WakeInv, Faults = {},
           Tick \/ CancelWake \/ SwitchSession \/ \E k \in Keys : StopMonitor(k)
    PROVE  Mirrored' /\ Accounts
<1>1. UNCHANGED <<disk, mem, cur, said, saved, nextId, turn>>
  BY DEF Tick, CancelWake, SwitchSession, StopMonitor, files, convo
<1>2. wakeOp' \in {0, cur}
  BY <1>1, LiveInstance DEF Tick, CancelWake, SwitchSession, StopMonitor
<1> QED
  BY <1>1, <1>2, FilesStay

\* A drain inside the turn lock hands the events of the session to the turn, once.
LEMMA DrainHands ==
    ASSUME WakeInv, Faults = {}, cur # 0, Drain(cur), turn = "free",
           UNCHANGED <<cur, saved, nextId>>, wakeOp' \in {0, cur},
           turn' = "appended" \/ Pending(mem[cur].queue, session) = {}
    PROVE  Mirrored' /\ Accounts
<1>1. cur \in Loads /\ mem[cur].queue = disk.queue
  BY LiveInstance
<1>2. /\ mem'[cur].queue = disk.queue \ Pending(disk.queue, session)
      /\ disk'.queue = mem'[cur].queue
  BY <1>1, DrainFiles DEF WakeInv, WatchInv
<1>3. Mirrored'
  BY <1>1, <1>2 DEF Mirrored
<1>4. Hands
  <2> DEFINE got == InQueue(Pending(disk.queue, session))
  <2>1. got \in SUBSET InQueue(disk.queue)
    BY DEF InQueue, Pending
  <2>2. disk'.queue = {e \in disk.queue : e.id \notin got}
    <3>1. \A e \in disk.queue : e.id \in got <=> e \in Pending(disk.queue, session)
      <4> SUFFICES ASSUME NEW e \in disk.queue, e.id \in got
                   PROVE  e \in Pending(disk.queue, session)
        BY DEF InQueue
      <4>1. PICK f \in Pending(disk.queue, session) : f.id = e.id
        BY DEF InQueue
      <4>2. f = e
        BY <4>1 DEF Pending, WakeInv, Accounted
      <4> QED
        BY <4>2
    <3> QED
      BY <1>2, <3>1
  <2>3. said' = [x \in Ids |-> IF x \in got THEN said[x] + 1 ELSE said[x]]
    BY <1>1 DEF Drain
  <2>4. turn' = "appended" \/ got = {}
    BY <1>1 DEF InQueue
  <2> HIDE DEF got
  <2> QED
    BY <2>1, <2>2, <2>3, <2>4 DEF Hands
<1> QED
  BY <1>3, <1>4 DEF Accounts

LEMMA TurnsFiles ==
    ASSUME WakeInv, Faults = {}, UserTurn \/ WakeTurn \/ Checkpoint \/ EndTurn
    PROVE  Mirrored' /\ Accounts
<1>1. UNCHANGED <<cur, nextId>>
  BY DEF UserTurn, WakeTurn, Checkpoint, EndTurn
<1>2. wakeOp \in {0, cur}
  BY <1>1, LiveInstance
<1>3. CASE UserTurn
  BY <1>1, <1>2, <1>3, DrainHands DEF UserTurn
<1>4. CASE WakeTurn
  <2>1. wakeOp = cur /\ cur # 0
    BY <1>2, <1>4 DEF WakeTurn
  <2> QED
    BY <1>1, <1>4, <2>1, DrainHands DEF WakeTurn
<1>5. CASE Checkpoint \/ EndTurn
  <2>1. /\ UNCHANGED <<disk, mem, said, wakeOp>> /\ saved' = said
    BY <1>5 DEF Checkpoint, EndTurn, files
  <2>2. Mirrored'
    BY <1>1, <2>1 DEF WakeInv, Mirrored
  <2> QED
    BY <1>1, <2>1, <2>2 DEF Accounts, Saves
<1> QED
  BY <1>3, <1>4, <1>5 DEF UserTurn

LEMMA GoneFiles ==
    ASSUME WakeInv, Faults = {}, Crash \/ Shutdown
    PROVE  Mirrored' /\ Accounts
<1>1. disk'.queue = disk.queue
  BY DEF Crash, Shutdown, WakeInv, WatchInv, ControlOK
<1>2. /\ cur' = 0 /\ wakeOp' = 0 /\ turn' = "free" /\ said' = saved /\ UNCHANGED <<saved, nextId>>
  BY DEF Crash, Shutdown, Gone
<1> QED
  BY <1>1, <1>2 DEF Mirrored, Accounts, Loses

LEMMA InstanceFiles ==
    ASSUME WakeInv, Faults = {},
           StartHost \/ Rebuild \/ \E i \in Loads : CloseOld(i)
    PROVE  Mirrored' /\ Accounts
<1>1. UNCHANGED <<said, saved, nextId, turn, wakeOp>>
  BY DEF StartHost, Rebuild, CloseOld, convo
<1>t. /\ disk \in [reg : [Keys -> Entry], queue : SUBSET Event] /\ mem \in [Loads -> Instance]
  BY DEF WakeInv, WatchInv, ControlOK
<1>2. CASE StartHost \/ Rebuild
  <2>1. /\ loads < MaxLoads /\ cur' = loads + 1 /\ disk' = disk /\ wakeOp = 0
        /\ \/ mem' = Loaded(mem)
           \/ mem' = [Loaded(mem) EXCEPT ![cur].open = "closing"] /\ cur # loads + 1
    BY <1>2, Bounds DEF StartHost, Rebuild, WakeInv, WatchInv, ControlOK, Hosts
  <2>2. /\ loads + 1 \in Loads /\ Loaded(mem) \in [Loads -> Instance]
        /\ Loaded(mem)[loads + 1].queue = disk.queue
    BY <2>1, LoadsNew DEF WakeInv, WatchInv
  <2>3. mem'[loads + 1].queue = disk.queue
    BY <2>1, <2>2
  <2>4. Mirrored'
    BY <1>1, <2>1, <2>3 DEF Mirrored
  <2> QED
    BY <1>1, <2>1, <2>4 DEF Accounts, Keeps, WakeInv, Accounted
<1>3. ASSUME NEW i \in Loads, CloseOld(i) PROVE Mirrored' /\ Accounts
  <2>1. /\ mem' = [mem EXCEPT ![i].open = "closed"] /\ cur' = cur
        /\ disk' = [disk EXCEPT !.reg = mem[i].reg]
    BY <1>3 DEF CloseOld, Closed
  <2>2. disk'.queue = disk.queue /\ \A j \in Loads : mem'[j].queue = mem[j].queue
    BY <1>t, <2>1 DEF Instance
  <2>3. cur # 0 => cur \in Loads
    BY Bounds DEF WakeInv, WatchInv, ControlOK, Loads
  <2>4. Mirrored'
    BY <1>1, <2>1, <2>2, <2>3 DEF WakeInv, Mirrored
  <2> QED
    BY <1>1, <2>2, <2>4 DEF Accounts, Keeps, WakeInv, Accounted
<1> QED
  BY <1>2, <1>3

LEMMA FilesStep ==
    ASSUME WakeInv, Faults = {}, MonitorNext
    PROVE  Mirrored' /\ Accounts
<1>1. ASSUME NEW i \in Loads, NEW k \in Keys, Fire(i, k) \/ WatcherEnds(i, k)
      PROVE  Mirrored' /\ Accounts
  BY <1>1, FireFiles, EndsFiles
<1>2. ASSUME NEW k \in Keys, Register(k) \/ StopMonitor(k) \/ StopReturns(k)
      PROVE  Mirrored' /\ Accounts
  BY <1>2, RegisterFiles, QuietFiles, ReturnsFiles
<1>3. CASE Tick \/ CancelWake \/ SwitchSession
  BY <1>3, QuietFiles
<1>4. CASE UserTurn \/ WakeTurn \/ Checkpoint \/ EndTurn
  BY <1>4, TurnsFiles
<1>5. CASE Crash \/ Shutdown
  BY <1>5, GoneFiles
<1>6. CASE StartHost \/ Rebuild \/ \E i \in Loads : CloseOld(i)
  BY <1>6, InstanceFiles
<1> QED
  BY <1>1, <1>2, <1>3, <1>4, <1>5, <1>6 DEF MonitorNext

LEMMA WakeInit == MonitorInit => WakeInv
<1> SUFFICES ASSUME MonitorInit PROVE WakeInv
  OBVIOUS
<1>1. Mirrored /\ Accounted
  BY DEF MonitorInit, Mirrored, Accounted
<1> QED
  BY <1>1, WatchInit DEF WakeInv

LEMMA WakeStep ==
    ASSUME WakeInv, Faults = {}, [MonitorNext]_vars
    PROVE  WakeInv'
<1>1. WatchInv'
  BY WatchStep DEF WakeInv
<1>2. CASE MonitorNext
  BY <1>1, <1>2, FilesStep, AccountStep DEF WakeInv, WatchInv
<1>3. CASE UNCHANGED vars
  <2>1. Mirrored' /\ Accounted'
    BY <1>3 DEF vars, WakeInv, Mirrored, Accounted
  <2> QED
    BY <1>1, <2>1 DEF WakeInv
<1> QED
  BY <1>2, <1>3

\* The inductive invariant of the queue file and the events: where the watchers of an old
\* instance act no more after a rebuild, and no poll comes into a stop.
THEOREM WakeInvariant == Faults = {} => (MonitorSpec => []WakeInv)
<1> SUFFICES ASSUME Faults = {} PROVE MonitorSpec => []WakeInv
  OBVIOUS
<1>1. WakeInv /\ [MonitorNext]_vars => WakeInv'
  BY WakeStep
<1> QED
  BY <1>1, WakeInit, PTL DEF MonitorSpec

\* At most one watcher of a monitor runs, its instance can cancel it, and none outlives its
\* instance: even where turns and watchers get between a rebuild and the close of the old
\* instance, as long as no poll comes while a stop waits.
THEOREM WatchersCancellable == "poll_in_stop" \notin Faults => (MonitorSpec => []Watched)
<1> SUFFICES ASSUME "poll_in_stop" \notin Faults PROVE MonitorSpec => []Watched
  OBVIOUS
<1>1. WatchInv => Watched
  BY DEF WatchInv, Tended, Watched
<1> QED
  BY <1>1, WatchersTended, PTL

\* No watcher of any monitor is out of reach of stop_monitor and aclose, and none outlives
\* its instance; the states have the types they should.
THEOREM OneWatcherRuns == Faults = {} => (MonitorSpec => []OneWatcher)
<1> SUFFICES ASSUME Faults = {} PROVE MonitorSpec => []OneWatcher
  OBVIOUS
<1>1. WakeInv => OneWatcher
  <2> SUFFICES ASSUME WakeInv PROVE OneWatcher
    OBVIOUS
  <2>1. Watched
    BY DEF WakeInv, WatchInv, Tended, Watched
  <2>2. said \in [Ids -> 0..2] /\ saved \in [Ids -> 0..2]
    <3>1. said \in [Ids -> 0..1] /\ saved \in [Ids -> 0..1]
      BY DEF WakeInv, Accounted
    <3> QED
      BY <3>1
  <2> QED
    BY <2>1, <2>2 DEF WakeInv, WatchInv, MonitorTypeOK, OneWatcher
<1> QED
  BY <1>1, WakeInvariant, PTL

\* A fire saves the registry of its instance as it is.
LEMMA FireWrites ==
    ASSUME mem \in [Loads -> Instance], NEW i \in Loads, NEW k \in Keys, Fire(i, k)
    PROVE  /\ disk'.reg = mem[i].reg
           /\ \A j \in Loads : mem'[j].reg = mem[j].reg /\ mem'[j].open = mem[j].open
<1>1. PICK d \in Data :
           LET e == [id |-> nextId, key |-> k, sess |-> mem[i].reg[k].sess,
                     data |-> d, noted |-> FALSE]
               q == Append1(mem[i].queue, e)
           IN  /\ mem' = [mem EXCEPT ![i].queue = q]
               /\ disk' = [reg |-> mem[i].reg,
                           queue |-> IF q = mem[i].queue THEN disk.queue ELSE q]
  BY DEF Fire
<1> DEFINE q == Append1(mem[i].queue, [id |-> nextId, key |-> k, sess |-> mem[i].reg[k].sess,
                                       data |-> d, noted |-> FALSE])
<1>2. mem' = [mem EXCEPT ![i].queue = q]
  BY <1>1
<1>3. disk' = [reg |-> mem[i].reg, queue |-> IF q = mem[i].queue THEN disk.queue ELSE q]
  BY <1>1
<1> HIDE DEF q
<1> QED
  BY <1>2, <1>3 DEF Instance

\* Who writes the registry file writes the registry it has in memory; it is either out of
\* date before, or brings no entry back.
LEMMA RegistryWrites ==
    ASSUME WatchInv, MonitorNext
    PROVE  \/ registered' # registered
           \/ OnlyStopped(disk.reg, disk'.reg)
           \/ \E i \in Loads : Stale(i) /\ disk'.reg = mem'[i].reg
<1>t. /\ disk \in [reg : [Keys -> Entry], queue : SUBSET Event] /\ mem \in [Loads -> Instance]
      /\ registered \in Nat /\ (cur # 0 => cur \in Loads)
  BY Bounds DEF WatchInv, ControlOK, Loads
<1> SUFFICES ASSUME registered' = registered
             PROVE  \/ OnlyStopped(disk.reg, disk'.reg)
                    \/ \E i \in Loads : Stale(i) /\ disk'.reg = mem'[i].reg
  OBVIOUS
<1>o. \A i \in Loads, k \in Keys : k \in held[i] \cup stray[i] => mem[i].open \in {"yes", "closing"}
  BY DEF WatchInv, Tended, Hosts, Closing
<1>1. CASE disk'.reg = disk.reg
  BY <1>1 DEF OnlyStopped
<1>2. ASSUME NEW i \in Loads, mem[i].open \in {"yes", "closing"}, disk'.reg = mem'[i].reg,
             OnlyStopped(mem[i].reg, mem'[i].reg)
      PROVE  \/ OnlyStopped(disk.reg, disk'.reg)
             \/ Stale(i) /\ disk'.reg = mem'[i].reg
  BY <1>2 DEF Stale
<1>3. ASSUME NEW i \in Loads, NEW reg \in [Keys -> Entry], SaveRegistry(i, reg)
      PROVE  disk'.reg = reg /\ mem'[i].reg = reg
  BY <1>t, <1>3, SetRegistry DEF SaveRegistry
<1>4. ASSUME NEW i \in Loads, NEW k \in Keys, Fire(i, k)
      PROVE  \/ OnlyStopped(disk.reg, disk'.reg)
             \/ Stale(i) /\ disk'.reg = mem'[i].reg
  <2>1. disk'.reg = mem[i].reg
    BY <1>t, <1>4, FireWrites
  <2>2. mem'[i].reg = mem[i].reg
    BY <1>t, <1>4, FireWrites
  <2>3. mem[i].open \in {"yes", "closing"} /\ OnlyStopped(mem[i].reg, mem'[i].reg)
    BY <1>4, <1>o, <2>2 DEF Fire, OnlyStopped
  <2> QED
    BY <1>2, <2>1, <2>2, <2>3
<1>5. ASSUME NEW i \in Loads, NEW k \in Keys, WatcherEnds(i, k),
             mem[i].reg[k].state = "running"
      PROVE  \/ OnlyStopped(disk.reg, disk'.reg)
             \/ Stale(i) /\ disk'.reg = mem'[i].reg
  <2> DEFINE reg == [mem[i].reg EXCEPT ![k].state = "stopped"]
  <2>1. mem[i].reg \in [Keys -> Entry]
    BY <1>t DEF Instance
  <2>2. reg \in [Keys -> Entry] /\ OnlyStopped(mem[i].reg, reg)
    BY <1>5, <2>1, StopsEntry DEF OnlyStopped
  <2>3. SaveRegistry(i, reg)
    BY <1>5 DEF WatcherEnds
  <2> HIDE DEF reg
  <2>4. disk'.reg = reg /\ mem'[i].reg = reg
    BY <1>3, <2>2, <2>3
  <2>5. mem[i].open \in {"yes", "closing"}
    BY <1>5, <1>o DEF WatcherEnds
  <2> QED
    BY <1>2, <2>2, <2>4, <2>5
<1>6. ASSUME NEW k \in Keys, StopReturns(k), mem[cur].reg[k] # Absent
      PROVE  \/ OnlyStopped(disk.reg, disk'.reg)
             \/ \E i \in Loads : Stale(i) /\ disk'.reg = mem'[i].reg
  <2> DEFINE reg == [mem[cur].reg EXCEPT ![k] = Absent]
  <2>1. cur # 0 /\ cur \in Loads /\ mem[cur].open = "yes"
    BY <1>t, <1>6 DEF StopReturns, WatchInv, Hosts
  <2>2. mem[cur].reg \in [Keys -> Entry]
    BY <1>t, <2>1 DEF Instance
  <2>3. reg \in [Keys -> Entry] /\ OnlyStopped(mem[cur].reg, reg)
    BY <2>2, EntryParts DEF OnlyStopped
  <2>4. SaveRegistry(cur, reg)
    BY <1>6 DEF StopReturns
  <2> HIDE DEF reg
  <2>5. disk'.reg = reg /\ mem'[cur].reg = reg
    BY <1>3, <2>1, <2>3, <2>4
  <2> QED
    BY <1>2, <2>1, <2>3, <2>5
<1>7. ASSUME NEW i \in Loads, mem[i].open \in {"yes", "closing"}, disk'.reg = mem[i].reg,
             mem'[i].reg = mem[i].reg
      PROVE  \/ OnlyStopped(disk.reg, disk'.reg)
             \/ Stale(i) /\ disk'.reg = mem'[i].reg
  BY <1>2, <1>7 DEF OnlyStopped
<1>8. ASSUME NEW i \in Loads, CloseOld(i)
      PROVE  \/ OnlyStopped(disk.reg, disk'.reg)
             \/ Stale(i) /\ disk'.reg = mem'[i].reg
  <2>1. mem' = [mem EXCEPT ![i].open = "closed"] /\ disk' = [disk EXCEPT !.reg = mem[i].reg]
        /\ mem[i].open = "closing"
    BY <1>8 DEF CloseOld, Closed, Closing
  <2>2. disk'.reg = mem[i].reg /\ mem'[i].reg = mem[i].reg
    BY <1>t, <2>1 DEF Instance
  <2> QED
    BY <1>7, <2>1, <2>2
<1>9. CASE Shutdown
  <2>1. cur \in Loads /\ mem[cur].open = "yes" /\ disk' = [disk EXCEPT !.reg = mem[cur].reg]
        /\ mem' = [i \in Loads |-> [mem[i] EXCEPT !.open = IF @ = "no" THEN "no" ELSE "closed"]]
    BY <1>t, <1>9 DEF Shutdown, Gone, WatchInv, Hosts
  <2>2. disk'.reg = mem[cur].reg /\ mem'[cur].reg = mem[cur].reg
    BY <1>t, <2>1 DEF Instance
  <2> QED
    BY <1>7, <2>1, <2>2
<1>10. ASSUME NEW k \in Keys, Register(k) PROVE FALSE
  BY <1>t, <1>10 DEF Register
<1>11. CASE \/ \E i \in Loads, k \in Keys : WatcherEnds(i, k) /\ mem[i].reg[k].state # "running"
            \/ \E k \in Keys : StopMonitor(k) \/ (StopReturns(k) /\ mem[cur].reg[k] = Absent)
            \/ Tick \/ CancelWake \/ Checkpoint \/ EndTurn \/ SwitchSession
            \/ StartHost \/ Rebuild \/ Crash
  BY <1>1, <1>11 DEF WatcherEnds, StopMonitor, StopReturns, Tick, CancelWake, Checkpoint, EndTurn,
                     SwitchSession, StartHost, Rebuild, Crash, files
<1>12. CASE UserTurn \/ WakeTurn
  <2>1. \E i : Drain(i)
    BY <1>12 DEF UserTurn, WakeTurn
  <2>2. disk'.reg = disk.reg
    BY <1>t, <2>1 DEF Drain
  <2> QED
    BY <1>1, <2>2
<1> QED
  BY <1>4, <1>5, <1>6, <1>8, <1>9, <1>10, <1>11, <1>12 DEF MonitorNext

\* Where no instance is closing, one that has the registry of the file keeps it: whatever
\* it writes, it writes to both, and a new instance loads what the file has.
LEMMA StaysFresh ==
    ASSUME WatchInv, MonitorNext, Closing = {}, \A i \in Loads : ~Stale(i)
    PROVE  \A i \in Loads : ~Stale(i)'
<1>t. /\ disk \in [reg : [Keys -> Entry], queue : SUBSET Event] /\ mem \in [Loads -> Instance]
      /\ cur # 0 => cur \in Loads /\ mem[cur].reg = disk.reg
      /\ \A i \in Loads : mem[i].open \in {"yes", "closing"} <=> i = cur
  <2>1. /\ disk \in [reg : [Keys -> Entry], queue : SUBSET Event] /\ mem \in [Loads -> Instance]
        /\ cur # 0 => cur \in Loads
    BY Bounds DEF WatchInv, ControlOK, Loads
  <2>2. \A i \in Loads : mem[i].open \in {"yes", "closing"} <=> i = cur
    BY DEF WatchInv, Hosts, Closing
  <2>3. cur # 0 => mem[cur].reg = disk.reg
    BY <2>1, <2>2 DEF Stale
  <2> QED
    BY <2>1, <2>2, <2>3
<1>o. \A i \in Loads, k \in Keys : k \in held[i] \cup stray[i] => i = cur
  BY DEF WatchInv, Tended, Closing
<1>1. ASSUME NEW i \in Loads, i = cur, disk'.reg = mem'[i].reg,
             \A j \in Loads : mem'[j].open = mem[j].open
      PROVE  \A j \in Loads : ~Stale(j)'
  BY <1>t, <1>1 DEF Stale
<1>2. CASE disk'.reg = disk.reg /\ \A j \in Loads : /\ mem'[j].open = mem[j].open
                                                   /\ mem'[j].reg = mem[j].reg
  BY <1>2 DEF Stale
<1>3. ASSUME NEW i \in Loads, i = cur, NEW reg \in [Keys -> Entry], SaveRegistry(i, reg)
      PROVE  \A j \in Loads : ~Stale(j)'
  <2>1. disk'.reg = reg /\ mem'[i].reg = reg /\ \A j \in Loads : mem'[j].open = mem[j].open
    BY <1>t, <1>3, SetRegistry DEF SaveRegistry
  <2> QED
    BY <1>1, <1>3, <2>1
<1>4. ASSUME NEW i \in Loads, NEW k \in Keys, Fire(i, k) PROVE \A j \in Loads : ~Stale(j)'
  <2>1. disk'.reg = mem[i].reg
    BY <1>t, <1>4, FireWrites
  <2>2. mem'[i].reg = mem[i].reg /\ \A j \in Loads : mem'[j].open = mem[j].open
    BY <1>t, <1>4, FireWrites
  <2>3. i = cur
    BY <1>4, <1>o DEF Fire
  <2> QED
    BY <1>1, <2>1, <2>2, <2>3
<1>5. ASSUME NEW i \in Loads, NEW k \in Keys, WatcherEnds(i, k),
             mem[i].reg[k].state = "running"
      PROVE  \A j \in Loads : ~Stale(j)'
  <2> DEFINE reg == [mem[i].reg EXCEPT ![k].state = "stopped"]
  <2>1. mem[i].reg \in [Keys -> Entry] /\ i = cur
    BY <1>t, <1>5, <1>o DEF Instance, WatcherEnds
  <2>2. reg \in [Keys -> Entry] /\ SaveRegistry(i, reg)
    BY <1>5, <2>1, StopsEntry DEF WatcherEnds
  <2> QED
    BY <1>3, <2>1, <2>2
<1>6. ASSUME NEW k \in Keys, Register(k) PROVE \A j \in Loads : ~Stale(j)'
  <2> DEFINE entry == [state |-> "running", sess |-> session]
             reg == [mem[cur].reg EXCEPT ![k] = entry]
  <2>1. cur \in Loads /\ session \in Sessions /\ SaveRegistry(cur, reg)
    BY <1>t, <1>6 DEF Register, WatchInv, ControlOK
  <2>2. entry \in Entry /\ mem[cur].reg \in [Keys -> Entry]
    BY <1>t, <2>1, EntryParts DEF Instance
  <2> HIDE DEF entry
  <2>3. reg \in [Keys -> Entry]
    BY <2>2
  <2> QED
    BY <1>3, <2>1, <2>3
<1>7. ASSUME NEW k \in Keys, StopReturns(k), mem[cur].reg[k] # Absent
      PROVE  \A j \in Loads : ~Stale(j)'
  <2> DEFINE reg == [mem[cur].reg EXCEPT ![k] = Absent]
  <2>1. cur \in Loads /\ SaveRegistry(cur, reg)
    BY <1>t, <1>7 DEF StopReturns, WatchInv, Hosts
  <2>2. mem[cur].reg \in [Keys -> Entry]
    BY <1>t, <2>1 DEF Instance
  <2>3. reg \in [Keys -> Entry]
    BY <2>2, EntryParts
  <2> QED
    BY <1>3, <2>1, <2>3
<1>8. CASE StartHost \/ Rebuild
  <2>1. /\ loads < MaxLoads /\ disk' = disk
        /\ \/ mem' = Loaded(mem) /\ cur = 0
           \/ mem' = [Loaded(mem) EXCEPT ![cur].open = "closing"] /\ cur \in Loads
    BY <1>t, <1>8 DEF StartHost, Rebuild
  <2>2. /\ loads + 1 \in Loads /\ Loaded(mem) \in [Loads -> Instance]
        /\ Loaded(mem)[loads + 1].reg = disk.reg
        /\ \A j \in Loads \ {loads + 1} : Loaded(mem)[j] = mem[j]
    BY <2>1, LoadsNew DEF WatchInv
  <2> DEFINE new == Loaded(mem)
  <2>3. /\ new \in [Loads -> Instance] /\ new[loads + 1].reg = disk.reg
        /\ \A j \in Loads : j = loads + 1 \/ new[j] = mem[j]
        /\ mem' = new \/ (mem' = [new EXCEPT ![cur].open = "closing"] /\ cur \in Loads)
    BY <2>1, <2>2
  <2> HIDE DEF new
  <2>4. ASSUME NEW j \in Loads
        PROVE  mem'[j].reg = new[j].reg /\ (mem'[j] = new[j] \/ j = cur)
    BY <2>3 DEF Instance
  <2>5. ASSUME NEW j \in Loads, mem'[j].open \in {"yes", "closing"} PROVE mem'[j].reg = disk.reg
    <3>1. CASE j = loads + 1
      BY <2>3, <2>4, <3>1
    <3>2. CASE j # loads + 1
      <4>1. new[j] = mem[j] /\ mem'[j].reg = mem[j].reg
        BY <2>3, <2>4, <3>2
      <4>2. j = cur
        BY <1>t, <2>4, <2>5, <4>1
      <4>3. j # 0
        BY Bounds DEF Loads
      <4> QED
        BY <1>t, <4>1, <4>2, <4>3
    <3> QED
      BY <3>1, <3>2
  <2> QED
    BY <2>1, <2>5 DEF Stale
<1>9. CASE Crash \/ Shutdown
  <2>1. mem' = [i \in Loads |-> [mem[i] EXCEPT !.open = IF @ = "no" THEN "no" ELSE "closed"]]
    BY <1>9 DEF Crash, Shutdown, Gone
  <2>2. \A j \in Loads : mem'[j].open \in {"no", "closed"}
    BY <1>t, <2>1 DEF Instance
  <2> QED
    BY <2>2 DEF Stale
<1>10. CASE \/ \E i \in Loads, k \in Keys : WatcherEnds(i, k) /\ mem[i].reg[k].state # "running"
            \/ \E k \in Keys : StopMonitor(k) \/ (StopReturns(k) /\ mem[cur].reg[k] = Absent)
            \/ Tick \/ CancelWake \/ Checkpoint \/ EndTurn \/ SwitchSession
  BY <1>2, <1>10 DEF WatcherEnds, StopMonitor, StopReturns, Tick, CancelWake, Checkpoint, EndTurn,
                     SwitchSession, files
<1>11. CASE UserTurn \/ WakeTurn
  <2>1. PICK i : Drain(i)
    BY <1>11 DEF UserTurn, WakeTurn
  <2>2. disk'.reg = disk.reg /\ \A j \in Loads : /\ mem'[j].open = mem[j].open
                                                /\ mem'[j].reg = mem[j].reg
    BY <1>t, <2>1 DEF Drain, Instance
  <2> QED
    BY <1>2, <2>2
<1>12. ASSUME NEW i \in Loads, CloseOld(i) PROVE FALSE
  BY <1>12 DEF CloseOld
<1> QED
  BY <1>4, <1>5, <1>6, <1>7, <1>8, <1>9, <1>10, <1>11, <1>12 DEF MonitorNext

\* A monitor that was removed, or stopped by itself, comes back to life on disk only by a
\* registration, or by an instance whose registry is out of date; and no instance becomes so
\* except while an old one is closing, whatever comes between a rebuild and that close.
THEOREM StoppedStaysStopped == "poll_in_stop" \notin Faults => (MonitorSpec => StoppedStays)
<1> SUFFICES ASSUME "poll_in_stop" \notin Faults PROVE MonitorSpec => StoppedStays
  OBVIOUS
<1>1. WatchInv /\ [MonitorNext]_vars =>
         [/\ \/ registered' # registered
             \/ OnlyStopped(disk.reg, disk'.reg)
             \/ \E i \in Loads : Stale(i) /\ disk'.reg = mem'[i].reg
          /\ Closing = {} /\ (\A i \in Loads : ~Stale(i)) => \A i \in Loads : ~Stale(i)']_vars
  BY RegistryWrites, StaysFresh
<1> QED
  BY <1>1, WatchersTended, PTL DEF MonitorSpec, StoppedStays

-----------------------------------------------------------------------------
(* The wake queue implements Delivery *)

\* Where an event is.
Placed ==
    \A x \in Ids : Place(x) = IF saved[x] = 1 THEN "delivered"
                              ELSE IF said[x] = 1 THEN "queued"
                              ELSE IF x >= nextId THEN "unsent"
                              ELSE IF x \in InQueue(disk.queue) THEN "queued" ELSE "dropped"

LEMMA PlaceOf == WakeInv => Placed
<1> SUFFICES ASSUME WakeInv, NEW x \in Ids
             PROVE  Place(x) = IF saved[x] = 1 THEN "delivered"
                               ELSE IF said[x] = 1 THEN "queued"
                               ELSE IF x >= nextId THEN "unsent"
                               ELSE IF x \in InQueue(disk.queue) THEN "queued" ELSE "dropped"
  BY DEF Placed
<1>1. saved[x] \in {0, 1} /\ said[x] \in {0, 1}
  BY DEF WakeInv, Accounted
<1>2. (IF cur = 0 THEN disk.queue ELSE mem[cur].queue) = disk.queue
  BY DEF WakeInv, Mirrored
<1>3. Place(x) =
        CASE saved[x] = 1 -> "delivered"
          [] saved[x] > 1 -> "twice"
          [] saved[x] = 0 /\ said[x] > 0 -> "queued"
          [] OTHER -> IF x >= nextId THEN "unsent"
                      ELSE IF x \in InQueue(disk.queue) THEN "queued" ELSE "dropped"
  BY <1>2 DEF Place
<1>4. CASE saved[x] = 1
  BY <1>3, <1>4
<1>5. CASE saved[x] = 0 /\ said[x] = 1
  BY <1>3, <1>5
<1>6. CASE saved[x] = 0 /\ said[x] = 0
  BY <1>3, <1>6
<1> QED
  BY <1>1, <1>4, <1>5, <1>6

\* Where a step that accounts for the events leaves each of them.
LEMMA PlaceMoves ==
    ASSUME WakeInv, WakeInv', Accounts, NEW x \in Ids
    PROVE  /\ Place(x)' = Place(x) \/ <<Place(x), Place(x)'>> \in Box!Moves
           /\ Place(x) = "queued" /\ Place(x)' = "dropped" =>
                \/ turn = "appended" /\ cur' = 0
                \/ Queues /\ x \in InQueue(disk.queue) /\ x \notin InQueue(disk'.queue)
<1>1. Placed
  BY PlaceOf
<1>2. Placed'
  BY PlaceOf, PTL
<1>3. /\ x \in Nat /\ nextId \in Nat /\ saved[x] \in {0, 1} /\ said[x] \in {0, 1}
      /\ saved[x] <= said[x] /\ (x >= nextId => said[x] = 0)
      /\ x \in InQueue(disk.queue) => x < nextId /\ said[x] = 0
      /\ turn # "appended" => said = saved
  <2>1. x \in Nat /\ nextId \in Nat
    BY Bounds DEF WakeInv, WatchInv, ControlOK, Ids
  <2>2. x \in InQueue(disk.queue) => x < nextId /\ said[x] = 0
    BY DEF WakeInv, Accounted, InQueue
  <2> QED
    BY <2>1, <2>2 DEF WakeInv, Accounted
<1>4. CASE Keeps
  BY <1>1, <1>2, <1>4 DEF Placed, Keeps
<1>5. CASE Queues
  <2>1. PICK n \in disk'.queue : n.id = nextId /\ disk'.queue \subseteq disk.queue \cup {n}
    BY <1>5 DEF Queues
  <2>2. nextId' = nextId + 1 /\ saved' = saved /\ said' = said
    BY <1>5 DEF Queues
  <2>3. /\ x \in InQueue(disk'.queue) => x \in InQueue(disk.queue) \/ x = nextId
        /\ nextId \in InQueue(disk'.queue)
    BY <2>1 DEF InQueue
  <2> QED
    BY <1>1, <1>2, <1>3, <1>5, <2>2, <2>3 DEF Placed, Box!Moves
<1>6. CASE Hands
  <2>1. PICK got \in SUBSET InQueue(disk.queue) :
           /\ disk'.queue = {e \in disk.queue : e.id \notin got}
           /\ said' = [y \in Ids |-> IF y \in got THEN said[y] + 1 ELSE said[y]]
    BY <1>6 DEF Hands
  <2>2. saved' = saved /\ nextId' = nextId
    BY <1>6 DEF Hands
  <2>3. x \in InQueue(disk'.queue) <=> x \in InQueue(disk.queue) /\ x \notin got
    BY <2>1 DEF InQueue
  <2>4. CASE x \in got
    <3>1. said[x] = 0 /\ said'[x] = 1 /\ x < nextId /\ x \in InQueue(disk.queue) /\ saved[x] = 0
      BY <1>3, <2>1, <2>4
    <3> QED
      BY <1>1, <1>2, <1>3, <2>2, <3>1 DEF Placed
  <2>5. CASE x \notin got
    BY <1>1, <1>2, <2>1, <2>2, <2>3, <2>5 DEF Placed
  <2> QED
    BY <2>4, <2>5
<1>7. CASE Saves
  BY <1>1, <1>2, <1>3, <1>7 DEF Placed, Saves, Box!Moves
<1>8. CASE Loses
  <2>1. said'[x] = saved[x] /\ saved' = saved /\ nextId' = nextId /\ disk'.queue = disk.queue
        /\ cur' = 0
    BY <1>8 DEF Loses
  <2>2. CASE said[x] = saved[x]
    BY <1>1, <1>2, <2>1, <2>2 DEF Placed
  <2>3. CASE said[x] # saved[x]
    <3>1. turn = "appended" /\ said[x] = 1 /\ saved[x] = 0 /\ x < nextId
          /\ x \notin InQueue(disk.queue)
      BY <1>3, <2>3
    <3>2. Place(x) = "queued" /\ Place(x)' = "dropped"
      BY <1>1, <1>2, <1>3, <2>1, <3>1 DEF Placed
    <3> QED
      BY <2>1, <3>1, <3>2 DEF Box!Moves
  <2> QED
    BY <2>2, <2>3
<1> QED
  BY <1>4, <1>5, <1>6, <1>7, <1>8 DEF Accounts

LEMMA DeliveryStarts == MonitorInit => Box!DeliveryInit
<1> SUFFICES ASSUME MonitorInit, NEW x \in Ids PROVE Place(x) = "unsent"
  BY DEF Box!DeliveryInit
<1>1. saved[x] = 0 /\ said[x] = 0 /\ x >= nextId
  BY Bounds DEF MonitorInit, Ids
<1> QED
  BY <1>1 DEF Place

\* An event enters the saved conversation at most once, and one that was given up or
\* consumed never returns: over restarts, rebuilds and crashes.
THEOREM WakesDelivered == Faults = {} => (MonitorSpec => DeliveredOnce)
<1> SUFFICES ASSUME Faults = {} PROVE MonitorSpec => DeliveredOnce
  OBVIOUS
<1>1. WakeInv /\ WakeInv' /\ [MonitorNext]_vars => [Box!Move]_([x \in Ids |-> Place(x)])
  <2> SUFFICES ASSUME WakeInv, WakeInv', [MonitorNext]_vars
               PROVE  [Box!Move]_([x \in Ids |-> Place(x)])
    OBVIOUS
  <2>1. CASE MonitorNext
    <3>1. Accounts
      BY <2>1, FilesStep
    <3>2. Placed'
      BY PlaceOf, PTL
    <3>3. [x \in Ids |-> Place(x)]' \in [Ids -> Box!Places]
      BY <3>2 DEF Placed, Box!Places
    <3>4. \A x \in Ids : Place(x)' = Place(x) \/ <<Place(x), Place(x)'>> \in Box!Moves
      BY <3>1, PlaceMoves
    <3> QED
      BY <3>3, <3>4 DEF Box!Move
  <2>2. CASE UNCHANGED vars
    BY <2>2 DEF vars, Place, files, convo
  <2> QED
    BY <2>1, <2>2
<1> QED
  BY <1>1, DeliveryStarts, WakeInvariant, PTL DEF MonitorSpec, DeliveredOnce, Box!DeliverySpec

\* A queued event is only given up for a newer one of its monitor, which says so, or lost
\* by a crash before the first checkpoint of the turn it was handed to.
THEOREM LossIsTold == Faults = {} => (MonitorSpec => NoSilentLoss)
<1> SUFFICES ASSUME Faults = {} PROVE MonitorSpec => NoSilentLoss
  OBVIOUS
<1> DEFINE Told == \A x \in Ids :
                      Place(x) = "queued" /\ Place(x)' = "dropped" =>
                         \/ turn = "appended" /\ cur' = 0
                         \/ \E e \in mem[cur].queue, n \in mem'[cur].queue :
                               e.id = x /\ n.id = nextId /\ n.key = e.key /\ n.noted
<1>1. WakeInv /\ WakeInv' /\ [MonitorNext]_vars => [Told]_vars
  <2> SUFFICES ASSUME WakeInv, WakeInv', MonitorNext, NEW x \in Ids,
                      Place(x) = "queued", Place(x)' = "dropped", ~(turn = "appended" /\ cur' = 0)
               PROVE  \E e \in mem[cur].queue, n \in mem'[cur].queue :
                         e.id = x /\ n.id = nextId /\ n.key = e.key /\ n.noted
    OBVIOUS
  <2>1. Accounts
    BY FilesStep
  <2>2. Queues /\ x \in InQueue(disk.queue) /\ x \notin InQueue(disk'.queue)
    BY <2>1, PlaceMoves
  <2>3. PICK e \in disk.queue : e.id = x
    BY <2>2 DEF InQueue
  <2>4. PICK n \in disk'.queue : /\ n.id = nextId
                                 /\ \A y \in disk.queue \ disk'.queue : n.key = y.key /\ n.noted
    BY <2>2 DEF Queues
  <2>5. n.key = e.key /\ n.noted
    BY <2>2, <2>3, <2>4 DEF InQueue
  <2>6. cur' = cur /\ cur # 0
    <3>1. cur' = cur /\ nextId' # nextId
      BY <2>2, Bounds DEF Queues, Ids
    <3>2. cur # 0
      <4>1. PICK i \in Loads, k \in Keys : Fire(i, k)
        BY <3>1 DEF MonitorNext, WatcherEnds, Register, StopMonitor, StopReturns, Tick,
                    UserTurn, WakeTurn, CancelWake, Checkpoint, EndTurn, SwitchSession,
                    StartHost, Rebuild, Crash, Shutdown, Gone, CloseOld
      <4>2. i = cur
        BY <4>1, LiveInstance DEF Fire
      <4> QED
        BY <4>2, Bounds DEF Loads
    <3> QED
      BY <3>1, <3>2
  <2>7. mem[cur].queue = disk.queue /\ mem'[cur].queue = disk'.queue
    BY <2>6 DEF WakeInv, Mirrored
  <2> QED
    BY <2>3, <2>4, <2>5, <2>7
<1> QED
  BY <1>1, WakeInvariant, PTL DEF MonitorSpec, NoSilentLoss
=============================================================================
