---------------------------- MODULE Swarm_proof ----------------------------
(***************************************************************************)
(* Proofs about a swarm: for any number of members, swarms, tasks and      *)
(* messages, any caps and whatever the steps of the members use.           *)
(***************************************************************************)
EXTENDS Swarm, TLAPS

-----------------------------------------------------------------------------
(* The ledger *)

LEMMA Bounds ==
    /\ N \in Nat \ {0} /\ MaxPerAgent \in Nat \ {0} /\ MaxTotal \in Nat \ {0}
    /\ MaxSwarms \in Nat /\ MaxTasks \in Nat /\ MaxMessages \in Nat
    /\ Usage \subseteq Nat \ {0} /\ Usage # {}
  BY SwarmAssumption

\* What one member is booked, the total is booked.
LEMMA AddsMore ==
    ASSUME NEW per \in [Members -> Nat], NEW total \in Nat, Adds(per, total),
           NEW m \in Members, NEW d \in Nat
    PROVE  Adds([per EXCEPT ![m] = @ + d], total + d)
<1>1. PICK sum \in [0..N -> 0..total] :
          /\ sum[0] = 0 /\ sum[N] = total
          /\ \A n \in Members : sum[n] = sum[n - 1] + per[n]
  BY DEF Adds
<1>2. N \in Nat \ {0} /\ m \in 1..N /\ Members = 1..N
  BY Bounds DEF Members
<1> DEFINE more == [n \in 0..N |-> IF n < m THEN sum[n] ELSE sum[n] + d]
<1>3. more \in [0..N -> 0..(total + d)]
  <2> SUFFICES ASSUME NEW n \in 0..N PROVE more[n] \in 0..(total + d)
    OBVIOUS
  <2>1. sum[n] \in 0..total
    BY <1>1
  <2> QED
    BY <2>1
<1>4. more[0] = 0 /\ more[N] = total + d
  BY <1>1, <1>2
<1>5. ASSUME NEW n \in Members
      PROVE  more[n] = more[n - 1] + [per EXCEPT ![m] = @ + d][n]
  <2>1. /\ n \in 0..N /\ n - 1 \in 0..N /\ sum[n] = sum[n - 1] + per[n] /\ per[n] \in Nat
        /\ sum[n] \in Nat /\ sum[n - 1] \in Nat
    BY <1>1, <1>2
  <2>2. CASE n < m
    BY <1>2, <2>1, <2>2
  <2>3. CASE n = m
    BY <1>2, <2>1, <2>3
  <2>4. CASE n > m
    <3>1. ~(n < m) /\ ~(n - 1 < m) /\ n # m
      BY <1>2, <2>1, <2>4
    <3> QED
      BY <1>2, <2>1, <3>1
  <2> QED
    BY <1>2, <2>1, <2>2, <2>3, <2>4
<1> HIDE DEF more
<1> QED
  BY <1>3, <1>4, <1>5 DEF Adds

LEMMA AddsNothing == Adds([m \in Members |-> 0], 0)
<1> DEFINE sum == [n \in 0..N |-> 0]
<1>1. sum \in [0..N -> 0..0] /\ sum[0] = 0 /\ sum[N] = 0
  BY Bounds
<1>2. \A m \in Members : sum[m] = sum[m - 1] + 0
  BY Bounds DEF Members
<1> HIDE DEF sum
<1> QED
  BY <1>1, <1>2 DEF Adds

LEMMA LeastOfThree ==
    ASSUME NEW a \in Nat, NEW b \in Nat, NEW c \in Nat
    PROVE  /\ Min({a, b, c}) \in {a, b, c}
           /\ Min({a, b, c}) <= a /\ Min({a, b, c}) <= b /\ Min({a, b, c}) <= c
<1>1. \E x \in {a, b, c} : \A y \in {a, b, c} : x <= y
  <2>1. CASE a <= b /\ a <= c
    BY <2>1
  <2>2. CASE b <= a /\ b <= c
    BY <2>2
  <2>3. CASE c <= a /\ c <= b
    BY <2>3
  <2> QED
    BY <2>1, <2>2, <2>3
<1>2. Min({a, b, c}) \in {a, b, c} /\ \A y \in {a, b, c} : Min({a, b, c}) <= y
  BY <1>1 DEF Min
<1> QED
  BY <1>2

\* A step that finds room is booked, at least in part; what is not booked is off the books
\* because a cap is reached.
LEMMA Books ==
    ASSUME NEW r \in Runtime, NEW m \in Members, NEW used \in Usage,
           r.total <= MaxTotal, r.per[m] <= MaxPerAgent, ~Exhausted(r, m)
    PROVE  LET booked == Recorded(r, m, used)
           IN  /\ booked \in Nat /\ booked > 0 /\ booked <= used
               /\ r.total + booked <= MaxTotal /\ r.per[m] + booked <= MaxPerAgent
               /\ \/ used = booked
                  \/ r.total + booked = MaxTotal \/ r.per[m] + booked = MaxPerAgent
<1>1. /\ used \in Nat \ {0} /\ r.total \in Nat /\ r.per[m] \in Nat
      /\ MaxTotal \in Nat /\ MaxPerAgent \in Nat
  BY Bounds DEF Runtime
<1>2. r.total < MaxTotal /\ r.per[m] < MaxPerAgent
  BY <1>1 DEF Exhausted
<1> DEFINE b == MaxTotal - r.total
           c == MaxPerAgent - r.per[m]
<1>3. b \in Nat \ {0} /\ c \in Nat \ {0} /\ r.total + b = MaxTotal /\ r.per[m] + c = MaxPerAgent
  BY <1>1, <1>2
<1>4. Recorded(r, m, used) = Min({used, b, c})
  BY DEF Recorded
<1> HIDE DEF b, c
<1>5. /\ Recorded(r, m, used) \in {used, b, c} /\ Recorded(r, m, used) <= used
      /\ Recorded(r, m, used) <= b /\ Recorded(r, m, used) <= c
  BY <1>1, <1>3, <1>4, LeastOfThree
<1> QED
  BY <1>1, <1>3, <1>5

-----------------------------------------------------------------------------
(* Steps that start and end no run *)

SameBooks ==
    \A i \in Swarms : swarm'[i].per = swarm[i].per /\ swarm'[i].total = swarm[i].total

SameRun(t) ==
    /\ task'[t].pc = task[t].pc /\ task'[t].kind = task[t].kind
    /\ task'[t].swarm = task[t].swarm /\ task'[t].member = task[t].member

LEMMA LedgerStays ==
    ASSUME LedgerKept, SwarmTypeOK', SameBooks, \A t \in Tasks : unbooked'[t] \in {0, unbooked[t]}
    PROVE  LedgerKept'
<1>1. \A i \in Swarms : /\ Adds(swarm'[i].per, swarm'[i].total)
                        /\ swarm'[i].total <= MaxTotal
                        /\ \A m \in Members : swarm'[i].per[m] <= MaxPerAgent
  BY DEF LedgerKept, SameBooks
<1>2. \A t \in Tasks : \E used \in Usage : unbooked'[t] < used
  <2>1. PICK used \in Usage : TRUE
    BY Bounds
  <2>2. 0 < used
    BY <2>1, Bounds
  <2> QED
    BY <2>1, <2>2 DEF LedgerKept
<1> QED
  BY <1>1, <1>2 DEF LedgerKept, Adds

LEMMA RunsStay ==
    ASSUME RunsKept, SwarmTypeOK, SameBooks,
           \A t \in Tasks : InFlight(t)' => task'[t].swarm # 0,
           \A t \in Tasks : unbooked'[t] = 0 \/ (unbooked'[t] = unbooked[t] /\ SameRun(t))
    PROVE  RunsKept'
<1> SUFFICES ASSUME NEW t \in Tasks, unbooked'[t] > 0
             PROVE  /\ task'[t].pc = "running"
                    /\ Exhausted(swarm'[task'[t].swarm], task'[t].member)
  BY DEF RunsKept, Exhausted
<1>1. unbooked'[t] = unbooked[t] /\ SameRun(t)
  OBVIOUS
<1>2. task[t].pc = "running" /\ Exhausted(swarm[task[t].swarm], task[t].member)
  BY <1>1 DEF RunsKept
<1>3. task[t].swarm \in Swarms
  <2>1. task[t].swarm \in 0..created /\ task[t].swarm # 0 /\ created \in 0..MaxSwarms
    BY <1>2 DEF SwarmTypeOK, Task, RunsKept, InFlight
  <2> QED
    BY <2>1, Bounds DEF Swarms
<1> QED
  BY <1>1, <1>2, <1>3 DEF SameRun, SameBooks, Exhausted

LEMMA QuietStep ==
    ASSUME SwarmInv, SwarmTypeOK', UNCHANGED <<mail, unbooked>>, SameBooks,
           \A i \in Swarms : /\ swarm'[i].tracked = swarm[i].tracked
                             /\ swarm'[i].dissolved = swarm[i].dissolved
                             /\ swarm'[i].status = swarm[i].status,
           \A t \in Tasks : SameRun(t) /\ (task[t].cancelled => task'[t].cancelled)
    PROVE  SwarmInv'
<1>o. \A t \in Tasks : InFlight(t) => task[t].swarm \in Swarms
  <2> SUFFICES ASSUME NEW t \in Tasks, InFlight(t) PROVE task[t].swarm \in Swarms
    OBVIOUS
  <2>1. task[t].swarm \in 0..created /\ task[t].swarm # 0 /\ created \in 0..MaxSwarms
    BY DEF SwarmInv, LedgerKept, SwarmTypeOK, Task, RunsKept
  <2> QED
    BY <2>1, Bounds DEF Swarms
<1>1. LedgerKept'
  BY LedgerStays DEF SwarmInv
<1>2. RunsKept'
  <2>1. \A t \in Tasks : InFlight(t)' => task'[t].swarm # 0
    BY DEF SameRun, InFlight, SwarmInv, RunsKept
  <2> QED
    BY <2>1, RunsStay DEF SwarmInv, LedgerKept
<1>3. Listed'
  <2>1. ASSUME NEW t \in Tasks, InFlight(t)'
        PROVE  task'[t].cancelled \/ /\ t \in swarm'[task'[t].swarm].tracked
                                     /\ ~swarm'[task'[t].swarm].dissolved
    <3>1. InFlight(t) /\ task[t].swarm \in Swarms
      BY <1>o, <2>1 DEF SameRun, InFlight
    <3> QED
      BY <3>1 DEF SameRun, SwarmInv, Listed
  <2>2. ASSUME NEW i \in Swarms, NEW m \in Members, swarm'[i].status[m] = "running"
        PROVE  \E t \in Tasks : task'[t].pc = "running" /\ task'[t].swarm = i /\ task'[t].member = m
    <3>1. PICK t \in Tasks : task[t].pc = "running" /\ task[t].swarm = i /\ task[t].member = m
      BY <2>2 DEF SwarmInv, Listed
    <3> QED
      BY <3>1 DEF SameRun
  <2> QED
    BY <2>1, <2>2 DEF Listed
<1>4. Attended' /\ MailHeard'
  BY DEF SwarmInv, Attended, MailHeard, SameRun
<1> QED
  BY <1>1, <1>2, <1>3, <1>4 DEF SwarmInv

LEMMA Cancels ==
    ASSUME SwarmTypeOK, NEW ts, CancelAll(ts)
    PROVE  /\ task' \in [Tasks -> Task]
           /\ \A t \in Tasks : /\ SameRun(t) /\ (task[t].cancelled => task'[t].cancelled)
                               /\ t \in ts /\ InFlight(t) => task'[t].cancelled
<1> DEFINE c(t) == task[t].cancelled \/ (t \in ts /\ InFlight(t))
<1>1. task' = [t \in Tasks |-> [task[t] EXCEPT !.cancelled = c(t)]]
  BY DEF CancelAll
<1>2. \A t \in Tasks : task[t] \in Task
  BY DEF SwarmTypeOK
<1>3. \A r \in Task, b \in BOOLEAN : LET q == [r EXCEPT !.cancelled = b]
         IN  /\ q \in Task /\ q.cancelled = b /\ q.pc = r.pc /\ q.kind = r.kind
             /\ q.swarm = r.swarm /\ q.member = r.member
  BY DEF Task
<1>4. \A t \in Tasks : c(t) \in BOOLEAN
  BY <1>2 DEF Task
<1>5. ASSUME NEW t \in Tasks
      PROVE  /\ task'[t] \in Task /\ task'[t].cancelled = c(t) /\ task'[t].pc = task[t].pc
             /\ task'[t].kind = task[t].kind /\ task'[t].swarm = task[t].swarm
             /\ task'[t].member = task[t].member
  <2> HIDE DEF c
  <2>1. task'[t] = [task[t] EXCEPT !.cancelled = c(t)] /\ task[t] \in Task /\ c(t) \in BOOLEAN
    BY <1>1, <1>2, <1>4
  <2> QED
    BY <1>3, <2>1
<1> QED
  BY <1>1, <1>5 DEF SameRun

\* Swarms are made, waited for, and left by a plugin that closes.
LEMMA ControlStep ==
    ASSUME SwarmInv, Create \/ Collect \/ CollectReturns \/ CancelCollect \/ Close
    PROVE  SwarmInv'
<1>t. SwarmTypeOK
  BY DEF SwarmInv, LedgerKept
<1>1. CASE Create
  <2>1. /\ created < MaxSwarms /\ created' = created + 1 /\ current' = created + 1
        /\ UNCHANGED <<task, collect, mail, unbooked>>
    BY <1>1 DEF Create
  <2>2. created' \in 0..MaxSwarms /\ current' \in 0..created' /\ created + 1 \in Swarms
        /\ \A n \in 0..created : n \in 0..created'
    BY <1>t, <2>1, Bounds DEF SwarmTypeOK, Swarms
  <2>3. swarm' = [i \in Swarms |-> [swarm[i] EXCEPT !.replaced = @ \/ i = current]]
    BY <1>1 DEF Create
  <2>4. /\ swarm' \in [Swarms -> Runtime] /\ SameBooks
        /\ \A i \in Swarms : /\ swarm'[i].tracked = swarm[i].tracked
                             /\ swarm'[i].dissolved = swarm[i].dissolved
                             /\ swarm'[i].status = swarm[i].status
    <3>1. \A x \in Runtime, b \in BOOLEAN : LET q == [x EXCEPT !.replaced = b]
             IN  /\ q \in Runtime /\ q.per = x.per /\ q.total = x.total
                 /\ q.tracked = x.tracked /\ q.dissolved = x.dissolved /\ q.status = x.status
      BY DEF Runtime
    <3> DEFINE over(i) == swarm[i].replaced \/ i = current
    <3>2. \A i \in Swarms : swarm[i] \in Runtime /\ over(i) \in BOOLEAN
      BY <1>t DEF SwarmTypeOK, Runtime
    <3>3. swarm' = [i \in Swarms |-> [swarm[i] EXCEPT !.replaced = over(i)]]
      BY <2>3
    <3> HIDE DEF over
    <3>4. \A i \in Swarms : /\ swarm'[i] \in Runtime
                            /\ swarm'[i].per = swarm[i].per /\ swarm'[i].total = swarm[i].total
                            /\ swarm'[i].tracked = swarm[i].tracked
                            /\ swarm'[i].dissolved = swarm[i].dissolved
                            /\ swarm'[i].status = swarm[i].status
      <4> SUFFICES ASSUME NEW i \in Swarms
                   PROVE  /\ swarm'[i] \in Runtime
                          /\ swarm'[i].per = swarm[i].per /\ swarm'[i].total = swarm[i].total
                          /\ swarm'[i].tracked = swarm[i].tracked
                          /\ swarm'[i].dissolved = swarm[i].dissolved
                          /\ swarm'[i].status = swarm[i].status
        OBVIOUS
      <4>1. swarm'[i] = [swarm[i] EXCEPT !.replaced = over(i)]
        BY <3>3
      <4> QED
        BY <3>1, <3>2, <4>1
    <3>5. swarm' \in [Swarms -> Runtime]
      BY <3>3, <3>4
    <3> QED
      BY <3>4, <3>5 DEF SameBooks
  <2>5. task' \in [Tasks -> Task'] /\ mail' \in [Messages -> Message']
    BY <1>t, <2>1, <2>2 DEF SwarmTypeOK, Task, Message
  <2>6. SwarmTypeOK'
    BY <1>t, <2>1, <2>2, <2>4, <2>5 DEF SwarmTypeOK
  <2> QED
    BY <2>1, <2>4, <2>6, QuietStep DEF SameRun
<1>2. CASE Collect \/ CollectReturns
  <2>1. UNCHANGED <<current, created, swarm, task, mail, unbooked>>
    BY <1>2 DEF Collect, CollectReturns
  <2>2. collect' \in [on : BOOLEAN, timed : BOOLEAN, waits : SUBSET Tasks]
    <3>1. CASE Collect
      <4>1. current \in Swarms
        BY <1>t, <3>1, Bounds DEF Collect, SwarmTypeOK, Swarms
      <4>2. swarm[current].tracked \in SUBSET Tasks
        BY <1>t, <4>1 DEF SwarmTypeOK, Runtime
      <4>3. PICK timed \in BOOLEAN :
               collect' = [on |-> TRUE, timed |-> timed,
                           waits |-> IF timed THEN {} ELSE swarm[current].tracked]
        BY <3>1 DEF Collect
      <4> QED
        BY <4>2, <4>3
    <3>2. CASE CollectReturns
      BY <3>2 DEF CollectReturns, NoCollect
    <3> QED
      BY <1>2, <3>1, <3>2
  <2>3. SwarmTypeOK'
    BY <1>t, <2>1, <2>2 DEF SwarmTypeOK, Task, Message
  <2> QED
    BY <2>1, <2>3, QuietStep DEF SameRun, SameBooks
<1>3. CASE CancelCollect \/ Close
  <2>1. UNCHANGED <<created, swarm, mail, unbooked>>
    BY <1>3 DEF CancelCollect, Close
  <2>2. /\ task' \in [Tasks -> Task]
        /\ \A t \in Tasks : SameRun(t) /\ (task[t].cancelled => task'[t].cancelled)
    <3>1. UNCHANGED task \/ \E ts \in SUBSET Tasks : CancelAll(ts)
      <4>1. CASE CancelCollect
        BY <1>t, <4>1 DEF CancelCollect, SwarmTypeOK
      <4>2. CASE Close
        <5>1. current \in Swarms
          BY <1>t, <4>2, Bounds DEF Close, SwarmTypeOK, Swarms
        <5> QED
          BY <1>t, <4>2, <5>1 DEF Close, SwarmTypeOK, Runtime
      <4> QED
        BY <1>3, <4>1, <4>2
    <3>2. CASE UNCHANGED task
      BY <1>t, <3>2 DEF SwarmTypeOK, SameRun
    <3> QED
      BY <1>t, <3>1, <3>2, Cancels
  <2>3. collect' \in [on : BOOLEAN, timed : BOOLEAN, waits : SUBSET Tasks]
        /\ current' \in 0..created
    <3>1. CASE CancelCollect
      <4>1. NoCollect \in [on : BOOLEAN, timed : BOOLEAN, waits : SUBSET Tasks]
        BY DEF NoCollect
      <4>2. collect' \in {collect, NoCollect} /\ current' = current
        BY <3>1 DEF CancelCollect
      <4> QED
        BY <1>t, <4>1, <4>2, <2>1 DEF SwarmTypeOK
    <3>2. CASE Close
      <4>1. 0 \in 0..created /\ current' = 0 /\ collect' = collect
        BY <1>t, <3>2, Bounds DEF SwarmTypeOK, Close
      <4> QED
        BY <1>t, <4>1 DEF SwarmTypeOK
    <3> QED
      BY <1>3, <3>1, <3>2
  <2>4. SwarmTypeOK'
    BY <1>t, <2>1, <2>2, <2>3 DEF SwarmTypeOK, Task, Message
  <2> QED
    BY <2>1, <2>2, <2>4, QuietStep DEF SameBooks
<1> QED
  BY <1>1, <1>2, <1>3

-----------------------------------------------------------------------------
(* What a task in flight belongs to *)

LEMMA Own ==
    ASSUME SwarmInv, NEW t \in Tasks, InFlight(t)
    PROVE  /\ task[t].swarm \in Swarms /\ task[t].member \in Members
           /\ swarm[task[t].swarm] \in Runtime
<1>1. /\ task[t] \in Task /\ task[t].swarm # 0 /\ created \in 0..MaxSwarms
      /\ swarm \in [Swarms -> Runtime]
  BY DEF SwarmInv, LedgerKept, SwarmTypeOK, RunsKept
<1>2. task[t].swarm \in 0..created /\ task[t].member \in Members
  BY <1>1 DEF Task
<1>3. task[t].swarm \in Swarms
  BY <1>1, <1>2, Bounds DEF Swarms
<1> QED
  BY <1>1, <1>2, <1>3

LEMMA Current ==
    ASSUME SwarmInv, current # 0
    PROVE  current \in Swarms /\ current \in 0..created /\ swarm[current] \in Runtime
  BY Bounds DEF SwarmInv, LedgerKept, SwarmTypeOK, Swarms

\* Who is not in flight has nothing off the books.
LEMMA NothingOff ==
    ASSUME SwarmInv, NEW t \in Tasks, task[t].pc # "running"
    PROVE  unbooked[t] = 0
<1>1. unbooked[t] \in Nat /\ ~(unbooked[t] > 0)
  BY DEF SwarmInv, LedgerKept, SwarmTypeOK, RunsKept
<1> QED
  BY <1>1

-----------------------------------------------------------------------------
(* Messages *)

LEMMA SendStep ==
    ASSUME SwarmInv, NEW x \in Messages, NEW m \in Members, SendMessage(x, m)
    PROVE  SwarmInv'
<1> DEFINE late == \E t \in Tasks : /\ task[t].pc = "running" /\ task[t].kind = "pipeline"
                                    /\ task[t].swarm = current /\ task[t].member = m
           new == [swarm |-> current, to |-> m, at |-> "inbox", heard |-> FALSE, late |-> late]
<1>1. /\ current # 0 /\ mail' = [mail EXCEPT ![x] = new]
      /\ UNCHANGED <<current, created, swarm, task, collect, unbooked>>
  BY DEF SendMessage
<1>t. SwarmTypeOK
  BY DEF SwarmInv, LedgerKept
<1>2. late \in BOOLEAN
  OBVIOUS
<1>3. new \in Message /\ new.at = "inbox" /\ new.late = late /\ new.swarm = current /\ new.to = m
  <2> HIDE DEF late
  <2> QED
    BY <1>t, <1>2 DEF SwarmTypeOK, Message
<1> HIDE DEF new
<1>4. mail \in [Messages -> Message]
  BY <1>t DEF SwarmTypeOK
<1>5. mail' \in [Messages -> Message] /\ mail'[x] = new /\ \A y \in Messages \ {x} : mail'[y] = mail[y]
  BY <1>1, <1>3, <1>4
<1>6. SwarmTypeOK'
  BY <1>t, <1>1, <1>5 DEF SwarmTypeOK, Task, Message
<1>7. LedgerKept' /\ RunsKept'
  BY <1>1, <1>6 DEF SwarmInv, LedgerKept, RunsKept, Adds, InFlight, Exhausted
<1>8. Listed'
  BY <1>1 DEF SwarmInv, Listed, InFlight
<1>9. Attended'
  <2> SUFFICES ASSUME NEW y \in Messages, NEW t \in Tasks, mail'[y].at = "inbox",
                      task[t].pc = "running", task[t].kind = "pipeline",
                      task[t].swarm = mail'[y].swarm, task[t].member = mail'[y].to
               PROVE  mail'[y].heard \/ mail'[y].late
    BY <1>1 DEF Attended
  <2>1. CASE y = x
    BY <1>3, <1>5, <2>1
  <2>2. CASE y # x
    BY <1>5, <2>2 DEF SwarmInv, Attended
  <2> QED
    BY <2>1, <2>2
<1>10. MailHeard'
  BY <1>3, <1>5 DEF SwarmInv, MailHeard
<1> QED
  BY <1>7, <1>8, <1>9, <1>10 DEF SwarmInv

\* What the end of a stage drains was heard, or is late.
LEMMA Drained ==
    ASSUME SwarmInv, NEW t \in Tasks, task[t].pc = "running", task[t].kind = "pipeline"
    PROVE  LET msgs == DrainInbox(task[t].swarm, task[t].member)
           IN  /\ msgs \in [Messages -> Message]
               /\ \A x \in Messages : /\ msgs[x].at = "lost" => msgs[x].late
                                      /\ msgs[x].at = "inbox" => msgs[x] = mail[x]
<1> DEFINE i == task[t].swarm
           m == task[t].member
           lost(x) == [Unsent EXCEPT !.at = "lost", !.late = mail[x].late]
<1>t. mail \in [Messages -> Message] /\ created \in Nat /\ Members = 1..N
  BY Bounds DEF SwarmInv, LedgerKept, SwarmTypeOK, Members
<1>1. Unsent \in Message /\ Unsent.at = "unsent"
  BY <1>t, Bounds DEF Unsent, Message
<1>2. ASSUME NEW x \in Messages
      PROVE  lost(x) \in Message /\ lost(x).at = "lost" /\ lost(x).late = mail[x].late
  BY <1>t, <1>1, <1>2, Bounds DEF Unsent, Message
<1>3. ASSUME NEW x \in Messages, Pending(x, i, m)
      PROVE  mail[x].heard \/ mail[x].late
  BY <1>3 DEF Pending, SwarmInv, Attended
<1>4. ASSUME NEW x \in Messages
      PROVE  DrainInbox(i, m)[x] = IF Pending(x, i, m)
                                     THEN IF mail[x].heard THEN Unsent ELSE lost(x)
                                     ELSE mail[x]
  BY DEF DrainInbox
<1>5. ASSUME NEW x \in Messages
      PROVE  /\ DrainInbox(i, m)[x] \in Message
             /\ (DrainInbox(i, m)[x].at = "lost" => DrainInbox(i, m)[x].late)
             /\ (DrainInbox(i, m)[x].at = "inbox" => DrainInbox(i, m)[x] = mail[x])
  <2> HIDE DEF lost, i, m
  <2>1. mail[x] \in Message /\ (mail[x].at = "lost" => mail[x].late)
    BY <1>t DEF SwarmInv, MailHeard
  <2> QED
    BY <1>1, <1>2, <1>3, <1>4, <2>1
<1>6. DrainInbox(i, m) \in [Messages -> Message]
  BY <1>5 DEF DrainInbox
<1> QED
  BY <1>5, <1>6

\* Who is told of messages hears those that are pending; nothing else changes.
LEMMA Seeded ==
    ASSUME SwarmTypeOK, NEW msgs \in [Messages -> Message], NEW i, NEW m
    PROVE  /\ Seed(msgs, i, m) \in [Messages -> Message]
           /\ \A x \in Messages :
                  LET msg == Seed(msgs, i, m)[x]
                  IN  /\ msg.swarm = msgs[x].swarm /\ msg.to = msgs[x].to
                      /\ msg.at = msgs[x].at /\ msg.late = msgs[x].late
                      /\ msgs[x].heard => msg.heard
                      /\ Pending(x, i, m) => msg.heard
<1>1. \A r \in Message : LET q == [r EXCEPT !.heard = TRUE]
         IN  /\ q \in Message /\ q.heard /\ q.swarm = r.swarm /\ q.to = r.to
             /\ q.at = r.at /\ q.late = r.late
  BY DEF Message
<1> QED
  BY <1>1 DEF Seed

-----------------------------------------------------------------------------
(* The tools that start and cancel tasks *)

LEMMA StartStep ==
    ASSUME SwarmInv, NEW ms \in SUBSET Members, NEW kind \in {"member", "pipeline"},
           current # 0, ~swarm[current].dissolved, StartTasks(ms, kind),
           UNCHANGED <<current, created, collect, mail, unbooked>>
    PROVE  SwarmInv'
<1> DEFINE new == {t \in Tasks : \E m \in ms : Gets(t, m, ms)}
           started(t) == [swarm |-> current, kind |-> kind, pc |-> "ready", cancelled |-> FALSE,
                          member |-> CHOOSE m \in ms : Gets(t, m, ms)]
<1>t. SwarmTypeOK
  BY DEF SwarmInv, LedgerKept
<1>1. /\ task' = [t \in Tasks |-> IF t \in new THEN started(t) ELSE task[t]]
      /\ swarm' = [swarm EXCEPT ![current].tracked = @ \cup new]
  BY DEF StartTasks
<1>2. \A t \in new : t \in Tasks /\ ~InFlight(t) /\ task[t].pc = "none"
  BY DEF Gets, InFlight
<1>3. ASSUME NEW t \in new
      PROVE  /\ started(t) \in Task /\ started(t).pc = "ready" /\ started(t).swarm = current
  <2>1. PICK m \in ms : Gets(t, m, ms)
    OBVIOUS
  <2>2. (CHOOSE n \in ms : Gets(t, n, ms)) \in Members
    BY <2>1
  <2> QED
    BY <2>2, Current DEF Task
<1> HIDE DEF new, started
<1>4. ASSUME NEW t \in Tasks
      PROVE  /\ task'[t] \in Task
             /\ t \in new => task'[t].pc = "ready" /\ task'[t].swarm = current
             /\ t \notin new => task'[t] = task[t]
  BY <1>t, <1>1, <1>3 DEF SwarmTypeOK
<1>5. ASSUME NEW t \in Tasks, task'[t].pc = "running" \/ task[t].pc = "running"
      PROVE  t \notin new /\ task'[t] = task[t]
  BY <1>2, <1>4, <1>5
<1>6. /\ swarm' \in [Swarms -> Runtime] /\ SameBooks
      /\ new \subseteq swarm'[current].tracked
      /\ \A i \in Swarms : /\ swarm[i].tracked \subseteq swarm'[i].tracked
                           /\ swarm'[i].dissolved = swarm[i].dissolved
                           /\ swarm'[i].status = swarm[i].status
  BY <1>t, <1>1, <1>2, Current DEF SwarmTypeOK, Runtime, SameBooks
<1>7. SwarmTypeOK'
  <2>1. task' \in [Tasks -> Task]
    BY <1>1, <1>4
  <2> QED
    BY <1>t, <1>6, <2>1 DEF SwarmTypeOK, Task, Message
<1>8. LedgerKept'
  BY <1>6, <1>7, LedgerStays DEF SwarmInv
<1>9. RunsKept'
  <2>1. ASSUME NEW t \in Tasks, InFlight(t)' PROVE task'[t].swarm # 0
    BY <1>4, <2>1 DEF InFlight, SwarmInv, RunsKept
  <2>2. ASSUME NEW t \in Tasks
        PROVE  unbooked'[t] = 0 \/ (unbooked'[t] = unbooked[t] /\ SameRun(t))
    <3>1. CASE t \in new
      BY <1>2, <3>1, NothingOff
    <3>2. CASE t \notin new
      BY <1>4, <3>2 DEF SameRun
    <3> QED
      BY <3>1, <3>2
  <2> QED
    BY <1>t, <1>6, <2>1, <2>2, RunsStay DEF SwarmInv
<1>10. Listed'
  <2>1. ASSUME NEW t \in Tasks, InFlight(t)'
        PROVE  task'[t].cancelled \/ /\ t \in swarm'[task'[t].swarm].tracked
                                     /\ ~swarm'[task'[t].swarm].dissolved
    <3>1. CASE t \in new
      BY <1>4, <1>6, <3>1, Current
    <3>2. CASE t \notin new
      <4>1. task'[t] = task[t] /\ InFlight(t)
        BY <1>4, <2>1, <3>2 DEF InFlight
      <4> QED
        BY <1>6, <4>1, Own DEF SwarmInv, Listed
    <3> QED
      BY <3>1, <3>2
  <2>2. ASSUME NEW i \in Swarms, NEW m \in Members, swarm'[i].status[m] = "running"
        PROVE  \E t \in Tasks : task'[t].pc = "running" /\ task'[t].swarm = i /\ task'[t].member = m
    <3>1. PICK t \in Tasks : task[t].pc = "running" /\ task[t].swarm = i /\ task[t].member = m
      BY <1>6, <2>2 DEF SwarmInv, Listed
    <3> QED
      BY <1>5, <3>1
  <2> QED
    BY <2>1, <2>2 DEF Listed
<1>11. Attended' /\ MailHeard'
  BY <1>5 DEF SwarmInv, Attended, MailHeard
<1> QED
  BY <1>8, <1>9, <1>10, <1>11 DEF SwarmInv

LEMMA AssignStep ==
    ASSUME SwarmInv, Assign
    PROVE  SwarmInv'
<1>1. /\ current # 0 /\ ~swarm[current].dissolved
      /\ UNCHANGED <<current, created, collect, mail, unbooked>>
  BY DEF Assign
<1>2. 1 \in Members
  BY Bounds DEF Members
<1>3. \E ms \in SUBSET Members, kind \in {"member", "pipeline"} : StartTasks(ms, kind)
  <2>1. CASE \E m \in Members : StartTasks({m}, "member")
    <3>1. PICK m \in Members : StartTasks({m}, "member")
      BY <2>1
    <3>2. {m} \in SUBSET Members
      OBVIOUS
    <3> QED
      BY <3>1, <3>2
  <2>2. CASE StartTasks({1}, "pipeline")
    <3>1. {1} \in SUBSET Members
      BY <1>2
    <3> QED
      BY <2>2, <3>1
  <2>3. CASE StartTasks(Members, "member")
    BY <2>3
  <2> QED
    BY <2>1, <2>2, <2>3 DEF Assign
<1> QED
  BY <1>1, <1>3, StartStep

LEMMA DissolveStep ==
    ASSUME SwarmInv, Dissolve
    PROVE  SwarmInv'
<1> DEFINE stands(s) == IF s \in {"running", "idle"} THEN "dissolved" ELSE s
           status == [m \in Members |-> stands(swarm[current].status[m])]
<1>t. SwarmTypeOK
  BY DEF SwarmInv, LedgerKept
<1>1. /\ current # 0 /\ CancelAll(swarm[current].tracked)
      /\ swarm' = [swarm EXCEPT ![current].dissolved = TRUE, ![current].tracked = {},
                                ![current].status = status]
      /\ UNCHANGED <<current, created, collect, mail, unbooked>>
  BY DEF Dissolve
<1>2. /\ status \in [Members -> {"idle", "running", "over", "dissolved"}]
      /\ \A m \in Members : status[m] # "running"
  BY <1>1, Current DEF Runtime
<1> HIDE DEF status
<1>3. /\ swarm' \in [Swarms -> Runtime] /\ SameBooks
      /\ swarm'[current].status = status
      /\ \A i \in Swarms \ {current} : swarm'[i] = swarm[i]
  BY <1>t, <1>1, <1>2, Current DEF SwarmTypeOK, Runtime, SameBooks
<1>4. /\ task' \in [Tasks -> Task]
      /\ \A t \in Tasks : /\ SameRun(t) /\ (task[t].cancelled => task'[t].cancelled)
                          /\ t \in swarm[current].tracked /\ InFlight(t) => task'[t].cancelled
  BY <1>t, <1>1, Cancels
<1>5. SwarmTypeOK'
  BY <1>t, <1>1, <1>3, <1>4 DEF SwarmTypeOK, Task, Message
<1>6. LedgerKept'
  BY <1>1, <1>3, <1>5, LedgerStays DEF SwarmInv
<1>7. RunsKept'
  <2>1. \A t \in Tasks : InFlight(t)' => task'[t].swarm # 0
    BY <1>4 DEF SameRun, InFlight, SwarmInv, RunsKept
  <2> QED
    BY <1>t, <1>1, <1>3, <1>4, <2>1, RunsStay DEF SwarmInv
<1>8. Listed'
  <2>1. ASSUME NEW t \in Tasks, InFlight(t)'
        PROVE  task'[t].cancelled \/ /\ t \in swarm'[task'[t].swarm].tracked
                                     /\ ~swarm'[task'[t].swarm].dissolved
    <3>1. InFlight(t) /\ task'[t].swarm = task[t].swarm /\ task[t].swarm \in Swarms
      BY <1>4, <2>1, Own DEF SameRun, InFlight
    <3>2. CASE task[t].swarm = current
      BY <1>4, <3>1, <3>2 DEF SwarmInv, Listed
    <3>3. CASE task[t].swarm # current
      BY <1>3, <1>4, <3>1, <3>3 DEF SwarmInv, Listed
    <3> QED
      BY <3>2, <3>3
  <2>2. ASSUME NEW i \in Swarms, NEW m \in Members, swarm'[i].status[m] = "running"
        PROVE  \E t \in Tasks : task'[t].pc = "running" /\ task'[t].swarm = i /\ task'[t].member = m
    <3>1. i # current /\ swarm'[i] = swarm[i]
      BY <1>2, <1>3, <2>2
    <3>2. PICK t \in Tasks : task[t].pc = "running" /\ task[t].swarm = i /\ task[t].member = m
      BY <2>2, <3>1 DEF SwarmInv, Listed
    <3> QED
      BY <1>4, <3>2 DEF SameRun
  <2> QED
    BY <2>1, <2>2 DEF Listed
<1>9. Attended' /\ MailHeard'
  BY <1>1, <1>4 DEF SwarmInv, Attended, MailHeard, SameRun
<1> QED
  BY <1>6, <1>7, <1>8, <1>9 DEF SwarmInv

-----------------------------------------------------------------------------
(* The run of a member *)

Moves(t) ==
    /\ task'[t].pc = "running" /\ task'[t].swarm = task[t].swarm
    /\ task'[t].cancelled = task[t].cancelled
    /\ \A i \in Swarms : t \in swarm[i].tracked => t \in swarm'[i].tracked

\* One task moves, to its run or its next stage, or ends: the others keep what they have.
LEMMA OneTask ==
    ASSUME SwarmInv, NEW t \in Tasks, InFlight(t), SwarmTypeOK', SameBooks,
           \A u \in Tasks \ {t} : task'[u] = task[u] /\ unbooked'[u] = unbooked[u],
           unbooked'[t] = 0,
           task'[t].pc = "none" \/ Moves(t),
           \A i \in Swarms :
               /\ swarm'[i].dissolved = swarm[i].dissolved
               /\ \A u \in Tasks \ {t} : u \in swarm[i].tracked => u \in swarm'[i].tracked,
           \A i \in Swarms, m \in Members : swarm'[i].status[m] = "running" =>
               \/ Moves(t) /\ i = task[t].swarm /\ m = task'[t].member
               \/ /\ swarm[i].status[m] = "running"
                  /\ task[t].pc = "running" => i # task[t].swarm \/ m # task[t].member,
           \A x \in Messages :
               /\ mail'[x].at = "lost" => mail'[x].late
               /\ mail'[x].at = "inbox" =>
                      /\ mail[x].at = "inbox" /\ mail'[x].swarm = mail[x].swarm
                      /\ mail'[x].to = mail[x].to /\ mail'[x].late = mail[x].late
                      /\ mail[x].heard => mail'[x].heard
                      /\ /\ Moves(t) /\ task'[t].kind = "pipeline"
                         /\ task[t].swarm = mail[x].swarm /\ task'[t].member = mail[x].to
                         => mail'[x].heard
    PROVE  SwarmInv'
<1>t. SwarmTypeOK
  BY DEF SwarmInv, LedgerKept
<1>1. LedgerKept'
  <2>1. \A u \in Tasks : unbooked'[u] \in {0, unbooked[u]}
    OBVIOUS
  <2> QED
    BY <2>1, LedgerStays DEF SwarmInv
<1>2. RunsKept'
  <2>1. ASSUME NEW u \in Tasks, InFlight(u)' PROVE task'[u].swarm # 0
    <3>1. CASE u = t
      BY <2>1, <3>1 DEF InFlight, Moves, SwarmInv, RunsKept
    <3>2. CASE u # t
      BY <2>1, <3>2 DEF InFlight, SwarmInv, RunsKept
    <3> QED
      BY <3>1, <3>2
  <2>2. \A u \in Tasks : unbooked'[u] = 0 \/ (unbooked'[u] = unbooked[u] /\ SameRun(u))
    BY DEF SameRun
  <2> QED
    BY <1>t, <2>1, <2>2, RunsStay DEF SwarmInv
<1>3. Listed'
  <2>1. ASSUME NEW u \in Tasks, InFlight(u)'
        PROVE  task'[u].cancelled \/ /\ u \in swarm'[task'[u].swarm].tracked
                                     /\ ~swarm'[task'[u].swarm].dissolved
    <3>1. InFlight(u) /\ task'[u].swarm = task[u].swarm /\ task'[u].cancelled = task[u].cancelled
      BY <2>1 DEF InFlight, Moves
    <3>2. task[u].swarm \in Swarms
      BY <3>1, Own
    <3>3. u \in swarm[task[u].swarm].tracked => u \in swarm'[task[u].swarm].tracked
      <4>1. CASE u = t
        BY <2>1, <3>2, <4>1 DEF InFlight, Moves
      <4>2. CASE u # t
        BY <3>2, <4>2
      <4> QED
        BY <4>1, <4>2
    <3> QED
      BY <3>1, <3>2, <3>3 DEF SwarmInv, Listed
  <2>2. ASSUME NEW i \in Swarms, NEW m \in Members, swarm'[i].status[m] = "running"
        PROVE  \E u \in Tasks : task'[u].pc = "running" /\ task'[u].swarm = i /\ task'[u].member = m
    <3>1. CASE Moves(t) /\ i = task[t].swarm /\ m = task'[t].member
      BY <3>1 DEF Moves
    <3>2. CASE /\ swarm[i].status[m] = "running"
               /\ task[t].pc = "running" => i # task[t].swarm \/ m # task[t].member
      <4>1. PICK u \in Tasks : task[u].pc = "running" /\ task[u].swarm = i /\ task[u].member = m
        BY <3>2 DEF SwarmInv, Listed
      <4>2. u # t
        BY <3>2, <4>1
      <4> QED
        BY <4>1, <4>2
    <3> QED
      BY <2>2, <3>1, <3>2
  <2> QED
    BY <2>1, <2>2 DEF Listed
<1>4. Attended'
  <2> SUFFICES ASSUME NEW x \in Messages, NEW u \in Tasks, mail'[x].at = "inbox",
                      task'[u].pc = "running", task'[u].kind = "pipeline",
                      task'[u].swarm = mail'[x].swarm, task'[u].member = mail'[x].to
               PROVE  mail'[x].heard \/ mail'[x].late
    BY DEF Attended
  <2>1. CASE u = t
    BY <2>1 DEF Moves
  <2>2. CASE u # t
    BY <2>2 DEF SwarmInv, Attended
  <2> QED
    BY <2>1, <2>2
<1>5. MailHeard'
  BY DEF MailHeard
<1> QED
  BY <1>1, <1>2, <1>3, <1>4, <1>5 DEF SwarmInv

LEMMA BeginsStep ==
    ASSUME SwarmInv, NEW t \in Tasks, Begins(t)
    PROVE  SwarmInv'
<1> DEFINE i == task[t].swarm
           m == task[t].member
<1>t. SwarmTypeOK
  BY DEF SwarmInv, LedgerKept
<1>1. /\ task[t].pc = "ready" /\ InFlight(t)
      /\ task' = [task EXCEPT ![t].pc = "running"]
      /\ swarm' = [swarm EXCEPT ![i].status[m] = "running"]
      /\ mail' = Seed(mail, i, m)
      /\ UNCHANGED <<current, created, collect, unbooked>>
  BY DEF Begins, InFlight
<1>2. i \in Swarms /\ m \in Members /\ swarm[i] \in Runtime
  BY <1>1, Own
<1>3. /\ task' \in [Tasks -> Task] /\ Moves(t)
      /\ task'[t].member = m /\ \A u \in Tasks \ {t} : task'[u] = task[u]
  <2> HIDE DEF i, m
  <2>1. /\ task' \in [Tasks -> Task] /\ task'[t].member = task[t].member
        /\ task'[t].swarm = task[t].swarm /\ task'[t].cancelled = task[t].cancelled
        /\ task'[t].pc = "running" /\ \A u \in Tasks \ {t} : task'[u] = task[u]
    BY <1>t, <1>1 DEF SwarmTypeOK, Task
  <2>2. \A j \in Swarms : swarm'[j].tracked = swarm[j].tracked
    BY <1>t, <1>1, <1>2 DEF SwarmTypeOK, Runtime
  <2> QED
    BY <2>1, <2>2 DEF Moves, m
<1>4. /\ swarm' \in [Swarms -> Runtime] /\ SameBooks
      /\ \A j \in Swarms : /\ swarm'[j].tracked = swarm[j].tracked
                           /\ swarm'[j].dissolved = swarm[j].dissolved
                           /\ \A n \in Members : swarm'[j].status[n] =
                                  IF j = i /\ n = m THEN "running" ELSE swarm[j].status[n]
  <2> HIDE DEF i, m
  <2> QED
    BY <1>t, <1>1, <1>2 DEF SwarmTypeOK, Runtime, SameBooks
<1>5. mail \in [Messages -> Message]
  BY <1>t DEF SwarmTypeOK
<1>6. /\ mail' \in [Messages -> Message]
      /\ \A x \in Messages : /\ mail'[x].swarm = mail[x].swarm /\ mail'[x].to = mail[x].to
                             /\ mail'[x].at = mail[x].at /\ mail'[x].late = mail[x].late
                             /\ mail[x].heard => mail'[x].heard
                             /\ Pending(x, i, m) => mail'[x].heard
  BY <1>t, <1>1, <1>5, Seeded
<1>7. SwarmTypeOK'
  BY <1>t, <1>1, <1>3, <1>4, <1>6 DEF SwarmTypeOK, Task, Message
<1>8. unbooked'[t] = 0
  BY <1>1, NothingOff
<1>9. \A j \in Swarms, n \in Members : swarm'[j].status[n] = "running" =>
          \/ Moves(t) /\ j = task[t].swarm /\ n = task'[t].member
          \/ /\ swarm[j].status[n] = "running"
             /\ task[t].pc = "running" => j # task[t].swarm \/ n # task[t].member
  BY <1>1, <1>3, <1>4
<1>10. \A x \in Messages :
          /\ mail'[x].at = "lost" => mail'[x].late
          /\ mail'[x].at = "inbox" =>
                 /\ mail[x].at = "inbox" /\ mail'[x].swarm = mail[x].swarm
                 /\ mail'[x].to = mail[x].to /\ mail'[x].late = mail[x].late
                 /\ mail[x].heard => mail'[x].heard
                 /\ /\ Moves(t) /\ task'[t].kind = "pipeline"
                    /\ task[t].swarm = mail[x].swarm /\ task'[t].member = mail[x].to
                    => mail'[x].heard
  BY <1>3, <1>6 DEF SwarmInv, MailHeard, Pending
<1> HIDE DEF i, m
<1> QED
  BY <1>1, <1>3, <1>4, <1>7, <1>8, <1>9, <1>10, OneTask

\* How a run may end: what it is shown as is not a run that goes on, and what it drained is
\* no message that should have been heard.
LEMMA EndsStep ==
    ASSUME SwarmInv, NEW t \in Tasks, InFlight(t), NEW status, Ends(t, status),
           \/ status \in {"idle", "over"}
           \/ task[t].pc # "running" /\ status = swarm[task[t].swarm].status[task[t].member],
           mail' \in [Messages -> Message],
           \A x \in Messages : /\ mail'[x].at = "lost" => mail'[x].late
                               /\ mail'[x].at = "inbox" => mail'[x] = mail[x],
           unbooked' = [unbooked EXCEPT ![t] = 0], UNCHANGED <<current, created>>
    PROVE  SwarmInv'
<1> DEFINE i == task[t].swarm
           m == task[t].member
<1>t. SwarmTypeOK
  BY DEF SwarmInv, LedgerKept
<1>1. /\ task' = [task EXCEPT ![t] = NoTask]
      /\ swarm' = [swarm EXCEPT ![i].tracked = @ \ {t}, ![i].status[m] = status]
      /\ collect' = [collect EXCEPT !.waits = @ \ {t}]
  BY DEF Ends
<1>2. i \in Swarms /\ m \in Members /\ swarm[i] \in Runtime
  BY Own
<1>3. status \in {"idle", "running", "over", "dissolved"}
  BY <1>2 DEF Runtime
<1>4. NoTask \in Task /\ NoTask.pc = "none"
  BY <1>t, Bounds DEF NoTask, Task, SwarmTypeOK, Members
<1>5. /\ task' \in [Tasks -> Task] /\ task'[t].pc = "none"
      /\ \A u \in Tasks \ {t} : task'[u] = task[u]
  BY <1>t, <1>1, <1>4 DEF SwarmTypeOK
<1>6. /\ swarm' \in [Swarms -> Runtime] /\ SameBooks
      /\ \A j \in Swarms : /\ swarm'[j].dissolved = swarm[j].dissolved
                           /\ \A u \in Tasks \ {t} : u \in swarm[j].tracked => u \in swarm'[j].tracked
                           /\ \A n \in Members : swarm'[j].status[n] =
                                  IF j = i /\ n = m THEN status ELSE swarm[j].status[n]
  <2> HIDE DEF i, m
  <2> QED
    BY <1>t, <1>1, <1>2, <1>3 DEF SwarmTypeOK, Runtime, SameBooks
<1>7. /\ collect' \in [on : BOOLEAN, timed : BOOLEAN, waits : SUBSET Tasks]
      /\ unbooked' \in [Tasks -> Nat] /\ unbooked'[t] = 0
      /\ \A u \in Tasks \ {t} : unbooked'[u] = unbooked[u]
  BY <1>t, <1>1 DEF SwarmTypeOK
<1>8. SwarmTypeOK'
  BY <1>t, <1>5, <1>6, <1>7 DEF SwarmTypeOK, Task, Message
<1>9. \A j \in Swarms, n \in Members : swarm'[j].status[n] = "running" =>
          /\ swarm[j].status[n] = "running"
          /\ task[t].pc = "running" => j # i \/ n # m
  BY <1>6
<1>10. ~Moves(t)
  BY <1>5 DEF Moves
<1> HIDE DEF i, m
<1> QED
  BY <1>5, <1>6, <1>7, <1>8, <1>9, <1>10, OneTask DEF i, m

LEMMA NextStageStep ==
    ASSUME SwarmInv, NEW t \in Tasks, Running(t), task[t].kind = "pipeline", NextStage(t),
           unbooked' = [unbooked EXCEPT ![t] = 0], UNCHANGED <<current, created>>
    PROVE  SwarmInv'
<1> DEFINE i == task[t].swarm
           m == task[t].member
           drained == DrainInbox(i, m)
<1>t. SwarmTypeOK
  BY DEF SwarmInv, LedgerKept
<1>1. /\ task[t].pc = "running" /\ InFlight(t) /\ m < N
      /\ task' = [task EXCEPT ![t].member = m + 1]
      /\ swarm' = [swarm EXCEPT ![i].status[m] = "over", ![i].status[m + 1] = "running"]
      /\ mail' = Seed(drained, i, m + 1)
      /\ UNCHANGED collect
  BY DEF NextStage, Running, InFlight
<1>2. /\ i \in Swarms /\ m \in Members /\ m + 1 \in Members /\ m # m + 1
      /\ swarm[i] \in Runtime
  <2>1. i \in Swarms /\ m \in Members /\ swarm[i] \in Runtime
    BY <1>1, Own
  <2> QED
    BY <1>1, <2>1, Bounds DEF Members
<1>3. /\ task' \in [Tasks -> Task] /\ Moves(t)
      /\ task'[t].member = m + 1 /\ \A u \in Tasks \ {t} : task'[u] = task[u]
  <2> HIDE DEF i, m
  <2>1. /\ task' \in [Tasks -> Task] /\ task'[t].member = m + 1
        /\ task'[t].swarm = task[t].swarm /\ task'[t].cancelled = task[t].cancelled
        /\ task'[t].pc = "running" /\ \A u \in Tasks \ {t} : task'[u] = task[u]
    BY <1>t, <1>1, <1>2 DEF SwarmTypeOK, Task
  <2>2. \A j \in Swarms : swarm'[j].tracked = swarm[j].tracked
    BY <1>t, <1>1, <1>2 DEF SwarmTypeOK, Runtime
  <2> QED
    BY <2>1, <2>2 DEF Moves
<1>4. /\ swarm' \in [Swarms -> Runtime] /\ SameBooks
      /\ \A j \in Swarms : /\ swarm'[j].tracked = swarm[j].tracked
                           /\ swarm'[j].dissolved = swarm[j].dissolved
                           /\ \A n \in Members : swarm'[j].status[n] =
                                  IF j = i /\ n = m + 1 THEN "running"
                                  ELSE IF j = i /\ n = m THEN "over" ELSE swarm[j].status[n]
  <2> HIDE DEF i, m
  <2> QED
    BY <1>t, <1>1, <1>2 DEF SwarmTypeOK, Runtime, SameBooks
<1>5. /\ drained \in [Messages -> Message]
      /\ \A x \in Messages : /\ drained[x].at = "lost" => drained[x].late
                             /\ drained[x].at = "inbox" => drained[x] = mail[x]
  BY <1>1, Drained
<1> HIDE DEF drained
<1>6. /\ mail' \in [Messages -> Message]
      /\ \A x \in Messages : /\ mail'[x].swarm = drained[x].swarm /\ mail'[x].to = drained[x].to
                             /\ mail'[x].at = drained[x].at /\ mail'[x].late = drained[x].late
                             /\ drained[x].heard => mail'[x].heard
                             /\ Pending(x, i, m + 1) => mail'[x].heard
  <2> HIDE DEF i, m
  <2> QED
    BY <1>t, <1>1, <1>5, Seeded
<1>7. SwarmTypeOK'
  <2>1. unbooked' \in [Tasks -> Nat]
    BY <1>t DEF SwarmTypeOK
  <2> QED
    BY <1>t, <1>1, <1>3, <1>4, <1>6, <2>1 DEF SwarmTypeOK, Task, Message
<1>8. unbooked'[t] = 0 /\ \A u \in Tasks \ {t} : unbooked'[u] = unbooked[u]
  BY <1>t DEF SwarmTypeOK
<1>9. \A j \in Swarms, n \in Members : swarm'[j].status[n] = "running" =>
          \/ j = i /\ n = m + 1
          \/ swarm[j].status[n] = "running" /\ (j # i \/ n # m)
  BY <1>4
<1>10. \A x \in Messages :
          /\ mail'[x].at = "lost" => mail'[x].late
          /\ mail'[x].at = "inbox" =>
                 /\ mail[x].at = "inbox" /\ mail'[x].swarm = mail[x].swarm
                 /\ mail'[x].to = mail[x].to /\ mail'[x].late = mail[x].late
                 /\ mail[x].heard => mail'[x].heard
                 /\ i = mail[x].swarm /\ m + 1 = mail[x].to => mail'[x].heard
  BY <1>5, <1>6 DEF Pending
<1> HIDE DEF i, m
<1>11. \A j \in Swarms, n \in Members : swarm'[j].status[n] = "running" =>
          \/ Moves(t) /\ j = task[t].swarm /\ n = task'[t].member
          \/ /\ swarm[j].status[n] = "running"
             /\ task[t].pc = "running" => j # task[t].swarm \/ n # task[t].member
  BY <1>3, <1>9 DEF i, m
<1>12. \A x \in Messages :
          /\ mail'[x].at = "lost" => mail'[x].late
          /\ mail'[x].at = "inbox" =>
                 /\ mail[x].at = "inbox" /\ mail'[x].swarm = mail[x].swarm
                 /\ mail'[x].to = mail[x].to /\ mail'[x].late = mail[x].late
                 /\ mail[x].heard => mail'[x].heard
                 /\ /\ Moves(t) /\ task'[t].kind = "pipeline"
                    /\ task[t].swarm = mail[x].swarm /\ task'[t].member = mail[x].to
                    => mail'[x].heard
  BY <1>3, <1>10 DEF i
<1>13. /\ InFlight(t) /\ SameBooks /\ Moves(t)
       /\ \A u \in Tasks \ {t} : task'[u] = task[u] /\ unbooked'[u] = unbooked[u]
       /\ \A j \in Swarms :
              /\ swarm'[j].dissolved = swarm[j].dissolved
              /\ \A u \in Tasks \ {t} : u \in swarm[j].tracked => u \in swarm'[j].tracked
  BY <1>1, <1>3, <1>4, <1>8
<1> QED
  BY <1>7, <1>8, <1>11, <1>12, <1>13, OneTask

LEMMA FinishStep ==
    ASSUME SwarmInv, NEW t \in Tasks, Running(t), Finish(t)
    PROVE  SwarmInv'
<1>1. /\ task[t].pc = "running" /\ InFlight(t)
      /\ unbooked' = [unbooked EXCEPT ![t] = 0] /\ UNCHANGED <<current, created>>
      /\ mail \in [Messages -> Message]
  BY DEF Finish, Running, InFlight, SwarmInv, LedgerKept, SwarmTypeOK
<1>2. CASE Ends(t, "over") /\ UNCHANGED mail
  BY <1>1, <1>2, EndsStep DEF SwarmInv, MailHeard
<1>3. CASE task[t].kind = "pipeline" /\ NextStage(t)
  BY <1>1, <1>3, NextStageStep
<1>4. CASE /\ task[t].kind = "pipeline" /\ task[t].member = N
           /\ Ends(t, "over") /\ mail' = DrainInbox(task[t].swarm, N)
  <2>1. /\ mail' \in [Messages -> Message]
        /\ \A x \in Messages : /\ mail'[x].at = "lost" => mail'[x].late
                               /\ mail'[x].at = "inbox" => mail'[x] = mail[x]
    BY <1>1, <1>4, Drained
  <2> QED
    BY <1>1, <1>4, <2>1, EndsStep
<1> QED
  BY <1>2, <1>3, <1>4 DEF Finish

LEMMA UnwindsStep ==
    ASSUME SwarmInv, NEW t \in Tasks, Unwinds(t)
    PROVE  SwarmInv'
<1>1. /\ InFlight(t) /\ unbooked' = [unbooked EXCEPT ![t] = 0]
      /\ UNCHANGED <<current, created, mail>> /\ mail \in [Messages -> Message]
  BY DEF Unwinds, SwarmInv, LedgerKept, SwarmTypeOK
<1>2. \A x \in Messages : mail'[x].at = "lost" => mail'[x].late
  BY <1>1 DEF SwarmInv, MailHeard
<1>3. CASE task[t].pc = "running"
  <2>1. Ends(t, "idle")
    BY <1>3 DEF Unwinds
  <2> QED
    BY <1>1, <1>2, <2>1, EndsStep
<1>4. CASE task[t].pc # "running"
  <2> DEFINE status == swarm[task[t].swarm].status[task[t].member]
  <2>1. Ends(t, status)
    BY <1>4 DEF Unwinds
  <2> QED
    BY <1>1, <1>2, <1>4, <2>1, EndsStep
<1> QED
  BY <1>3, <1>4

\* A step is booked: it found room, so nothing was off the books, and what it leaves off
\* them is what a cap has no room for.
LEMMA BookedStep ==
    ASSUME SwarmInv, NEW t \in Tasks, NEW used \in Usage, StepBooked(t, used)
    PROVE  SwarmInv'
<1> DEFINE i == task[t].swarm
           m == task[t].member
           booked == Recorded(swarm[i], m, used)
<1>t. SwarmTypeOK
  BY DEF SwarmInv, LedgerKept
<1>1. /\ task[t].pc = "running" /\ InFlight(t) /\ ~Exhausted(swarm[i], m)
      /\ swarm' = [swarm EXCEPT ![i].per[m] = @ + booked, ![i].total = @ + booked]
      /\ unbooked' = [unbooked EXCEPT ![t] = @ + used - booked]
      /\ UNCHANGED <<current, created, task, collect, mail>>
  BY DEF StepBooked, Running, InFlight, Stops
<1>2. i \in Swarms /\ m \in Members /\ swarm[i] \in Runtime
  BY <1>1, Own
<1>3. /\ Adds(swarm[i].per, swarm[i].total)
      /\ swarm[i].total <= MaxTotal /\ swarm[i].per[m] <= MaxPerAgent
  BY <1>2 DEF SwarmInv, LedgerKept
<1>4. /\ booked \in Nat /\ booked > 0 /\ booked <= used
      /\ swarm[i].total + booked <= MaxTotal /\ swarm[i].per[m] + booked <= MaxPerAgent
      /\ \/ used = booked
         \/ swarm[i].total + booked = MaxTotal \/ swarm[i].per[m] + booked = MaxPerAgent
  BY <1>1, <1>2, <1>3, Books
<1>5. /\ swarm[i].per \in [Members -> Nat] /\ swarm[i].total \in Nat
      /\ used \in Nat /\ MaxTotal \in Nat /\ MaxPerAgent \in Nat
  BY <1>2, Bounds DEF Runtime
<1> HIDE DEF i, m, booked
<1>6. /\ swarm' \in [Swarms -> Runtime]
      /\ swarm'[i].per = [swarm[i].per EXCEPT ![m] = @ + booked]
      /\ swarm'[i].total = swarm[i].total + booked
      /\ \A j \in Swarms : /\ j # i => swarm'[j] = swarm[j]
                           /\ swarm'[j].tracked = swarm[j].tracked
                           /\ swarm'[j].dissolved = swarm[j].dissolved
                           /\ swarm'[j].status = swarm[j].status
  <2> DEFINE more == [swarm[i].per EXCEPT ![m] = @ + booked]
             r == [swarm[i] EXCEPT !.per = more, !.total = swarm[i].total + booked]
  <2>1. swarm' = [swarm EXCEPT ![i] = r]
    BY <1>t, <1>1, <1>2 DEF SwarmTypeOK, Runtime
  <2>2. more \in [Members -> Nat] /\ swarm[i].total + booked \in Nat
    BY <1>2, <1>4, <1>5
  <2> HIDE DEF more
  <2>3. /\ r \in Runtime /\ r.per = more /\ r.total = swarm[i].total + booked
        /\ r.tracked = swarm[i].tracked /\ r.dissolved = swarm[i].dissolved
        /\ r.status = swarm[i].status
    BY <1>2, <2>2 DEF Runtime
  <2> HIDE DEF r
  <2>4. swarm \in [Swarms -> Runtime]
    BY <1>t DEF SwarmTypeOK
  <2> QED
    BY <1>2, <2>1, <2>3, <2>4 DEF more
<1>7. unbooked[t] = 0
  <2>1. unbooked[t] \in Nat /\ ~(unbooked[t] > 0)
    BY <1>t, <1>1 DEF SwarmInv, RunsKept, SwarmTypeOK, i, m
  <2> QED
    BY <2>1
<1>8. /\ unbooked' \in [Tasks -> Nat] /\ unbooked'[t] = used - booked
      /\ \A u \in Tasks \ {t} : unbooked'[u] = unbooked[u]
  <2>1. 0 + used - booked = used - booked /\ used - booked \in Nat
    BY <1>4, <1>5
  <2> QED
    BY <1>t, <1>1, <1>7, <2>1 DEF SwarmTypeOK
<1>9. SwarmTypeOK'
  BY <1>t, <1>1, <1>6, <1>8 DEF SwarmTypeOK, Task, Message
<1>10. LedgerKept'
  <2>1. ASSUME NEW j \in Swarms
        PROVE  /\ Adds(swarm'[j].per, swarm'[j].total) /\ swarm'[j].total <= MaxTotal
               /\ \A n \in Members : swarm'[j].per[n] <= MaxPerAgent
    <3>1. CASE j = i
      <4>1. Adds(swarm'[i].per, swarm'[i].total) /\ swarm'[i].total <= MaxTotal
        BY <1>2, <1>3, <1>4, <1>5, <1>6, AddsMore
      <4>2. \A n \in Members : swarm[i].per[n] <= MaxPerAgent
        BY <1>2 DEF SwarmInv, LedgerKept
      <4>3. \A n \in Members : swarm'[i].per[n] <= MaxPerAgent
        BY <1>2, <1>4, <1>5, <1>6, <4>2
      <4> QED
        BY <3>1, <4>1, <4>3
    <3>2. CASE j # i
      BY <1>6, <3>2 DEF SwarmInv, LedgerKept
    <3> QED
      BY <3>1, <3>2
  <2>2. ASSUME NEW u \in Tasks PROVE \E most \in Usage : unbooked'[u] < most
    <3>1. CASE u = t
      <4>1. used - booked < used
        BY <1>4, <1>5
      <4> QED
        BY <1>8, <3>1, <4>1
    <3>2. CASE u # t
      BY <1>8, <3>2 DEF SwarmInv, LedgerKept
    <3> QED
      BY <3>1, <3>2
  <2> QED
    BY <1>9, <2>1, <2>2 DEF LedgerKept, Adds
<1>11. RunsKept'
  <2>1. \A j \in Swarms, n \in Members : Exhausted(swarm[j], n) => Exhausted(swarm'[j], n)
    <3> SUFFICES ASSUME NEW j \in Swarms, NEW n \in Members, Exhausted(swarm[j], n)
                 PROVE  Exhausted(swarm'[j], n)
      OBVIOUS
    <3>1. CASE j = i
      <4>1. /\ swarm[i].per[n] \in Nat /\ swarm'[i].per[n] \in Nat
            /\ swarm'[i].per[n] >= swarm[i].per[n] /\ swarm'[i].total >= swarm[i].total
            /\ swarm'[i].total \in Nat
        BY <1>2, <1>4, <1>5, <1>6
      <4> QED
        BY <1>5, <3>1, <4>1 DEF Exhausted
    <3>2. CASE j # i
      BY <1>6, <3>2
    <3> QED
      BY <3>1, <3>2
  <2>2. ASSUME NEW u \in Tasks, unbooked'[u] > 0
        PROVE  task[u].pc = "running" /\ Exhausted(swarm'[task[u].swarm], task[u].member)
    <3>1. CASE u = t
      <4>1. swarm'[i].total = MaxTotal \/ swarm'[i].per[m] = MaxPerAgent
        BY <1>2, <1>4, <1>5, <1>6, <1>8, <2>2, <3>1
      <4>2. Exhausted(swarm'[i], m)
        BY <1>5, <4>1 DEF Exhausted
      <4> QED
        BY <1>1, <3>1, <4>2 DEF i, m
    <3>2. CASE u # t
      <4>1. unbooked[u] > 0
        BY <1>8, <2>2, <3>2
      <4>2. task[u].pc = "running" /\ Exhausted(swarm[task[u].swarm], task[u].member)
        BY <4>1 DEF SwarmInv, RunsKept
      <4>3. task[u].swarm \in Swarms /\ task[u].member \in Members
        BY <4>2, Own DEF InFlight
      <4> QED
        BY <2>1, <4>2, <4>3
    <3> QED
      BY <3>1, <3>2
  <2> QED
    BY <1>1, <2>2 DEF RunsKept, InFlight, Exhausted, SwarmInv
<1>12. Listed'
  <2>1. ASSUME NEW u \in Tasks, InFlight(u)'
        PROVE  task'[u].cancelled \/ /\ u \in swarm'[task'[u].swarm].tracked
                                     /\ ~swarm'[task'[u].swarm].dissolved
    <3>1. InFlight(u) /\ task[u].swarm \in Swarms
      BY <1>1, <2>1, Own DEF InFlight
    <3> QED
      BY <1>1, <1>6, <3>1 DEF SwarmInv, Listed
  <2>2. \A j \in Swarms, n \in Members : swarm'[j].status[n] = "running" =>
            \E u \in Tasks : task'[u].pc = "running" /\ task'[u].swarm = j /\ task'[u].member = n
    BY <1>1, <1>6 DEF SwarmInv, Listed
  <2> QED
    BY <2>1, <2>2 DEF Listed
<1>13. Attended' /\ MailHeard'
  BY <1>1 DEF SwarmInv, Attended, MailHeard
<1> QED
  BY <1>10, <1>11, <1>12, <1>13 DEF SwarmInv

-----------------------------------------------------------------------------
(* The theorems *)

LEMMA SwarmStarts == SwarmInit => SwarmInv
<1> SUFFICES ASSUME SwarmInit PROVE SwarmInv
  OBVIOUS
<1>1. 1 \in Members /\ 0 \in 0..created /\ 0 \in 0..MaxSwarms /\ created = 0
  BY Bounds DEF SwarmInit, Members
<1>2. NewSwarm \in Runtime
  BY DEF NewSwarm, Runtime
<1>3. NoTask \in Task /\ Unsent \in Message
  BY <1>1 DEF NoTask, Task, Unsent, Message
<1>4. NoCollect \in [on : BOOLEAN, timed : BOOLEAN, waits : SUBSET Tasks]
  BY DEF NoCollect
<1>5. SwarmTypeOK
  BY <1>1, <1>2, <1>3, <1>4 DEF SwarmInit, SwarmTypeOK
<1>6. LedgerKept
  <2>1. ASSUME NEW i \in Swarms
        PROVE  /\ Adds(swarm[i].per, swarm[i].total) /\ swarm[i].total <= MaxTotal
               /\ \A m \in Members : swarm[i].per[m] <= MaxPerAgent
    <3>1. swarm[i].per = [m \in Members |-> 0] /\ swarm[i].total = 0
      BY DEF SwarmInit, NewSwarm
    <3> QED
      BY <3>1, AddsNothing, Bounds
  <2>2. ASSUME NEW t \in Tasks PROVE \E used \in Usage : unbooked[t] < used
    <3>1. PICK used \in Usage : TRUE
      BY Bounds
    <3>2. 0 < used
      BY <3>1, Bounds
    <3> QED
      BY <3>1, <3>2 DEF SwarmInit
  <2> QED
    BY <1>5, <2>1, <2>2 DEF LedgerKept
<1>7. Listed /\ RunsKept /\ Attended /\ MailHeard
  BY DEF SwarmInit, Listed, RunsKept, Attended, MailHeard, InFlight, NoTask, NewSwarm, Unsent
<1> QED
  BY <1>6, <1>7 DEF SwarmInv

LEMMA SwarmStep == SwarmInv /\ [SwarmNext]_vars => SwarmInv'
<1> SUFFICES ASSUME SwarmInv, [SwarmNext]_vars PROVE SwarmInv'
  OBVIOUS
<1>1. CASE Create \/ Collect \/ CollectReturns \/ CancelCollect \/ Close
  BY <1>1, ControlStep
<1>2. CASE Assign
  BY <1>2, AssignStep
<1>3. CASE Dissolve
  BY <1>3, DissolveStep
<1>4. ASSUME NEW x \in Messages, NEW m \in Members, SendMessage(x, m) PROVE SwarmInv'
  BY <1>4, SendStep
<1>5. ASSUME NEW t \in Tasks, Begins(t) PROVE SwarmInv'
  BY <1>5, BeginsStep
<1>6. ASSUME NEW t \in Tasks, RunEnds(t) PROVE SwarmInv'
  BY <1>6, FinishStep DEF RunEnds
<1>7. ASSUME NEW t \in Tasks, Unwinds(t) PROVE SwarmInv'
  BY <1>7, UnwindsStep
<1>8. ASSUME NEW t \in Tasks, NEW used \in Usage, StepBooked(t, used) PROVE SwarmInv'
  BY <1>8, BookedStep
<1>9. ASSUME NEW t \in Tasks, NEW used \in Usage, BudgetHit(t, used) PROVE SwarmInv'
  BY <1>9, FinishStep DEF BudgetHit
<1>10. CASE UNCHANGED vars
  <2>1. SwarmTypeOK'
    BY <1>10 DEF vars, SwarmInv, LedgerKept, SwarmTypeOK, Task, Message
  <2> QED
    BY <1>10, <2>1, QuietStep DEF vars, SameBooks, SameRun
<1> QED
  BY <1>1, <1>2, <1>3, <1>4, <1>5, <1>6, <1>7, <1>8, <1>9, <1>10 DEF SwarmNext

\* A step leaves the replaced swarms replaced, and the tasks in their swarms.
LEMMA SwarmsStay ==
    ASSUME SwarmInv, SwarmNext
    PROVE  \A i \in Swarms : swarm[i].replaced => swarm'[i].replaced
<1> SUFFICES ASSUME NEW i \in Swarms, swarm[i].replaced PROVE swarm'[i].replaced
  OBVIOUS
<1>t. swarm \in [Swarms -> Runtime] /\ swarm[i] \in Runtime
  BY DEF SwarmInv, LedgerKept, SwarmTypeOK
<1>1. CASE UNCHANGED swarm
  BY <1>1
<1>2. CASE Create
  <2>1. swarm'[i] = [swarm[i] EXCEPT !.replaced = swarm[i].replaced \/ i = current]
    BY <1>2 DEF Create
  <2> QED
    BY <1>t, <2>1 DEF Runtime
<1>3. CASE Assign
  <2>1. \E new : swarm' = [swarm EXCEPT ![current].tracked = @ \cup new]
    BY <1>3 DEF Assign, StartTasks
  <2> QED
    BY <1>t, <2>1 DEF Runtime
<1>4. CASE Dissolve
  BY <1>t, <1>4 DEF Dissolve, Runtime
<1>5. ASSUME NEW t \in Tasks, Begins(t) PROVE swarm'[i].replaced
  BY <1>t, <1>5 DEF Begins, Runtime
<1>6. ASSUME NEW t \in Tasks, NEW status, Ends(t, status) PROVE swarm'[i].replaced
  BY <1>t, <1>6 DEF Ends, Runtime
<1>7. ASSUME NEW t \in Tasks, NextStage(t) PROVE swarm'[i].replaced
  BY <1>t, <1>7 DEF NextStage, Runtime
<1>8. ASSUME NEW t \in Tasks, NEW used \in Usage, StepBooked(t, used) PROVE swarm'[i].replaced
  BY <1>t, <1>8 DEF StepBooked, Runtime
<1>9. ASSUME NEW t \in Tasks, Finish(t) PROVE swarm'[i].replaced
  BY <1>6, <1>7, <1>9 DEF Finish
<1>10. ASSUME NEW t \in Tasks, Unwinds(t) PROVE swarm'[i].replaced
  BY <1>6, <1>10 DEF Unwinds
<1>11. CASE Collect \/ CollectReturns \/ CancelCollect \/ Close
            \/ \E x \in Messages, m \in Members : SendMessage(x, m)
  BY <1>1, <1>11 DEF Collect, CollectReturns, CancelCollect, Close, SendMessage
<1> QED
  BY <1>2, <1>3, <1>4, <1>5, <1>8, <1>9, <1>10, <1>11 DEF SwarmNext, RunEnds, BudgetHit

\* Only swarm_create takes what goes on out of the reach of a dissolve: a plugin that closes
\* cancels all that its runtime has listed.
LEMMA ReachStep ==
    ASSUME SwarmInv, InReach, [SwarmNext]_vars
    PROVE  InReach'
<1> SUFFICES ASSUME NEW t \in Tasks, InFlight(t)', ~task'[t].cancelled
             PROVE  task'[t].swarm = current' \/ swarm'[task'[t].swarm].replaced
  BY DEF InReach
<1>t. swarm \in [Swarms -> Runtime] /\ task \in [Tasks -> Task]
  BY DEF SwarmInv, LedgerKept, SwarmTypeOK
<1> DEFINE Same == InFlight(t) /\ ~task[t].cancelled /\ task'[t].swarm = task[t].swarm
<1>1. ASSUME Same
      PROVE  task[t].swarm \in Swarms
             /\ (task[t].swarm = current \/ swarm[task[t].swarm].replaced)
  BY <1>1, Own DEF InReach
<1>2. ASSUME SwarmNext, Same, current' = current
      PROVE  task'[t].swarm = current' \/ swarm'[task'[t].swarm].replaced
  BY <1>1, <1>2, SwarmsStay
<1>3. CASE UNCHANGED vars
  BY <1>3 DEF vars, InReach, InFlight
<1>4. CASE Create
  <2>1. Same /\ swarm' = [i \in Swarms |-> [swarm[i] EXCEPT !.replaced = @ \/ i = current]]
    BY <1>4 DEF Create, InFlight
  <2>2. task[t].swarm \in Swarms
        /\ (task[t].swarm = current \/ swarm[task[t].swarm].replaced)
    BY <1>1, <2>1
  <2>3. swarm'[task[t].swarm].replaced
    BY <1>t, <2>1, <2>2 DEF Runtime
  <2> QED
    BY <2>1, <2>3
<1>5. ASSUME NEW ts, CancelAll(ts) PROVE Same /\ t \notin ts
  <2>1. SameRun(t) /\ (task[t].cancelled => task'[t].cancelled)
        /\ (t \in ts /\ InFlight(t) => task'[t].cancelled)
    BY <1>5, Cancels DEF SwarmInv, LedgerKept
  <2> QED
    BY <2>1 DEF SameRun, InFlight
<1>6. CASE Close
  <2>1. Same /\ t \notin swarm[current].tracked /\ current # 0 /\ UNCHANGED swarm
    BY <1>5, <1>6 DEF Close
  <2>2. task[t].swarm # current
    BY <2>1 DEF SwarmInv, Listed
  <2> QED
    BY <1>1, <2>1, <2>2
<1>7. CASE Dissolve
  <2>1. Same /\ current' = current
    BY <1>5, <1>7 DEF Dissolve
  <2> QED
    BY <1>2, <1>7, <2>1 DEF SwarmNext
<1>8. CASE CancelCollect
  <2>1. Same /\ current' = current
    BY <1>5, <1>8 DEF CancelCollect, InFlight
  <2> QED
    BY <1>2, <1>8, <2>1 DEF SwarmNext
<1>9. CASE Assign
  <2>1. current' = current /\ (task'[t] = task[t] \/ task'[t].swarm = current)
    <3>1. \E ms, kind : StartTasks(ms, kind)
      BY <1>9 DEF Assign
    <3>2. PICK ms, kind : StartTasks(ms, kind)
      BY <3>1
    <3> DEFINE new == {u \in Tasks : \E m \in ms : Gets(u, m, ms)}
               started(u) == [swarm |-> current, kind |-> kind, pc |-> "ready",
                              cancelled |-> FALSE, member |-> CHOOSE m \in ms : Gets(u, m, ms)]
    <3>3. task' = [u \in Tasks |-> IF u \in new THEN started(u) ELSE task[u]]
      BY <3>2 DEF StartTasks
    <3>4. started(t).swarm = current
      OBVIOUS
    <3> HIDE DEF new, started
    <3> QED
      BY <1>9, <3>3, <3>4 DEF Assign
  <2>2. CASE task'[t].swarm = current
    BY <2>1, <2>2
  <2>3. CASE task'[t] = task[t]
    BY <1>2, <1>9, <2>1, <2>3 DEF SwarmNext, InFlight
  <2> QED
    BY <2>1, <2>2, <2>3
<1>10. ASSUME NEW u \in Tasks, NEW status, Ends(u, status) PROVE Same
  <2>1. task' = [task EXCEPT ![u] = NoTask]
    BY <1>10 DEF Ends
  <2>2. u # t /\ task'[t] = task[t]
    BY <1>t, <2>1 DEF InFlight, NoTask
  <2> QED
    BY <2>2 DEF InFlight
<1>11. ASSUME NEW u \in Tasks, InFlight(u),
              \/ task' = [task EXCEPT ![u].pc = "running"]
              \/ \E m : task' = [task EXCEPT ![u].member = m]
       PROVE  Same
  <2>1. task'[t].swarm = task[t].swarm /\ task'[t].cancelled = task[t].cancelled
        /\ (u = t \/ task'[t] = task[t])
    BY <1>t, <1>11 DEF Task
  <2> QED
    BY <1>11, <2>1 DEF InFlight
<1>12. CASE \E u \in Tasks : Begins(u)
  <2>1. Same /\ current' = current
    BY <1>11, <1>12 DEF Begins, InFlight
  <2> QED
    BY <1>2, <1>12, <2>1 DEF SwarmNext
<1>13. ASSUME NEW u \in Tasks, Running(u), Finish(u) PROVE Same /\ current' = current
  <2>1. InFlight(u)
    BY <1>13 DEF Running, InFlight
  <2>2. CASE Ends(u, "over")
    BY <1>10, <1>13, <2>2 DEF Finish
  <2>3. CASE NextStage(u)
    BY <1>11, <1>13, <2>1, <2>3 DEF Finish, NextStage
  <2> QED
    BY <1>13, <2>2, <2>3 DEF Finish
<1>14. CASE \E u \in Tasks : RunEnds(u) \/ \E used \in Usage : BudgetHit(u, used)
  <2>1. Same /\ current' = current
    BY <1>13, <1>14 DEF RunEnds, BudgetHit
  <2> QED
    BY <1>2, <1>14, <2>1 DEF SwarmNext
<1>15. CASE \E u \in Tasks : Unwinds(u)
  <2>1. Same /\ current' = current
    BY <1>10, <1>15 DEF Unwinds
  <2> QED
    BY <1>2, <1>15, <2>1 DEF SwarmNext
<1>16. CASE \/ Collect \/ CollectReturns
            \/ \E x \in Messages, m \in Members : SendMessage(x, m)
            \/ \E u \in Tasks, used \in Usage : StepBooked(u, used)
  <2>1. Same /\ current' = current
    BY <1>16 DEF Collect, CollectReturns, SendMessage, StepBooked, InFlight
  <2> QED
    BY <1>2, <1>16, <2>1 DEF SwarmNext
<1> QED
  BY <1>3, <1>4, <1>6, <1>7, <1>8, <1>9, <1>12, <1>14, <1>15, <1>16 DEF SwarmNext

\* The inductive invariant: however the tools, the ends of turns and the members' steps
\* interleave, the books, the _tasks and the inboxes of every swarm are true.
THEOREM SwarmInvariant == SwarmSpec => []SwarmInv
  BY SwarmStarts, SwarmStep, PTL DEF SwarmSpec

\* The ledger of a swarm is the sum of its members' and within both caps, a run has at most
\* one step that is not booked in full; its _tasks list all of its tasks that were not
\* cancelled, and no step but a swarm_create takes a task out of the reach of swarm_dissolve
\* and aclose.
THEOREM BooksAreKept == SwarmSpec => []BooksKept
<1>1. SwarmInit => InReach
  BY DEF SwarmInit, InReach, InFlight, NoTask
<1>2. SwarmInv /\ InReach /\ [SwarmNext]_vars => InReach'
  BY ReachStep
<1>3. SwarmInv /\ InReach => BooksKept
  BY DEF SwarmInv, BooksKept
<1> QED
  BY <1>1, <1>2, <1>3, SwarmInvariant, PTL DEF SwarmSpec

\* A message that is drained before it was heard came too late for the stage of a pipeline
\* that drained it.
THEOREM MessagesAreHeard == SwarmSpec => []MailHeard
<1>1. SwarmInv => MailHeard
  BY DEF SwarmInv
<1> QED
  BY <1>1, SwarmInvariant, PTL

\* A cancelled member is idle or dissolved, or shown as it was, and its swarm books nothing
\* for it.
THEOREM DissolvedSwarmStands == SwarmSpec => DissolvedStands
<1> DEFINE Stands(i) ==
        /\ swarm'[i].total = swarm[i].total
        /\ \A m \in Members : swarm'[i].status[m] \in {swarm[i].status[m], "idle", "dissolved"}
<1>1. ASSUME SwarmInv, SwarmNext, NEW i \in Swarms, swarm[i].dissolved PROVE Stands(i)
  <2>t. swarm \in [Swarms -> Runtime] /\ swarm[i] \in Runtime
    BY <1>1 DEF SwarmInv, LedgerKept, SwarmTypeOK
  <2>1. CASE swarm'[i] = swarm[i]
    BY <2>1
  <2>2. CASE Create
    <3>1. swarm'[i] = [swarm[i] EXCEPT !.replaced = swarm[i].replaced \/ i = current]
      BY <2>2 DEF Create
    <3> QED
      BY <2>t, <3>1 DEF Runtime
  <2>3. CASE Assign
    <3>1. \E new : swarm' = [swarm EXCEPT ![current].tracked = @ \cup new]
      BY <2>3 DEF Assign, StartTasks
    <3> QED
      BY <2>t, <3>1 DEF Runtime
  <2>4. CASE Dissolve
    <3> DEFINE status == [m \in Members |-> IF swarm[current].status[m] \in {"running", "idle"}
                                              THEN "dissolved" ELSE swarm[current].status[m]]
    <3>1. swarm' = [swarm EXCEPT ![current].dissolved = TRUE, ![current].tracked = {},
                                 ![current].status = status]
      BY <2>4 DEF Dissolve
    <3>2. CASE i = current
      BY <2>t, <3>1, <3>2 DEF Runtime
    <3>3. CASE i # current
      BY <2>t, <3>1, <3>3
    <3> QED
      BY <3>2, <3>3
  <2>5. ASSUME NEW t \in Tasks, InFlight(t), ~task[t].cancelled
        PROVE  task[t].swarm \in Swarms /\ task[t].swarm # i
    BY <1>1, <2>5, Own DEF SwarmInv, Listed
  <2>6. ASSUME NEW t \in Tasks, Begins(t) PROVE Stands(i)
    <3>1. swarm' = [swarm EXCEPT ![task[t].swarm].status[task[t].member] = "running"]
          /\ task[t].swarm # i
      BY <2>5, <2>6 DEF Begins, InFlight
    <3>2. swarm'[i] = swarm[i]
      BY <2>t, <3>1
    <3> QED
      BY <3>2
  <2>7. ASSUME NEW t \in Tasks, Running(t), Finish(t) PROVE Stands(i)
    <3>1. task[t].swarm # i
      BY <2>5, <2>7 DEF Running, InFlight
    <3>2. CASE Ends(t, "over")
      <4>1. swarm'[i] = swarm[i]
        BY <2>t, <3>1, <3>2 DEF Ends
      <4> QED
        BY <4>1
    <3>3. CASE NextStage(t)
      <4>1. swarm'[i] = swarm[i]
        BY <2>t, <3>1, <3>3 DEF NextStage
      <4> QED
        BY <4>1
    <3> QED
      BY <2>7, <3>2, <3>3 DEF Finish
  <2>8. ASSUME NEW t \in Tasks, NEW used \in Usage, StepBooked(t, used) PROVE Stands(i)
    <3>1. task[t].swarm # i
      BY <2>5, <2>8 DEF StepBooked, Running, InFlight
    <3>2. swarm'[i] = swarm[i]
      BY <2>t, <2>8, <3>1 DEF StepBooked
    <3> QED
      BY <3>2
  <2>9. ASSUME NEW t \in Tasks, Unwinds(t) PROVE Stands(i)
    <3> DEFINE j == task[t].swarm
               m == task[t].member
    <3>1. j \in Swarms /\ m \in Members
      BY <1>1, <2>9, Own DEF Unwinds
    <3>2. PICK status \in {"idle", swarm[j].status[m]} :
              swarm' = [swarm EXCEPT ![j].tracked = @ \ {t}, ![j].status[m] = status]
      BY <2>9 DEF Unwinds, Ends
    <3> HIDE DEF j, m
    <3>3. CASE i = j
      BY <2>t, <3>1, <3>2, <3>3 DEF Runtime
    <3>4. CASE i # j
      BY <2>t, <3>2, <3>4
    <3> QED
      BY <3>3, <3>4
  <2>10. CASE Collect \/ CollectReturns \/ CancelCollect \/ Close
              \/ \E x \in Messages, m \in Members : SendMessage(x, m)
    BY <2>1, <2>10 DEF Collect, CollectReturns, CancelCollect, Close, SendMessage
  <2> HIDE DEF Stands
  <2> QED
    BY <1>1, <2>2, <2>3, <2>4, <2>6, <2>7, <2>8, <2>9, <2>10 DEF SwarmNext, RunEnds, BudgetHit
<1>2. SwarmInv /\ [SwarmNext]_vars => [\A i \in Swarms : swarm[i].dissolved => Stands(i)]_vars
  BY <1>1
<1> QED
  BY <1>2, SwarmInvariant, PTL DEF SwarmSpec, DissolvedStands

=============================================================================
