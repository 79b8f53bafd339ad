------------------------------ MODULE PeerMail ------------------------------
(***************************************************************************)
(* Agents in several windows that message each other (phoson_plugin_peers  *)
(* and its hooks in the turns of the session controller).                  *)
(*                                                                         *)
(* Nothing connects the windows but files: a presence record per agent     *)
(* name and a mailbox directory per name, written and renamed without      *)
(* locks.  A turn takes the mail it finds when it begins and answers the   *)
(* requests among it when it ends; peer_ask, a tool of a turn, sends a     *)
(* request and polls for the reply.                                        *)
(***************************************************************************)
EXTENDS Naturals, Sequences, FiniteSetsExt

CONSTANTS
    Windows,   \* processes, each started with a name
    NameOf,    \* its name
    MaxHops,
    MaxSends   \* bound: messages and requests; replies add at most one each

ASSUME PeerAssumption ==
    /\ NameOf \in [Windows -> {NameOf[w] : w \in Windows}]
    /\ "none" \notin Windows
    /\ MaxHops \in Nat \ {0} /\ MaxSends \in Nat

Names == {NameOf[w] : w \in Windows}
Ids == 1..(2 * MaxSends)

VARIABLES
    presence,  \* agents/<name>.json
    win,       \* the windows
    mail,      \* every message delivered, by its place in the order
    new,       \* the messages still in a new/ directory
    reads      \* how many readers took a message

vars == <<presence, win, mail, new, reads>>

Nobody == [win |-> "none", fresh |-> FALSE, waits |-> "none"]
Closed == [pc |-> "down", reqs |-> {}, hops |-> 0, ask |-> 0, to |-> "none"]
Message == [from : Names, to : Names, kind : {"message", "request", "reply"},
            re : Ids \cup {0}, hops : 0..MaxHops]

Presence == [win : Windows \cup {"none"}, fresh : BOOLEAN, waits : Names \cup {"none"}]
Window == [pc : {"down", "claiming", "idle", "busy", "checked", "sent", "waiting"},
           reqs : SUBSET Ids, hops : 0..MaxHops, ask : Ids \cup {0},
           to : Names \cup {"none"}]

PeerTypeOK ==
    /\ presence \in [Names -> Presence]
    /\ win \in [Windows -> Window]
    /\ mail \in Seq(Message) /\ Len(mail) <= 2 * MaxSends
    /\ new \subseteq 1..Len(mail)
    /\ reads \in [Ids -> 0..2]

Open(w) == win[w].pc \notin {"down", "claiming"}

-----------------------------------------------------------------------------
(* Presence *)

\* PeerPresence.is_live: a recent heartbeat of a process that runs.
Live(n) ==
    /\ presence[n].win # "none" /\ presence[n].fresh
    /\ win[presence[n].win].pc # "down"

\* PeerStore.update, with the record of the window: nothing where another owns the name.
Announce(w, rec) ==
    LET n == NameOf[w]
    IN  presence' = [presence EXCEPT ![n] =
            IF @.win \in {w, "none"}
              THEN [win |-> w, fresh |-> TRUE,
                    waits |-> IF rec.pc = "waiting" THEN rec.to ELSE "none"]
              ELSE @]

Becomes(w, rec) == win' = [win EXCEPT ![w] = rec]

\* PeerStore.claim reads the record, and ...
ClaimChecks(w) ==
    /\ win[w].pc = "down"
    /\ ~Live(NameOf[w])
    /\ Becomes(w, [Closed EXCEPT !.pc = "claiming"])
    /\ UNCHANGED <<presence, mail, new, reads>>

\* ... writes it.
ClaimWrites(w) ==
    /\ win[w].pc = "claiming"
    /\ presence' = [presence EXCEPT ![NameOf[w]] =
                       [win |-> w, fresh |-> TRUE, waits |-> "none"]]
    /\ Becomes(w, [Closed EXCEPT !.pc = "idle"])
    /\ UNCHANGED <<mail, new, reads>>

\* aclose: release a name that is still ours.
Close(w) ==
    /\ win[w].pc = "idle"
    /\ Becomes(w, Closed)
    /\ presence' = [presence EXCEPT ![NameOf[w]] = IF @.win = w THEN Nobody ELSE @]
    /\ UNCHANGED <<mail, new, reads>>

Crash(w) ==
    /\ win[w].pc # "down"
    /\ Becomes(w, Closed)
    /\ UNCHANGED <<presence, mail, new, reads>>

\* A window sleeps for longer than stale_seconds.
Sleeps(n) ==
    /\ presence[n].fresh
    /\ presence' = [presence EXCEPT ![n].fresh = FALSE]
    /\ UNCHANGED <<win, mail, new, reads>>

\* _heartbeat_loop; pending_wakes starts it again where it had given up.
Heartbeat(w) ==
    /\ Open(w)
    /\ Announce(w, win[w])
    /\ UNCHANGED <<win, mail, new, reads>>

-----------------------------------------------------------------------------
(* Mail *)

\* Seeded fault: messages of one sender share a file name.
Deliver_SameFile(msgs) ==
    /\ mail' = mail \o msgs
    /\ new' = {m \in new : \A j \in DOMAIN msgs : msgs[j].from # mail[m].from}
                 \cup (Len(mail) + 1)..(Len(mail) + Len(msgs))

\* PeerStore.deliver.
Deliver(msgs) ==
    /\ mail' = mail \o msgs
    /\ new' = new \cup (Len(mail) + 1)..(Len(mail) + Len(msgs))

Mail(w, n, kind, hops) ==
    [from |-> NameOf[w], to |-> n, kind |-> kind, re |-> 0, hops |-> hops]

Unread(n) == {m \in new : mail[m].to = n}

\* PeerStore.mark_read.
Read(ms) ==
    /\ new' = new \ ms
    /\ reads' = [m \in Ids |-> IF m \in ms THEN reads[m] + 1 ELSE reads[m]]

Sent == {m \in 1..Len(mail) : mail[m].kind # "reply"}
Checked == {w \in Windows : win[w].pc = "checked"}

\* _resolve_target and _next_hops.
MaySend(w, n, hops) ==
    /\ n # NameOf[w] /\ presence[n].win # "none"
    /\ hops <= MaxHops
    /\ Cardinality(Sent) + Cardinality(Checked) < MaxSends

\* /tell, by the user.
Tell(w, n) ==
    /\ win[w].pc = "idle"
    /\ MaySend(w, n, 1)
    /\ Deliver(<<Mail(w, n, "message", 1)>>)
    /\ UNCHANGED <<presence, win, reads>>

\* drain_pending_wakes, by the turn that begins.
Drained(w) ==
    LET got == Unread(NameOf[w])
        rec == [win[w] EXCEPT !.pc = "busy",
                              !.reqs = {m \in got : mail[m].kind = "request"},
                              !.hops = Max({0} \cup {mail[m].hops : m \in got})]
    IN  /\ Becomes(w, rec)
        /\ Announce(w, rec)
        /\ Read(got)
        /\ UNCHANGED mail

UserTurn(w) == win[w].pc = "idle" /\ Drained(w)

\* The wake loop saw pending_wakes.
WakeTurn(w) == win[w].pc = "idle" /\ Unread(NameOf[w]) # {} /\ Drained(w)

\* peer_send.
Send(w, n) ==
    /\ win[w].pc = "busy"
    /\ MaySend(w, n, win[w].hops + 1)
    /\ Deliver(<<Mail(w, n, "message", win[w].hops + 1)>>)
    /\ UNCHANGED <<presence, win, reads>>

\* Seeded fault: _turn_requests is only reset by the next drain.
EndTurn_KeepsRequests(w) ==
    /\ win[w].pc \in {"busy", "waiting"}
    /\ \E r \in win[w].reqs \cup {0} :
           Deliver(IF r = 0 THEN <<>>
                   ELSE <<[Mail(w, mail[r].from, "reply", win[w].hops) EXCEPT !.re = r]>>)
    /\ Becomes(w, [Closed EXCEPT !.pc = "idle", !.reqs = win[w].reqs])
    /\ Announce(w, win'[w])
    /\ UNCHANGED reads

\* Seeded fault: a cancelled turn answers nothing.
EndTurn_OnlyDone(w) ==
    /\ win[w].pc \in {"busy", "waiting"}
    /\ LET order == IF win[w].pc = "waiting" THEN {} ELSE win[w].reqs
       IN  \E q \in [1..Cardinality(order) -> order] :
               /\ {q[j] : j \in DOMAIN q} = order
               /\ Deliver([j \in DOMAIN q |->
                      [Mail(w, mail[q[j]].from, "reply", win[w].hops) EXCEPT !.re = q[j]]])
    /\ Becomes(w, [Closed EXCEPT !.pc = "idle"])
    /\ Announce(w, [Closed EXCEPT !.pc = "idle"])
    /\ UNCHANGED reads

\* on_turn_end: each request of the turn is answered, whatever became of the turn; one
\* that was cancelled in peer_ask comes from there.
EndTurn(w) ==
    /\ win[w].pc \in {"busy", "waiting"}
    /\ LET replies == {[Mail(w, mail[r].from, "reply", win[w].hops) EXCEPT !.re = r]
                          : r \in win[w].reqs}
           rec == [Closed EXCEPT !.pc = "idle"]
       IN  /\ \E order \in [1..Cardinality(replies) -> replies] :
                  /\ {order[j] : j \in DOMAIN order} = replies
                  /\ Deliver(order)
           /\ Becomes(w, rec)
           /\ Announce(w, rec)
    /\ UNCHANGED reads

-----------------------------------------------------------------------------
(* peer_ask *)

\* The peer must be live and must not wait for us.
AskChecks(w, n) ==
    /\ win[w].pc = "busy"
    /\ Live(n) /\ presence[n].waits # NameOf[w]
    /\ MaySend(w, n, win[w].hops + 1)
    /\ Becomes(w, [win[w] EXCEPT !.pc = "checked", !.to = n])
    /\ UNCHANGED <<presence, mail, new, reads>>

AskSends(w) ==
    /\ win[w].pc = "checked"
    /\ Deliver(<<Mail(w, win[w].to, "request", win[w].hops + 1)>>)
    /\ Becomes(w, [win[w] EXCEPT !.pc = "sent", !.ask = Len(mail) + 1])
    /\ UNCHANGED <<presence, reads>>

AskWaits(w) ==
    /\ win[w].pc = "sent"
    /\ Becomes(w, [win[w] EXCEPT !.pc = "waiting"])
    /\ Announce(w, [win[w] EXCEPT !.pc = "waiting"])
    /\ UNCHANGED <<mail, new, reads>>

Answers(w) == {m \in Unread(NameOf[w]) : mail[m].kind = "reply" /\ mail[m].re = win[w].ask}

\* Seeded fault: _set_state is left out when a wait ends.
Resumed_Quiet(w) ==
    /\ Becomes(w, [win[w] EXCEPT !.pc = "busy", !.ask = 0, !.to = "none"])
    /\ UNCHANGED presence

\* What ends a wait, the finally clause included.
Resumed(w) ==
    LET rec == [win[w] EXCEPT !.pc = "busy", !.ask = 0, !.to = "none"]
    IN  Becomes(w, rec) /\ Announce(w, rec)

AskIsAnswered(w) ==
    /\ win[w].pc = "waiting" /\ Answers(w) # {}
    /\ Read(Answers(w))
    /\ Resumed(w)
    /\ UNCHANGED mail

\* The deadline passes, or the peer is seen offline, and no reply is there.
AskGivesUp(w) ==
    /\ win[w].pc = "waiting" /\ Answers(w) = {}
    /\ Resumed(w)
    /\ UNCHANGED <<mail, new, reads>>

PeerInit ==
    /\ presence = [n \in Names |-> Nobody]
    /\ win = [w \in Windows |-> Closed]
    /\ mail = <<>> /\ new = {}
    /\ reads = [m \in Ids |-> 0]

PeerNext ==
    \/ \E w \in Windows :
           \/ ClaimChecks(w) \/ ClaimWrites(w) \/ Close(w) \/ Crash(w) \/ Heartbeat(w)
           \/ UserTurn(w) \/ WakeTurn(w) \/ EndTurn(w)
           \/ AskSends(w) \/ AskWaits(w) \/ AskIsAnswered(w) \/ AskGivesUp(w)
    \/ \E w \in Windows, n \in Names : Tell(w, n) \/ Send(w, n) \/ AskChecks(w, n)
    \/ \E n \in Names : Sleeps(n)

\* Wake loops poll, turns go on and end, and waits have a deadline; windows need not be
\* opened, and users need not type.
PeerSpec ==
    /\ PeerInit /\ [][PeerNext]_vars
    /\ \A w \in Windows :
           /\ WF_vars(WakeTurn(w)) /\ WF_vars(EndTurn(w))
           /\ WF_vars(AskSends(w)) /\ WF_vars(AskWaits(w))
           /\ WF_vars(AskIsAnswered(w) \/ AskGivesUp(w))

-----------------------------------------------------------------------------
(* Properties *)

Place(m) ==
    CASE m > Len(mail) -> "unsent"
      [] m \in new -> "queued"
      [] m \in 1..Len(mail) \ new /\ reads[m] = 1 -> "delivered"
      [] OTHER -> "lost or read twice"

Box == INSTANCE Delivery WITH where <- [m \in Ids |-> Place(m)], Messages <- Ids,
                              MayDrop <- FALSE

\* A message in a mailbox stays there until one reader takes it: a drain or the wait it
\* answers, over crashes and restarts of either side (mark_read is the read receipt).
MailKept == Box!DeliverySpec

\* A request gets at most one reply, from the turn that read it, and none is owed for
\* what was answered (_turn_requests).
AnsweredOnce ==
    /\ PeerTypeOK
    /\ \A r \in 1..Len(mail) :
           LET replies == {m \in 1..Len(mail) : mail[m].re = r}
               owing == {w \in Windows : r \in win[w].reqs}
           IN  /\ Cardinality(replies) + Cardinality(owing) <= 1
               /\ replies \cup owing # {} => mail[r].kind = "request" /\ r \notin new

\* The record of a window that runs says whom it waits for, and only while it does: the
\* check that refuses to ask back an agent that waits for us reads nothing else.
PresenceTold ==
    \A w \in Windows :
        LET p == presence[NameOf[w]]
        IN  Open(w) /\ p.win = w =>
                p.waits = IF win[w].pc = "waiting" THEN win[w].to ELSE "none"

\* Every message is read once when it is out of new/.
Receipts == \A m \in Ids : reads[m] = IF m \in 1..Len(mail) \ new THEN 1 ELSE 0

\* Who owes a reply read the request, alone, and nobody has answered it.
Owed ==
    \A w \in Windows : \A r \in win[w].reqs :
        /\ r \in 1..Len(mail) \ new /\ mail[r].kind = "request"
        /\ \A m \in 1..Len(mail) : mail[m].re # r
        /\ \A v \in Windows : r \in win[v].reqs => v = w

\* A reply answers a request that was read, and no other reply does.
Replied ==
    \A m \in 1..Len(mail) :
        /\ mail[m].kind = "reply" <=> mail[m].re # 0
        /\ mail[m].re # 0 =>
               /\ mail[m].re \in 1..Len(mail) \ new /\ mail[mail[m].re].kind = "request"
               /\ \A k \in 1..Len(mail) : mail[k].re = mail[m].re => k = m

\* The bound of the model: MaySend counts what is sent and what is about to be.
Bounded == IsFiniteSet(Checked) /\ Cardinality(Sent) + Cardinality(Checked) <= MaxSends

\* What peer_ask checked is what it sends.
Asking ==
    \A w \in Windows :
        /\ win[w].pc \in {"checked", "sent", "waiting"} => win[w].to \in Names
        /\ win[w].pc = "checked" => win[w].hops < MaxHops

\* The inductive strengthening of AnsweredOnce, PresenceTold and MailKept.
PeerInv ==
    /\ PeerTypeOK /\ Receipts /\ Owed /\ Replied /\ Bounded /\ Asking
    /\ PresenceTold

\* Mail of a window that runs is read, a request that was read is answered unless the
\* reader crashed, and a wait ends ("so the asker never hangs").
MailServed ==
    \A w \in Windows :
        /\ \A m \in Ids : (Open(w) /\ m \in Unread(NameOf[w])) ~> (m \notin new \/ ~Open(w))
        /\ \A r \in Ids : (r \in win[w].reqs)
                              ~> (~Open(w) \/ \E m \in 1..Len(mail) : mail[m].re = r)
        /\ win[w].pc = "waiting" ~> win[w].pc # "waiting"

\* No two agents wait for each other ("peer_ask refuses to ask an agent that is waiting
\* on you (deadlock)").
NoWaitCycle ==
    \A v, w \in Windows :
        ~(win[v].pc = "waiting" /\ win[w].pc = "waiting"
            /\ win[v].to = NameOf[w] /\ win[w].to = NameOf[v]
            /\ {win[v].ask, win[w].ask} \subseteq new)

\* A window whose name another took over takes no mail ("this window no longer receives
\* peer messages").
LoserIsSilent ==
    [][\A w \in Windows, m \in new :
          Open(w) /\ presence[NameOf[w]].win # w /\ mail[m].to = NameOf[w]
              => ~(win[w].pc = "idle" /\ win'[w].pc = "busy" /\ m \notin new')]_vars
=============================================================================
