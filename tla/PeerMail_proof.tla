--------------------------- MODULE PeerMail_proof ---------------------------
(***************************************************************************)
(* Proofs about the peers' mail: for any number of windows and agents, two *)
(* windows of one name included.                                           *)
(***************************************************************************)
EXTENDS PeerMail, FiniteSetTheorems, SequenceTheorems, WellFoundedInduction, TLAPS

USE PeerAssumption DEF Names, Ids

----------------------------------------------------------------------------
(* Operators                                                                *)

\* The hops a drained turn starts from are those of some message, or 0.
LEMMA MaxOfBounded ==
  ASSUME NEW n \in Nat, NEW S \in SUBSET (0..n), S # {}
  PROVE  Max(S) \in S
<1> DEFINE Above(x) == (x + 1)..n
           T == {Above(x) : x \in S}
<1>1. T \subseteq FiniteSubsetsOf(0..n) /\ T # {}
  <2>1. 0 \in Int /\ n \in Int
    OBVIOUS
  <2>2. IsFiniteSet(0..n)
    BY <2>1, FS_Interval, Zenon
  <2>3. FiniteSubsetsOf(0..n) = SUBSET (0..n)
    BY <2>2, FS_FiniteSubsetsOfFinite
  <2>4. T \subseteq SUBSET (0..n) /\ T # {}
    OBVIOUS
  <2>5. QED
    BY <2>3, <2>4
<1>2. PICK t \in T : \A u \in T : ~(<<u, t>> \in StrictSubsetOrdering(0..n))
  BY <1>1, WFMin, FS_StrictSubsetOrderingWellFounded
<1>3. PICK x \in S : t = Above(x)
  OBVIOUS
<1>4. \A y \in S : x >= y
  <2> SUFFICES ASSUME NEW y \in S, y > x PROVE FALSE
    OBVIOUS
  <2>1. Above(y) \subseteq Above(x) /\ y \in Above(x) /\ y \notin Above(y)
    OBVIOUS
  <2>2. Above(y) \in SUBSET (0..n) /\ Above(x) \in SUBSET (0..n) /\ Above(y) # Above(x)
    BY <2>1
  <2>3. <<Above(y), Above(x)>> \in StrictSubsetOrdering(0..n)
    BY <2>1, <2>2 DEF StrictSubsetOrdering
  <2>4. QED
    BY <1>2, <1>3, <2>3
<1>5. QED
  BY <1>4 DEF Max

\* What PeerStore.deliver appends.
LEMMA Delivered ==
  ASSUME mail \in Seq(Message), NEW msgs \in Seq(Message), Deliver(msgs)
  PROVE  /\ mail' \in Seq(Message) /\ Len(mail') = Len(mail) + Len(msgs)
         /\ \A m \in 1..Len(mail) : mail'[m] = mail[m]
         /\ \A m \in 1..Len(mail') : m > Len(mail) => mail'[m] = msgs[m - Len(mail)]
         /\ new' = new \cup (Len(mail) + 1)..Len(mail')
  BY DEF Deliver

LEMMA MailIsFinite ==
  ASSUME mail \in Seq(Message)
  PROVE  /\ IsFiniteSet(1..Len(mail)) /\ Cardinality(1..Len(mail)) = Len(mail)
         /\ IsFiniteSet(Sent) /\ Cardinality(Sent) \in Nat
<1>1. 1 \in Int /\ Len(mail) \in Int /\ Len(mail) >= 0
  OBVIOUS
<1>2. Cardinality(1..Len(mail)) = IF 1 > Len(mail) THEN 0 ELSE Len(mail) - 1 + 1
  BY <1>1, FS_Interval, Zenon
<1>3. IsFiniteSet(1..Len(mail))
  BY <1>1, FS_Interval, Zenon
<1>4. IsFiniteSet(Sent) /\ Cardinality(Sent) \in Nat
  BY <1>3, FS_Subset, FS_CardinalityType DEF Sent
<1>5. QED
  BY <1>1, <1>2, <1>3, <1>4

\* Replies answer different requests: the mailboxes hold at most two messages for each one
\* that MaySend counted.
LEMMA Room ==
  ASSUME NEW box \in Seq(Message),
         \A m \in 1..Len(box) : box[m].kind = "reply" =>
             /\ box[m].re \in 1..Len(box) /\ box[box[m].re].kind = "request"
             /\ \A k \in 1..Len(box) : box[k].re = box[m].re => k = m,
         Cardinality({m \in 1..Len(box) : box[m].kind # "reply"}) <= MaxSends
  PROVE  Len(box) <= 2 * MaxSends
<1> DEFINE Others == {m \in 1..Len(box) : box[m].kind # "reply"}
           Replies == 1..Len(box) \ Others
           f == [m \in Replies |-> box[m].re]
<1>1. IsFiniteSet(1..Len(box)) /\ Cardinality(1..Len(box)) = Len(box)
  <2>1. 1 \in Int /\ Len(box) \in Int /\ Len(box) >= 0
    OBVIOUS
  <2>2. Cardinality(1..Len(box)) = IF 1 > Len(box) THEN 0 ELSE Len(box) - 1 + 1
    BY <2>1, FS_Interval, Zenon
  <2>3. IsFiniteSet(1..Len(box))
    BY <2>1, FS_Interval, Zenon
  <2>4. QED
    BY <2>1, <2>2, <2>3
<1>2. IsFiniteSet(Others) /\ IsFiniteSet(Replies)
  BY <1>1, FS_Subset
<1>3. Others \cup Replies = 1..Len(box) /\ Others \cap Replies = {}
  OBVIOUS
<1>4. /\ Cardinality(Others) \in Nat /\ Cardinality(Replies) \in Nat
      /\ Cardinality(Others) <= MaxSends
  BY <1>2, FS_CardinalityType
<1>5. Len(box) = Cardinality(Others) + Cardinality(Replies)
  <2>1. Cardinality(Others \cup Replies)
            = Cardinality(Others) + Cardinality(Replies) - Cardinality(Others \cap Replies)
    BY <1>2, FS_Union, Zenon
  <2>2. Cardinality(Others \cap Replies) = 0
    BY <1>3, FS_EmptySet
  <2>3. Cardinality(Others \cup Replies) = Len(box)
    BY <1>1, <1>3, Zenon
  <2> HIDE DEF Others, Replies
  <2>4. QED
    BY <1>4, <2>1, <2>2, <2>3
<1>6. f \in Injection(Replies, Others)
  <2>1. \A m \in Replies : f[m] \in Others
    OBVIOUS
  <2>2. \A m, k \in Replies : f[m] = f[k] => m = k
    OBVIOUS
  <2>3. QED
    BY <2>1, <2>2 DEF Injection, IsInjective
<1>7. Cardinality(Replies) <= Cardinality(Others)
  BY <1>2, <1>6, FS_Injection
<1> HIDE DEF Others, Replies
<1>8. QED
  BY <1>4, <1>5, <1>7

LEMMA MailFields ==
  ASSUME PeerInv, NEW m \in 1..Len(mail)
  PROVE  /\ mail[m].from \in Names /\ mail[m].to \in Names
         /\ mail[m].re \in Ids \cup {0} /\ mail[m].hops \in 0..MaxHops
<1>1. mail[m] \in Message
  BY ElementOfSeq DEF PeerInv, PeerTypeOK
<1>2. QED
  BY <1>1 DEF Message

LEMMA FewerChecked ==
  ASSUME mail \in Seq(Message), Bounded, Sent' = Sent, Checked' \subseteq Checked
  PROVE  Bounded'
<1>1. IsFiniteSet(Checked') /\ Cardinality(Checked') <= Cardinality(Checked)
  BY FS_Subset DEF Bounded
<1>2. Cardinality(Checked) \in Nat /\ Cardinality(Checked') \in Nat
  BY <1>1, FS_CardinalityType DEF Bounded
<1>3. Cardinality(Sent) + Cardinality(Checked') <= MaxSends
  BY <1>1, <1>2, MailIsFinite DEF Bounded
<1>4. QED
  BY <1>1, <1>3 DEF Bounded

----------------------------------------------------------------------------
(* Steps in which a window moves and the mail stays                         *)

\* What holds of a window's record whatever the others do.
Fits(rec) ==
    /\ rec \in Window
    /\ rec.pc \in {"checked", "sent", "waiting"} => rec.to \in Names
    /\ rec.pc = "checked" => rec.hops < MaxHops

\* A window that moves and writes its record is told of as it is; one whose name another
\* owns is told of nowhere.
LEMMA AnnounceKeeps ==
  ASSUME PeerInv, NEW w \in Windows, NEW rec, Fits(rec), Becomes(w, rec), Announce(w, rec)
  PROVE  presence' \in [Names -> Presence] /\ PresenceTold'
<1> DEFINE n == NameOf[w]
<1>1. n \in Names /\ presence \in [Names -> Presence] /\ win \in [Windows -> Window]
  BY DEF PeerInv, PeerTypeOK
<1>2. win' = [win EXCEPT ![w] = rec]
  BY DEF Becomes
<1>3. CASE presence[n].win \in {w, "none"}
  <2>1. presence' = [presence EXCEPT ![n] =
                        [win |-> w, fresh |-> TRUE,
                         waits |-> IF rec.pc = "waiting" THEN rec.to ELSE "none"]]
    BY <1>1, <1>3 DEF Announce
  <2>2. presence' \in [Names -> Presence]
    BY <1>1, <2>1 DEF Presence, Fits
  <2>3. ASSUME NEW v \in Windows, Open(v)', presence'[NameOf[v]].win = v
        PROVE  presence'[NameOf[v]].waits = IF win'[v].pc = "waiting" THEN win'[v].to ELSE "none"
    <3>1. CASE v = w
      BY <1>1, <1>2, <2>1, <3>1
    <3>2. CASE v # w
      <4>1. NameOf[v] # n
        BY <1>1, <2>1, <2>3, <3>2
      <4>2. presence'[NameOf[v]] = presence[NameOf[v]] /\ win'[v] = win[v]
        BY <1>1, <1>2, <2>1, <3>2, <4>1
      <4>3. QED
        BY <2>3, <4>2 DEF PeerInv, PresenceTold, Open
    <3>3. QED
      BY <3>1, <3>2
  <2>4. QED
    BY <2>2, <2>3 DEF PresenceTold
<1>4. CASE presence[n].win \notin {w, "none"}
  <2>1. presence' = presence
    BY <1>1, <1>4 DEF Announce
  <2>2. ASSUME NEW v \in Windows, Open(v)', presence[NameOf[v]].win = v
        PROVE  v # w /\ win'[v] = win[v]
    BY <1>1, <1>2, <1>4, <2>2
  <2>3. QED
    BY <1>1, <2>1, <2>2 DEF PeerInv, PresenceTold, Open
<1>5. QED
  BY <1>3, <1>4

LEMMA WindowMoves ==
  ASSUME PeerInv, NEW w \in Windows, NEW rec, Fits(rec), Becomes(w, rec),
         UNCHANGED <<mail, new, reads>>,
         rec.reqs \in {win[w].reqs, {}},
         rec.pc = "checked" => win[w].pc = "checked",
         presence' \in [Names -> Presence], PresenceTold'
  PROVE  PeerInv'
<1>1. win' = [win EXCEPT ![w] = rec] /\ win \in [Windows -> Window]
  BY DEF Becomes, PeerInv, PeerTypeOK
<1>2. PeerTypeOK'
  BY <1>1 DEF PeerInv, PeerTypeOK, Fits
<1>3. Receipts' /\ Replied'
  BY DEF PeerInv, Receipts, Replied
<1>4. Owed'
  BY <1>1 DEF PeerInv, Owed
<1>5. Asking'
  BY <1>1 DEF PeerInv, Asking, Fits
<1>6. Bounded'
  <2>1. Sent' = Sent
    BY DEF Sent
  <2>2. Checked' \subseteq Checked
    BY <1>1 DEF Checked
  <2>3. QED
    BY <2>1, <2>2, FewerChecked DEF PeerInv, PeerTypeOK
<1>7. QED
  BY <1>2, <1>3, <1>4, <1>5, <1>6 DEF PeerInv

\* What every window's record satisfies.
LEMMA RecordFits ==
  ASSUME PeerInv, NEW w \in Windows
  PROVE  Fits(win[w])
  BY DEF PeerInv, PeerTypeOK, Asking, Fits

LEMMA ClosedFits ==
  /\ Fits(Closed)
  /\ Fits([Closed EXCEPT !.pc = "claiming"])
  /\ Fits([Closed EXCEPT !.pc = "idle"])
  BY DEF Fits, Closed, Window

\* A window starts, claims its name, releases it, crashes, or falls asleep.
LEMMA ClaimChecksInv ==
  ASSUME PeerInv, NEW w \in Windows, ClaimChecks(w)
  PROVE  PeerInv'
<1> DEFINE rec == [Closed EXCEPT !.pc = "claiming"]
<1>1. Becomes(w, rec) /\ UNCHANGED <<presence, mail, new, reads>>
  BY DEF ClaimChecks
<1>2. presence' \in [Names -> Presence] /\ PresenceTold'
  BY <1>1 DEF PeerInv, PeerTypeOK, PresenceTold, Becomes, Open, Closed
<1>3. QED
  BY <1>1, <1>2, ClosedFits, WindowMoves DEF Closed

LEMMA ClaimWritesInv ==
  ASSUME PeerInv, NEW w \in Windows, ClaimWrites(w)
  PROVE  PeerInv'
<1> DEFINE rec == [Closed EXCEPT !.pc = "idle"]
<1>1. Becomes(w, rec) /\ UNCHANGED <<mail, new, reads>>
  BY DEF ClaimWrites
<1>2. presence' \in [Names -> Presence]
  BY DEF ClaimWrites, PeerInv, PeerTypeOK, Presence
<1>3. ASSUME NEW v \in Windows, Open(v)', presence'[NameOf[v]].win = v
      PROVE  presence'[NameOf[v]].waits = IF win'[v].pc = "waiting" THEN win'[v].to ELSE "none"
  <2>1. CASE v = w
    BY <1>1, <2>1 DEF ClaimWrites, PeerInv, PeerTypeOK, Becomes, Closed
  <2>2. CASE v # w
    <3>1. NameOf[v] # NameOf[w]
      BY <1>3, <2>2 DEF ClaimWrites, PeerInv, PeerTypeOK
    <3>2. presence'[NameOf[v]] = presence[NameOf[v]] /\ win'[v] = win[v]
      BY <1>1, <2>2, <3>1 DEF ClaimWrites, PeerInv, PeerTypeOK, Becomes
    <3>3. QED
      BY <1>3, <3>2 DEF PeerInv, PresenceTold, Open
  <2>3. QED
    BY <2>1, <2>2
<1>4. PresenceTold'
  BY <1>3 DEF PresenceTold
<1>5. QED
  BY <1>1, <1>2, <1>4, ClosedFits, WindowMoves DEF Closed

LEMMA CloseInv ==
  ASSUME PeerInv, NEW w \in Windows, Close(w) \/ Crash(w)
  PROVE  PeerInv'
<1>1. Becomes(w, Closed) /\ UNCHANGED <<mail, new, reads>>
  BY DEF Close, Crash
<1>2. presence' \in [Names -> Presence]
  <2>1. Nobody \in Presence /\ presence \in [Names -> Presence]
    BY DEF PeerInv, PeerTypeOK, Presence, Nobody
  <2>2. CASE Close(w)
    BY <2>1, <2>2 DEF Close
  <2>3. CASE Crash(w)
    BY <2>1, <2>3 DEF Crash
  <2>4. QED
    BY <2>2, <2>3
<1>3. ASSUME NEW v \in Windows, Open(v)', presence'[NameOf[v]].win = v
      PROVE  presence'[NameOf[v]].waits = IF win'[v].pc = "waiting" THEN win'[v].to ELSE "none"
  <2>1. v # w /\ win'[v] = win[v]
    BY <1>1, <1>3 DEF PeerInv, PeerTypeOK, Becomes, Open, Closed
  <2>2. presence'[NameOf[v]] = presence[NameOf[v]]
    BY <1>3, <2>1, SMTT(30) DEF Close, Crash, PeerInv, PeerTypeOK, Nobody
  <2>3. QED
    BY <1>3, <2>1, <2>2 DEF PeerInv, PresenceTold, Open
<1>4. PresenceTold'
  BY <1>3 DEF PresenceTold
<1>5. QED
  BY <1>1, <1>2, <1>4, ClosedFits, WindowMoves DEF Closed

LEMMA SleepsInv ==
  ASSUME PeerInv, NEW n \in Names, Sleeps(n)
  PROVE  PeerInv'
<1>1. UNCHANGED <<win, mail, new, reads>>
  BY DEF Sleeps
<1>2. presence' \in [Names -> Presence]
  <2>1. presence \in [Names -> Presence]
    BY DEF PeerInv, PeerTypeOK
  <2>2. [presence[n] EXCEPT !.fresh = FALSE] \in Presence
    BY <2>1 DEF Presence
  <2>3. presence' = [presence EXCEPT ![n] = [presence[n] EXCEPT !.fresh = FALSE]]
    BY <2>1 DEF Sleeps
  <2>4. QED
    BY <2>1, <2>2, <2>3
<1>3. \A k \in Names : presence'[k].win = presence[k].win /\ presence'[k].waits = presence[k].waits
  BY DEF Sleeps, PeerInv, PeerTypeOK, Presence
<1>4. PresenceTold'
  BY <1>1, <1>3 DEF PeerInv, PresenceTold, Open
<1>5. QED
  BY <1>1, <1>2, <1>4 DEF PeerInv, PeerTypeOK, Receipts, Owed, Replied, Bounded, Asking, Sent, Checked

LEMMA HeartbeatInv ==
  ASSUME PeerInv, NEW w \in Windows, Heartbeat(w)
  PROVE  PeerInv'
<1>1. Becomes(w, win[w]) /\ Announce(w, win[w]) /\ UNCHANGED <<mail, new, reads>>
  BY DEF Heartbeat, Becomes, PeerInv, PeerTypeOK
<1>2. QED
  BY <1>1, RecordFits, AnnounceKeeps, WindowMoves

\* A wait begins, or ends without an answer.
LEMMA AskWaitsInv ==
  ASSUME PeerInv, NEW w \in Windows, AskWaits(w)
  PROVE  PeerInv'
<1> DEFINE rec == [win[w] EXCEPT !.pc = "waiting"]
<1>1. Becomes(w, rec) /\ Announce(w, rec) /\ UNCHANGED <<mail, new, reads>>
  BY DEF AskWaits
<1>2. Fits(rec) /\ rec.reqs = win[w].reqs /\ rec.pc # "checked"
  BY RecordFits DEF AskWaits, Fits, Window
<1>3. QED
  BY <1>1, <1>2, AnnounceKeeps, WindowMoves

LEMMA ResumedFits ==
  ASSUME PeerInv, NEW w \in Windows
  PROVE  LET rec == [win[w] EXCEPT !.pc = "busy", !.ask = 0, !.to = "none"]
         IN  Fits(rec) /\ rec.reqs = win[w].reqs /\ rec.pc # "checked"
  BY RecordFits DEF Fits, Window

LEMMA AskGivesUpInv ==
  ASSUME PeerInv, NEW w \in Windows, AskGivesUp(w)
  PROVE  PeerInv'
<1> DEFINE rec == [win[w] EXCEPT !.pc = "busy", !.ask = 0, !.to = "none"]
<1>1. Becomes(w, rec) /\ Announce(w, rec) /\ UNCHANGED <<mail, new, reads>>
  BY DEF AskGivesUp, Resumed
<1>2. Fits(rec) /\ rec.reqs = win[w].reqs /\ rec.pc # "checked"
  BY ResumedFits
<1>3. QED
  BY <1>1, <1>2, AnnounceKeeps, WindowMoves

----------------------------------------------------------------------------
(* Steps in which mail is read                                              *)

LEMMA MailRead ==
  ASSUME PeerInv, NEW w \in Windows, NEW rec, Fits(rec), Becomes(w, rec),
         NEW ms \in SUBSET new, Read(ms), UNCHANGED mail,
         rec.reqs \subseteq win[w].reqs \cup {m \in ms : mail[m].kind = "request"},
         rec.pc # "checked",
         presence' \in [Names -> Presence], PresenceTold'
  PROVE  PeerInv'
<1>1. win' = [win EXCEPT ![w] = rec] /\ win \in [Windows -> Window]
  BY DEF Becomes, PeerInv, PeerTypeOK
<1>2. new' = new \ ms /\ new \subseteq 1..Len(mail) /\ new \subseteq Ids
  BY DEF Read, PeerInv, PeerTypeOK
<1>3. Receipts'
  BY <1>2 DEF Read, PeerInv, Receipts
<1>4. PeerTypeOK'
  <2>1. reads' \in [Ids -> 0..2]
    BY <1>3 DEF Read, Receipts
  <2>2. QED
    BY <1>1, <1>2, <2>1 DEF PeerInv, PeerTypeOK, Fits
<1>5. Replied'
  BY <1>2 DEF PeerInv, Replied
<1>6. Owed'
  <2> SUFFICES ASSUME NEW v \in Windows, NEW r \in win'[v].reqs
               PROVE  /\ r \in 1..Len(mail) \ new' /\ mail[r].kind = "request"
                      /\ \A m \in 1..Len(mail) : mail[m].re # r
                      /\ \A u \in Windows : r \in win'[u].reqs => u = v
    BY DEF Owed
  <2>1. \A u \in Windows : \A q \in win'[u].reqs :
            q \in win[u].reqs \/ (u = w /\ q \in ms /\ mail[q].kind = "request")
    BY <1>1
  <2>2. \A u \in Windows : \A q \in win[u].reqs : q \notin ms
    BY DEF PeerInv, Owed
  <2>3. CASE r \in win[v].reqs
    BY <1>2, <2>1, <2>2, <2>3 DEF PeerInv, Owed
  <2>4. CASE v = w /\ r \in ms /\ mail[r].kind = "request"
    <3>1. \A m \in 1..Len(mail) : mail[m].re # r
      BY <1>2, <2>4 DEF PeerInv, Replied
    <3>2. QED
      BY <1>2, <2>1, <2>2, <2>4, <3>1
  <2>5. QED
    BY <2>1, <2>3, <2>4
<1>7. Asking'
  BY <1>1 DEF PeerInv, Asking, Fits
<1>8. Bounded'
  <2>1. Sent' = Sent
    BY DEF Sent
  <2>2. Checked' \subseteq Checked
    BY <1>1 DEF Checked
  <2>3. QED
    BY <2>1, <2>2, FewerChecked DEF PeerInv, PeerTypeOK
<1>9. QED
  BY <1>3, <1>4, <1>5, <1>6, <1>7, <1>8 DEF PeerInv

\* A turn begins, and owes a reply to every request it took.
LEMMA DrainedInv ==
  ASSUME PeerInv, NEW w \in Windows, Drained(w)
  PROVE  PeerInv'
<1> DEFINE got == Unread(NameOf[w])
           hops == {0} \cup {mail[m].hops : m \in got}
           reqs == {m \in got : mail[m].kind = "request"}
           rec == [win[w] EXCEPT !.pc = "busy", !.reqs = reqs, !.hops = Max(hops)]
<1>1. Becomes(w, rec) /\ Announce(w, rec) /\ Read(got) /\ UNCHANGED mail
  BY DEF Drained
<1>2. got \in SUBSET new /\ new \subseteq 1..Len(mail) /\ new \subseteq Ids
  BY DEF Unread, PeerInv, PeerTypeOK
<1>3. Max(hops) \in 0..MaxHops
  <2>1. hops \in SUBSET (0..MaxHops) /\ hops # {}
    <3>1. \A m \in got : mail[m].hops \in 0..MaxHops
      BY <1>2, MailFields
    <3>2. 0 \in 0..MaxHops
      OBVIOUS
    <3>3. QED
      BY <3>1, <3>2, Zenon
  <2>2. Max(hops) \in hops
    BY <2>1, MaxOfBounded
  <2>3. QED
    BY <2>1, <2>2
<1>4. reqs \in SUBSET Ids
  BY <1>2
<1>5. Fits(rec) /\ rec.reqs = reqs /\ rec.pc = "busy"
  <2> HIDE DEF hops, reqs
  <2>1. QED
    BY <1>3, <1>4, RecordFits DEF Fits, Window
<1>6. rec.reqs \subseteq win[w].reqs \cup {m \in got : mail[m].kind = "request"} /\ rec.pc # "checked"
  BY <1>5
<1> HIDE DEF rec, got
<1>7. QED
  BY <1>1, <1>2, <1>5, <1>6, AnnounceKeeps, MailRead

\* A wait ends with the reply.
LEMMA AskIsAnsweredInv ==
  ASSUME PeerInv, NEW w \in Windows, AskIsAnswered(w)
  PROVE  PeerInv'
<1> DEFINE rec == [win[w] EXCEPT !.pc = "busy", !.ask = 0, !.to = "none"]
<1>1. Becomes(w, rec) /\ Announce(w, rec) /\ Read(Answers(w)) /\ UNCHANGED mail
  BY DEF AskIsAnswered, Resumed
<1>2. Fits(rec) /\ rec.reqs = win[w].reqs /\ rec.pc # "checked"
  BY ResumedFits
<1>3. Answers(w) \in SUBSET new
  BY DEF Answers, Unread
<1> HIDE DEF rec
<1>4. QED
  BY <1>1, <1>2, <1>3, AnnounceKeeps, MailRead

----------------------------------------------------------------------------
(* Steps in which mail is sent                                              *)

\* No mailbox is emptied but by its readers, and what they took does not come back.
MailGrows == Len(mail) <= Len(mail') /\ \A m \in 1..Len(mail) : m \in new' => m \in new

\* peer_ask has checked its peer: MaySend keeps a place for the request.
LEMMA AskChecksInv ==
  ASSUME PeerInv, NEW w \in Windows, NEW n \in Names, AskChecks(w, n)
  PROVE  PeerInv'
<1> DEFINE rec == [win[w] EXCEPT !.pc = "checked", !.to = n]
<1>1. Becomes(w, rec) /\ UNCHANGED <<presence, mail, new, reads>>
  BY DEF AskChecks
<1>2. win[w].hops + 1 <= MaxHops /\ Cardinality(Sent) + Cardinality(Checked) < MaxSends
  BY DEF AskChecks, MaySend
<1>3. Fits(rec) /\ rec.reqs = win[w].reqs /\ rec.pc = "checked"
  <2>1. win[w] \in Window
    BY DEF PeerInv, PeerTypeOK
  <2>2. rec \in Window
    BY <2>1 DEF Window
  <2>3. rec.hops < MaxHops /\ rec.to \in Names /\ rec.reqs = win[w].reqs /\ rec.pc = "checked"
    BY <1>2, <2>1 DEF Window
  <2>4. QED
    BY <2>2, <2>3 DEF Fits
<1> HIDE DEF rec
<1>4. win' = [win EXCEPT ![w] = rec] /\ win \in [Windows -> Window] /\ win[w].pc = "busy"
  BY <1>1 DEF Becomes, PeerInv, PeerTypeOK, AskChecks
<1>5. PeerTypeOK' /\ Receipts' /\ Replied'
  BY <1>1, <1>3, <1>4 DEF PeerInv, PeerTypeOK, Receipts, Replied, Fits
<1>6. Owed'
  BY <1>1, <1>3, <1>4 DEF PeerInv, Owed
<1>7. Asking'
  BY <1>3, <1>4 DEF PeerInv, Asking, Fits
<1>8. PresenceTold'
  BY <1>1, <1>3, <1>4 DEF PeerInv, PresenceTold, Open
<1>9. Bounded'
  <2>1. Sent' = Sent
    BY <1>1 DEF Sent
  <2>2. Checked' = Checked \cup {w} /\ w \notin Checked
    BY <1>3, <1>4 DEF Checked
  <2>3. IsFiniteSet(Checked') /\ Cardinality(Checked') = Cardinality(Checked) + 1
    BY <2>2, FS_AddElement DEF PeerInv, Bounded
  <2>4. Cardinality(Sent) \in Nat /\ Cardinality(Checked) \in Nat
    BY MailIsFinite, FS_CardinalityType DEF PeerInv, PeerTypeOK, Bounded
  <2>5. QED
    BY <1>2, <2>1, <2>3, <2>4 DEF Bounded
<1>10. QED
  BY <1>5, <1>6, <1>7, <1>8, <1>9 DEF PeerInv

\* What a delivery leaves as it was.
LEMMA Posted ==
  ASSUME PeerInv, NEW msgs \in Seq(Message), Deliver(msgs), UNCHANGED reads,
         Len(mail') <= 2 * MaxSends
  PROVE  /\ mail' \in Seq(Message) /\ new' \subseteq 1..Len(mail')
         /\ 1..Len(mail') \ new' = 1..Len(mail) \ new
         /\ Receipts'
<1>1. /\ mail' \in Seq(Message) /\ Len(mail') = Len(mail) + Len(msgs)
      /\ new' = new \cup (Len(mail) + 1)..Len(mail')
      /\ new \subseteq 1..Len(mail) /\ Len(mail) \in Nat /\ Len(msgs) \in Nat
  BY Delivered DEF PeerInv, PeerTypeOK
<1>2. 1..Len(mail') \ new' = 1..Len(mail) \ new
  BY <1>1
<1>3. QED
  BY <1>1, <1>2 DEF PeerInv, Receipts

\* A message or a request goes out.
LEMMA OneSent ==
  ASSUME PeerInv, NEW msg \in Message, msg.kind # "reply", msg.re = 0,
         Deliver(<<msg>>), UNCHANGED reads,
         \A v \in Windows : win'[v].reqs = win[v].reqs,
         IsFiniteSet(Checked'), Cardinality(Sent) + 1 + Cardinality(Checked') <= MaxSends
  PROVE  /\ mail' \in Seq(Message) /\ Len(mail') = Len(mail) + 1 /\ Len(mail') <= 2 * MaxSends
         /\ new' \subseteq 1..Len(mail')
         /\ Receipts' /\ Replied' /\ Owed' /\ Bounded'
<1> DEFINE msgs == <<msg>>
<1>1. msgs \in Seq(Message) /\ Len(msgs) = 1 /\ msgs[1] = msg
  OBVIOUS
<1>2. /\ mail' \in Seq(Message) /\ Len(mail') = Len(mail) + 1
      /\ \A m \in 1..Len(mail) : mail'[m] = mail[m]
      /\ mail'[Len(mail) + 1] = msg
      /\ new' = new \cup {Len(mail) + 1}
      /\ new \subseteq 1..Len(mail) /\ Len(mail) \in Nat
  <2>1. mail \in Seq(Message) /\ Len(mail) \in Nat /\ new \subseteq 1..Len(mail)
    BY DEF PeerInv, PeerTypeOK
  <2> HIDE DEF msgs
  <2>2. /\ mail' \in Seq(Message) /\ Len(mail') = Len(mail) + 1
        /\ \A m \in 1..Len(mail) : mail'[m] = mail[m]
        /\ \A m \in 1..Len(mail') : m > Len(mail) => mail'[m] = msgs[m - Len(mail)]
        /\ new' = new \cup (Len(mail) + 1)..Len(mail')
    BY <1>1, <2>1, Delivered DEF msgs
  <2>3. QED
    BY <1>1, <2>1, <2>2
<1>3. Replied'
  <2> SUFFICES ASSUME NEW m \in 1..Len(mail')
               PROVE  /\ mail'[m].kind = "reply" <=> mail'[m].re # 0
                      /\ mail'[m].re # 0 =>
                             /\ mail'[m].re \in 1..Len(mail') \ new'
                             /\ mail'[mail'[m].re].kind = "request"
                             /\ \A k \in 1..Len(mail') : mail'[k].re = mail'[m].re => k = m
    BY DEF Replied
  <2>1. CASE m = Len(mail) + 1
    BY <1>2, <2>1
  <2>2. CASE m \in 1..Len(mail)
    <3>1. mail'[m] = mail[m]
      BY <1>2, <2>2
    <3>2. CASE mail[m].re = 0
      BY <2>2, <3>1, <3>2 DEF PeerInv, Replied
    <3>3. CASE mail[m].re # 0
      <4>1. /\ mail[m].kind = "reply"
            /\ mail[m].re \in 1..Len(mail) \ new /\ mail[mail[m].re].kind = "request"
            /\ \A k \in 1..Len(mail) : mail[k].re = mail[m].re => k = m
        BY <2>2, <3>3 DEF PeerInv, Replied
      <4>2. \A k \in 1..Len(mail') : mail'[k].re = mail[m].re => k = m
        BY <1>2, <3>3, <4>1
      <4>3. mail[m].re \in 1..Len(mail') \ new' /\ mail'[mail[m].re].kind = "request"
        BY <1>2, <4>1
      <4>4. QED
        BY <3>1, <4>1, <4>2, <4>3
    <3>4. QED
      BY <3>2, <3>3
  <2>3. QED
    BY <1>2, <2>1, <2>2
<1>4. Owed'
  <2> SUFFICES ASSUME NEW v \in Windows, NEW r \in win'[v].reqs
               PROVE  /\ r \in 1..Len(mail') \ new' /\ mail'[r].kind = "request"
                      /\ \A m \in 1..Len(mail') : mail'[m].re # r
                      /\ \A u \in Windows : r \in win'[u].reqs => u = v
    BY DEF Owed
  <2>1. /\ r \in 1..Len(mail) \ new /\ mail[r].kind = "request"
        /\ \A m \in 1..Len(mail) : mail[m].re # r
        /\ \A u \in Windows : r \in win[u].reqs => u = v
    BY DEF PeerInv, Owed
  <2>2. QED
    BY <1>2, <2>1, SMTT(30)
<1>5. Sent' = Sent \cup {Len(mail) + 1} /\ Len(mail) + 1 \notin Sent
  BY <1>2 DEF Sent
<1>6. Bounded' /\ Cardinality(Sent') <= MaxSends
  <2>1. Cardinality(Sent) \in Nat /\ IsFiniteSet(Sent) /\ Cardinality(Checked') \in Nat
    BY MailIsFinite, FS_CardinalityType DEF PeerInv, PeerTypeOK
  <2>2. Cardinality(Sent') = Cardinality(Sent) + 1
    BY <1>5, <2>1, FS_AddElement
  <2>3. QED
    BY <2>1, <2>2 DEF Bounded
<1>7. Len(mail') <= 2 * MaxSends
  <2>1. \A m \in 1..Len(mail') : mail'[m].kind = "reply" =>
            /\ mail'[m].re \in 1..Len(mail') /\ mail'[mail'[m].re].kind = "request"
            /\ \A k \in 1..Len(mail') : mail'[k].re = mail'[m].re => k = m
    BY <1>3 DEF Replied
  <2>2. Cardinality({m \in 1..Len(mail') : mail'[m].kind # "reply"}) <= MaxSends
    BY <1>6 DEF Sent
  <2>3. QED
    BY <1>2, <2>1, <2>2, Room
<1>8. Receipts' /\ new' \subseteq 1..Len(mail')
  BY <1>1, <1>7, Posted
<1>9. QED
  BY <1>2, <1>3, <1>4, <1>6, <1>7, <1>8

LEMMA SentGrows ==
  ASSUME PeerInv, NEW msg \in Message, Deliver(<<msg>>)
  PROVE  MailGrows
<1> DEFINE msgs == <<msg>>
<1>1. msgs \in Seq(Message) /\ mail \in Seq(Message) /\ Deliver(msgs)
  BY DEF PeerInv, PeerTypeOK
<1> HIDE DEF msgs
<1>2. Len(mail') = Len(mail) + Len(msgs) /\ new' = new \cup (Len(mail) + 1)..Len(mail')
  BY <1>1, Delivered
<1>3. QED
  BY <1>1, <1>2 DEF MailGrows

LEMMA SendInv ==
  ASSUME PeerInv, NEW w \in Windows, NEW n \in Names, Tell(w, n) \/ Send(w, n)
  PROVE  PeerInv' /\ MailGrows
<1>1. PICK hops \in 1..MaxHops : /\ MaySend(w, n, hops)
                                /\ Deliver(<<Mail(w, n, "message", hops)>>)
                                /\ UNCHANGED <<presence, win, reads>>
  <2>1. CASE Tell(w, n)
    BY <2>1 DEF Tell, MaySend
  <2>2. CASE Send(w, n)
    <3>1. win[w].hops \in 0..MaxHops
      BY DEF PeerInv, PeerTypeOK, Window
    <3>2. QED
      BY <2>2, <3>1 DEF Send, MaySend
  <2>3. QED
    BY <2>1, <2>2
<1> DEFINE msg == Mail(w, n, "message", hops)
<1>2. msg \in Message /\ msg.kind # "reply" /\ msg.re = 0
  BY DEF Message, Mail
<1>3. Checked' = Checked
  BY <1>1 DEF Checked
<1>4. IsFiniteSet(Checked') /\ Cardinality(Sent) + 1 + Cardinality(Checked') <= MaxSends
  <2>1. Cardinality(Sent) \in Nat /\ Cardinality(Checked) \in Nat
    BY MailIsFinite, FS_CardinalityType DEF PeerInv, PeerTypeOK, Bounded
  <2>2. QED
    BY <1>1, <1>3, <2>1 DEF MaySend, PeerInv, Bounded
<1> HIDE DEF msg
<1>5. /\ mail' \in Seq(Message) /\ Len(mail') <= 2 * MaxSends
      /\ new' \subseteq 1..Len(mail')
      /\ Receipts' /\ Replied' /\ Owed' /\ Bounded'
  BY <1>1, <1>2, <1>4, OneSent DEF msg
<1>6. PeerTypeOK' /\ Asking' /\ PresenceTold'
  BY <1>1, <1>5 DEF PeerInv, PeerTypeOK, Asking, PresenceTold, Open
<1>7. MailGrows
  BY <1>1, <1>2, SentGrows DEF msg
<1>8. QED
  BY <1>7, <1>5, <1>6 DEF PeerInv

\* The place that was kept is used: the request has a number.
LEMMA AskSendsInv ==
  ASSUME PeerInv, NEW w \in Windows, AskSends(w)
  PROVE  PeerInv' /\ MailGrows
<1> DEFINE msg == Mail(w, win[w].to, "request", win[w].hops + 1)
           rec == [win[w] EXCEPT !.pc = "sent", !.ask = Len(mail) + 1]
<1>1. /\ win[w].pc = "checked" /\ Deliver(<<msg>>) /\ Becomes(w, rec)
      /\ UNCHANGED <<presence, reads>>
  BY DEF AskSends
<1>2. win[w] \in Window /\ win \in [Windows -> Window]
  BY DEF PeerInv, PeerTypeOK
<1>3. win[w].to \in Names /\ win[w].hops + 1 \in 0..MaxHops
  BY <1>1, <1>2 DEF PeerInv, Asking, Window
<1>4. msg \in Message /\ msg.kind # "reply" /\ msg.re = 0
  BY <1>3 DEF Message, Mail
<1>5. rec.reqs = win[w].reqs /\ rec.pc = "sent" /\ rec.to = win[w].to
  BY <1>2 DEF Window
<1>6. win' = [win EXCEPT ![w] = rec]
  BY <1>1 DEF Becomes
<1> HIDE DEF msg
<1>7. \A v \in Windows : win'[v].reqs = win[v].reqs
  BY <1>2, <1>5, <1>6
<1>8. IsFiniteSet(Checked') /\ Cardinality(Sent) + 1 + Cardinality(Checked') <= MaxSends
  <2>1. Checked' = Checked \ {w} /\ w \in Checked
    BY <1>1, <1>2, <1>5, <1>6 DEF Checked
  <2>2. IsFiniteSet(Checked') /\ Cardinality(Checked') = Cardinality(Checked) - 1
    BY <2>1, FS_RemoveElement DEF PeerInv, Bounded
  <2>3. Cardinality(Sent) \in Nat /\ Cardinality(Checked) \in Nat
    BY MailIsFinite, FS_CardinalityType DEF PeerInv, PeerTypeOK, Bounded
  <2>4. QED
    BY <2>2, <2>3 DEF PeerInv, Bounded
<1>9. /\ mail' \in Seq(Message) /\ Len(mail') = Len(mail) + 1 /\ Len(mail') <= 2 * MaxSends
      /\ new' \subseteq 1..Len(mail')
      /\ Receipts' /\ Replied' /\ Owed' /\ Bounded'
  BY <1>1, <1>4, <1>7, <1>8, OneSent
<1>10. rec \in Window
  <2>1. Len(mail) + 1 \in Ids
    BY <1>9 DEF PeerInv, PeerTypeOK
  <2>2. QED
    BY <1>2, <2>1 DEF Window
<1>11. PeerTypeOK'
  BY <1>1, <1>2, <1>6, <1>9, <1>10 DEF PeerInv, PeerTypeOK
<1> HIDE DEF rec
<1>12. Asking'
  BY <1>2, <1>3, <1>5, <1>6 DEF PeerInv, Asking
<1>13. PresenceTold'
  BY <1>1, <1>2, <1>5, <1>6 DEF PeerInv, PresenceTold, Open
<1>14. MailGrows
  BY <1>1, <1>4, SentGrows
<1>15. QED
  BY <1>14, <1>9, <1>11, <1>12, <1>13 DEF PeerInv

\* A turn ends: each request it owes has its reply, and it owes none any more.
LEMMA EndTurnInv ==
  ASSUME PeerInv, NEW w \in Windows, EndTurn(w)
  PROVE  PeerInv' /\ MailGrows
<1> DEFINE reqs == win[w].reqs
           reply(r) == [Mail(w, mail[r].from, "reply", win[w].hops) EXCEPT !.re = r]
           replies == {reply(r) : r \in reqs}
           n == Cardinality(replies)
           rec == [Closed EXCEPT !.pc = "idle"]
<1>1. PICK order \in [1..n -> replies] :
          {order[j] : j \in DOMAIN order} = replies /\ Deliver(order)
  BY DEF EndTurn
<1>2. Becomes(w, rec) /\ Announce(w, rec) /\ UNCHANGED reads
  BY DEF EndTurn
<1>3. /\ win \in [Windows -> Window] /\ win[w] \in Window
      /\ mail \in Seq(Message) /\ Len(mail) \in Nat /\ Len(mail) <= 2 * MaxSends
      /\ new \subseteq 1..Len(mail)
  BY DEF PeerInv, PeerTypeOK
<1>4. \A r \in reqs : /\ r \in 1..Len(mail) \ new /\ mail[r].kind = "request"
                     /\ \A m \in 1..Len(mail) : mail[m].re # r
                     /\ \A v \in Windows : r \in win[v].reqs => v = w
  BY DEF PeerInv, Owed
<1>5. \A r \in reqs : reply(r) \in Message /\ reply(r).kind = "reply" /\ reply(r).re = r
  <2> TAKE r \in reqs
  <2>1. mail[r].from \in Names /\ r \in Ids /\ win[w].hops \in 0..MaxHops
    BY <1>3, <1>4, MailFields DEF Window
  <2>2. QED
    BY <2>1 DEF Message, Mail
<1>6. IsFiniteSet(replies) /\ n \in Nat
  <2> DEFINE f == [r \in reqs |-> reply(r)]
  <2>1. f \in Surjection(reqs, replies)
    BY DEF Surjection
  <2>2. IsFiniteSet(reqs)
    BY <1>3, <1>4, MailIsFinite, FS_Subset
  <2>3. QED
    BY <2>1, <2>2, FS_Surjection, FS_CardinalityType
<1>7. \A i, j \in 1..n : order[i] = order[j] => i = j
  <2> HIDE DEF replies
  <2>1. 1 \in Int /\ n \in Int
    BY <1>6
  <2>2. IsFiniteSet(1..n)
    BY <2>1, FS_Interval, Zenon
  <2>3. Cardinality(1..n) = IF 1 > n THEN 0 ELSE n - 1 + 1
    BY <2>1, FS_Interval, Zenon
  <2>4. Cardinality(1..n) = Cardinality(replies)
    BY <1>6, <2>3
  <2>5. order \in Surjection(1..n, replies)
    BY <1>1 DEF Surjection
  <2>6. order \in Injection(1..n, replies)
    BY <2>2, <2>4, <2>5, FS_SurjSameCardinalityImpliesInj
  <2>7. QED
    BY <2>6 DEF Injection, IsInjective
<1>8. \A j \in 1..n : \E r \in reqs : order[j] = reply(r)
  BY <1>1
<1>9. \A j \in 1..n : /\ order[j] \in Message /\ order[j].kind = "reply" /\ order[j].re \in reqs
                     /\ \A i \in 1..n : order[i].re = order[j].re => i = j
  <2> HIDE DEF n, replies, reply, rec
  <2> TAKE j \in 1..n
  <2>1. PICK r \in reqs : order[j] = reply(r)
    BY <1>8
  <2>2. order[j] \in Message /\ order[j].kind = "reply" /\ order[j].re = r
    BY <1>5, <2>1
  <2>3. ASSUME NEW i \in 1..n, order[i].re = order[j].re PROVE i = j
    <3>1. PICK q \in reqs : order[i] = reply(q)
      BY <1>8
    <3>2. order[i].re = q
      BY <1>5, <3>1
    <3>3. order[i] = order[j]
      BY <2>1, <2>2, <2>3, <3>1, <3>2
    <3>4. QED
      BY <1>7, <3>3
  <2>4. QED
    BY <2>2, <2>3
<1>10. order \in Seq(Message) /\ Len(order) = n
  <2> HIDE DEF n, replies
  <2>1. order \in [1..n -> Message] /\ n \in Nat
    BY <1>1, <1>6, <1>9
  <2>2. order \in Seq(Message)
    BY <2>1, SeqDef
  <2>3. QED
    BY <2>1, <2>2
<1> HIDE DEF n, replies, reply, rec
<1>11. /\ mail' \in Seq(Message) /\ Len(mail') = Len(mail) + n
       /\ \A m \in 1..Len(mail) : mail'[m] = mail[m]
       /\ \A m \in 1..Len(mail') : m > Len(mail) =>
              m - Len(mail) \in 1..n /\ mail'[m] = order[m - Len(mail)]
       /\ new' = new \cup (Len(mail) + 1)..Len(mail')
  BY <1>1, <1>3, <1>6, <1>10, Delivered, SMTT(30)
<1>12. Fits(rec) /\ rec.reqs = {} /\ rec.pc = "idle"
  BY ClosedFits DEF rec, Closed
<1>13. win' = [win EXCEPT ![w] = rec]
  BY <1>2 DEF Becomes
<1>14. Replied'
  <2> SUFFICES ASSUME NEW m \in 1..Len(mail')
               PROVE  /\ mail'[m].kind = "reply" <=> mail'[m].re # 0
                      /\ mail'[m].re # 0 =>
                             /\ mail'[m].re \in 1..Len(mail') \ new'
                             /\ mail'[mail'[m].re].kind = "request"
                             /\ \A k \in 1..Len(mail') : mail'[k].re = mail'[m].re => k = m
    BY DEF Replied
  <2>1. CASE m \in 1..Len(mail)
    <3>1. mail'[m] = mail[m] /\ (mail[m].kind = "reply" <=> mail[m].re # 0)
      BY <1>11, <2>1 DEF PeerInv, Replied
    <3>2. ASSUME mail[m].re # 0
          PROVE  /\ mail[m].re \in 1..Len(mail') \ new'
                 /\ mail'[mail[m].re].kind = "request"
                 /\ \A k \in 1..Len(mail') : mail'[k].re = mail[m].re => k = m
      <4>1. /\ mail[m].re \in 1..Len(mail) \ new /\ mail[mail[m].re].kind = "request"
            /\ \A k \in 1..Len(mail) : mail[k].re = mail[m].re => k = m
        BY <2>1, <3>2 DEF PeerInv, Replied
      <4>2. ASSUME NEW k \in 1..Len(mail'), mail'[k].re = mail[m].re PROVE k = m
        <5>1. CASE k \in 1..Len(mail)
          BY <1>11, <4>1, <4>2, <5>1
        <5>2. CASE k > Len(mail)
          <6>1. mail'[k].re \in reqs
            BY <1>9, <1>11, <5>2
          <6>2. mail[m].re # mail'[k].re
            BY <1>4, <2>1, <6>1
          <6>3. QED
            BY <4>2, <6>2
        <5>3. QED
          BY <1>3, <5>1, <5>2
      <4>3. mail[m].re \in 1..Len(mail') \ new' /\ mail'[mail[m].re].kind = "request"
        BY <1>3, <1>6, <1>11, <4>1, SMTT(30)
      <4>4. QED
        BY <4>2, <4>3
    <3>3. QED
      BY <3>1, <3>2
  <2>2. CASE m > Len(mail)
    <3>1. m - Len(mail) \in 1..n /\ mail'[m] = order[m - Len(mail)]
      BY <1>11, <2>2
    <3>2. mail'[m].kind = "reply" /\ mail'[m].re \in reqs
      BY <1>9, <3>1
    <3>3. mail'[m].re \in 1..Len(mail) \ new /\ mail[mail'[m].re].kind = "request"
      BY <1>4, <3>2
    <3>4. mail'[m].re \in 1..Len(mail') \ new' /\ mail'[mail'[m].re].kind = "request"
      BY <1>3, <1>6, <1>11, <3>3
    <3>5. ASSUME NEW k \in 1..Len(mail'), mail'[k].re = mail'[m].re PROVE k = m
      <4>1. CASE k \in 1..Len(mail)
        BY <1>4, <1>11, <3>2, <3>5, <4>1
      <4>2. CASE k > Len(mail)
        <5>1. k - Len(mail) \in 1..n /\ mail'[k] = order[k - Len(mail)]
          BY <1>11, <4>2
        <5>2. k - Len(mail) = m - Len(mail)
          BY <1>9, <3>1, <3>5, <5>1
        <5>3. QED
          BY <1>3, <1>6, <1>11, <5>2
      <4>3. QED
        BY <1>3, <4>1, <4>2
    <3>6. mail'[m].re # 0
      BY <1>3, <3>3
    <3>7. QED
      BY <3>2, <3>4, <3>5, <3>6
  <2>3. QED
    BY <1>3, <2>1, <2>2
<1>15. Owed'
  <2> SUFFICES ASSUME NEW v \in Windows, NEW r \in win'[v].reqs
               PROVE  /\ r \in 1..Len(mail') \ new' /\ mail'[r].kind = "request"
                      /\ \A m \in 1..Len(mail') : mail'[m].re # r
                      /\ \A u \in Windows : r \in win'[u].reqs => u = v
    BY DEF Owed
  <2>1. v # w /\ r \in win[v].reqs
    BY <1>3, <1>12, <1>13
  <2>2. /\ r \in 1..Len(mail) \ new /\ mail[r].kind = "request"
        /\ \A m \in 1..Len(mail) : mail[m].re # r
        /\ \A u \in Windows : r \in win[u].reqs => u = v
    BY <2>1 DEF PeerInv, Owed
  <2>3. \A m \in 1..Len(mail') : mail'[m].re # r
    <3> SUFFICES ASSUME NEW m \in 1..Len(mail') PROVE mail'[m].re # r
      OBVIOUS
    <3>1. CASE m \in 1..Len(mail)
      BY <1>11, <2>2, <3>1
    <3>2. CASE m > Len(mail)
      <4>1. mail'[m].re \in reqs
        BY <1>9, <1>11, <3>2
      <4>2. QED
        BY <2>1, <2>2, <4>1
    <3>3. QED
      BY <1>3, <3>1, <3>2
  <2>4. r \in 1..Len(mail') \ new' /\ mail'[r].kind = "request"
    BY <1>3, <1>6, <1>11, <2>2
  <2>5. \A u \in Windows : r \in win'[u].reqs => u = v
    BY <1>3, <1>12, <1>13, <2>2
  <2>6. QED
    BY <2>3, <2>4, <2>5
<1>16. Sent' = Sent /\ Checked' \subseteq Checked
  <2>1. Checked' \subseteq Checked
    BY <1>3, <1>12, <1>13 DEF Checked
  <2>2. \A m \in 1..Len(mail') : m > Len(mail) => mail'[m].kind = "reply"
    BY <1>9, <1>11
  <2>3. \A m \in 1..Len(mail') : mail'[m].kind # "reply" <=> m \in 1..Len(mail) /\ mail[m].kind # "reply"
    BY <1>3, <1>6, <1>11, <2>2
  <2>4. 1..Len(mail) \subseteq 1..Len(mail')
    BY <1>3, <1>6, <1>11
  <2>5. QED
    BY <2>1, <2>3, <2>4 DEF Sent
<1>17. Bounded'
  BY <1>3, <1>16, FewerChecked DEF PeerInv
<1>18. Len(mail') <= 2 * MaxSends
  <2>1. \A m \in 1..Len(mail') : mail'[m].kind = "reply" =>
            /\ mail'[m].re \in 1..Len(mail') /\ mail'[mail'[m].re].kind = "request"
            /\ \A k \in 1..Len(mail') : mail'[k].re = mail'[m].re => k = m
    BY <1>14 DEF Replied
  <2>2. Cardinality(Sent') <= MaxSends
    <3>1. Cardinality(Sent) \in Nat /\ Cardinality(Checked) \in Nat
      BY <1>3, MailIsFinite, FS_CardinalityType DEF PeerInv, Bounded
    <3>2. QED
      BY <1>16, <3>1 DEF PeerInv, Bounded
  <2>3. Cardinality({m \in 1..Len(mail') : mail'[m].kind # "reply"}) <= MaxSends
    BY <2>2 DEF Sent
  <2>4. QED
    BY <1>11, <2>1, <2>3, Room
<1>19. Receipts' /\ new' \subseteq 1..Len(mail')
  BY <1>1, <1>2, <1>10, <1>18, Posted
<1>20. presence' \in [Names -> Presence] /\ PresenceTold'
  BY <1>2, <1>12, AnnounceKeeps
<1>21. PeerTypeOK'
  BY <1>2, <1>3, <1>11, <1>12, <1>13, <1>18, <1>19, <1>20 DEF PeerInv, PeerTypeOK, Fits
<1>22. Asking'
  BY <1>3, <1>12, <1>13 DEF PeerInv, Asking
<1>23. MailGrows
  BY <1>3, <1>6, <1>11 DEF MailGrows
<1>24. QED
  BY <1>23, <1>14, <1>15, <1>17, <1>19, <1>20, <1>21, <1>22 DEF PeerInv

----------------------------------------------------------------------------

LEMMA PeerInitInv == PeerInit => PeerInv
<1> SUFFICES ASSUME PeerInit PROVE PeerInv
  OBVIOUS
<1>1. PeerTypeOK
  BY DEF PeerInit, PeerTypeOK, Nobody, Closed, Presence, Window
<1>2. Checked = {} /\ Sent = {}
  BY DEF PeerInit, Checked, Sent, Closed
<1>3. Bounded
  BY <1>2, FS_EmptySet DEF Bounded
<1>4. QED
  BY <1>1, <1>3
  DEF PeerInit, PeerInv, Receipts, Owed, Replied, Asking, PresenceTold, Closed, Open

LEMMA PeerStepInv == PeerInv /\ [PeerNext]_vars => PeerInv' /\ MailGrows
<1> SUFFICES ASSUME PeerInv, [PeerNext]_vars PROVE PeerInv' /\ MailGrows
  OBVIOUS
<1>1. ASSUME mail' = mail, new' \subseteq new PROVE MailGrows
  BY <1>1 DEF MailGrows, PeerInv, PeerTypeOK
<1>2. ASSUME NEW w \in Windows,
             \/ ClaimChecks(w) \/ ClaimWrites(w) \/ Close(w) \/ Crash(w) \/ Heartbeat(w)
             \/ AskWaits(w) \/ AskGivesUp(w)
      PROVE  PeerInv' /\ MailGrows
  BY <1>1, <1>2, ClaimChecksInv, ClaimWritesInv, CloseInv, HeartbeatInv, AskWaitsInv, AskGivesUpInv
  DEF ClaimChecks, ClaimWrites, Close, Crash, Heartbeat, AskWaits, AskGivesUp
<1>3. ASSUME NEW w \in Windows, UserTurn(w) \/ WakeTurn(w) \/ AskIsAnswered(w)
      PROVE  PeerInv' /\ MailGrows
  BY <1>1, <1>3, DrainedInv, AskIsAnsweredInv
  DEF UserTurn, WakeTurn, AskIsAnswered, Drained, Read
<1>4. ASSUME NEW w \in Windows, NEW n \in Names, AskChecks(w, n)
      PROVE  PeerInv' /\ MailGrows
  BY <1>1, <1>4, AskChecksInv DEF AskChecks
<1>5. ASSUME NEW n \in Names, Sleeps(n)
      PROVE  PeerInv' /\ MailGrows
  BY <1>1, <1>5, SleepsInv DEF Sleeps
<1>6. CASE UNCHANGED vars
  BY <1>1, <1>6 DEF vars, PeerInv, PeerTypeOK, Receipts, Owed, Replied, Bounded, Asking, PresenceTold,
                    Sent, Checked, Open
<1>7. QED
  BY <1>2, <1>3, <1>4, <1>5, <1>6, SendInv, AskSendsInv, EndTurnInv DEF PeerNext

\* The invariant holds of any number of windows, whatever their names.
THEOREM PeerInvariant == PeerSpec => []PeerInv
<1>1. QED
  BY PeerInitInv, PeerStepInv, PTL DEF PeerSpec

\* The record of a window that runs says whom it waits for, although another window may
\* claim its name at any moment.
THEOREM PresenceIsTrue == PeerSpec => []PresenceTold
<1>1. PeerInv => PresenceTold
  BY DEF PeerInv
<1>2. QED
  BY <1>1, PeerInvariant, PTL

\* A request has one reply, or one window that owes it, or neither.
THEOREM RequestAnsweredOnce == PeerSpec => []AnsweredOnce
<1>1. PeerInv => AnsweredOnce
  <2> SUFFICES ASSUME PeerInv, NEW r \in 1..Len(mail)
               PROVE  LET replies == {m \in 1..Len(mail) : mail[m].re = r}
                          owing == {w \in Windows : r \in win[w].reqs}
                      IN  /\ Cardinality(replies) + Cardinality(owing) <= 1
                          /\ replies \cup owing # {} => mail[r].kind = "request" /\ r \notin new
    BY DEF PeerInv, AnsweredOnce
  <2> DEFINE replies == {m \in 1..Len(mail) : mail[m].re = r}
             owing == {w \in Windows : r \in win[w].reqs}
  <2>1. replies \cup owing # {} => mail[r].kind = "request" /\ r \notin new
    BY DEF PeerInv, Owed, Replied
  <2>2. CASE replies = {} /\ owing = {}
    <3>1. Cardinality(replies) = 0 /\ Cardinality(owing) = 0
      BY <2>2, FS_EmptySet
    <3>2. QED
      BY <2>1, <3>1
  <2>3. CASE replies # {}
    <3>1. PICK m \in replies : TRUE
      BY <2>3
    <3>2. replies = {m} /\ owing = {}
      BY <3>1 DEF PeerInv, Owed, Replied
    <3>3. Cardinality(replies) = 1 /\ Cardinality(owing) = 0
      BY <3>2, FS_EmptySet, FS_Singleton
    <3>4. QED
      BY <2>1, <3>3
  <2>4. CASE owing # {}
    <3>1. PICK w \in owing : TRUE
      BY <2>4
    <3>2. owing = {w} /\ replies = {}
      BY <3>1 DEF PeerInv, Owed
    <3>3. Cardinality(owing) = 1 /\ Cardinality(replies) = 0
      BY <3>2, FS_EmptySet, FS_Singleton
    <3>4. QED
      BY <2>1, <3>3
  <2>5. QED
    BY <2>2, <2>3, <2>4
<1>2. QED
  BY <1>1, PeerInvariant, PTL

----------------------------------------------------------------------------
(* The mail implements Delivery                                             *)

\* Where a message is: it is never lost, and never read twice.
Placed ==
    \A m \in Ids : Place(m) = IF m > Len(mail) THEN "unsent"
                              ELSE IF m \in new THEN "queued" ELSE "delivered"

LEMMA PlaceOf == PeerInv => Placed
<1> SUFFICES ASSUME PeerInv, NEW m \in Ids
             PROVE  Place(m) = IF m > Len(mail) THEN "unsent"
                               ELSE IF m \in new THEN "queued" ELSE "delivered"
  BY DEF Placed
<1>1. Len(mail) \in Nat /\ new \subseteq 1..Len(mail) /\ m \in Nat \ {0}
  BY DEF PeerInv, PeerTypeOK
<1>2. CASE m > Len(mail)
  <2>1. m \notin new /\ m \notin 1..Len(mail)
    BY <1>1, <1>2
  <2>2. QED
    BY <1>2, <2>1 DEF Place
<1>3. CASE ~(m > Len(mail)) /\ m \in new
  <2>1. ~(m \in 1..Len(mail) \ new /\ reads[m] = 1)
    BY <1>3
  <2>2. Place(m) = "queued"
    BY <1>3, <2>1, SMT DEF Place
  <2>3. QED
    BY <1>3, <2>2
<1>4. CASE ~(m > Len(mail)) /\ m \notin new
  <2>1. m \in 1..Len(mail) \ new /\ reads[m] = 1
    BY <1>1, <1>4 DEF PeerInv, Receipts
  <2>2. QED
    BY <1>4, <2>1 DEF Place
<1>5. QED
  BY <1>2, <1>3, <1>4

LEMMA MailInit == PeerInit => Box!DeliveryInit
  BY DEF PeerInit, Place, Box!DeliveryInit

LEMMA MailMoves == PeerInv /\ PeerInv' /\ MailGrows => Box!Move
<1> SUFFICES ASSUME PeerInv, PeerInv', MailGrows PROVE Box!Move
  OBVIOUS
<1>1. Placed
  BY PlaceOf
<1>2. Placed'
  BY PlaceOf, PTL
<1>3. [m \in Ids |-> Place(m)]' \in [Ids -> Box!Places]
  BY <1>2 DEF Placed, Box!Places
<1>4. ASSUME NEW m \in Ids
      PROVE  Place(m)' = Place(m) \/ <<Place(m), Place(m)'>> \in Box!Moves
  <2>1. Len(mail) \in Nat /\ Len(mail') \in Nat
    BY DEF PeerInv, PeerTypeOK
  <2>2. QED
    BY <1>1, <1>2, <2>1 DEF Placed, MailGrows, Box!Moves
<1>5. QED
  BY <1>3, <1>4 DEF Box!Move

\* A message that was delivered stays in its mailbox until one reader takes it, over
\* crashes and restarts of either side.
THEOREM MailIsKept == PeerSpec => MailKept
<1>1. PeerInv /\ PeerInv' /\ [PeerNext]_vars => [Box!Move]_[m \in Ids |-> Place(m)]
  BY PeerStepInv, MailMoves
<1>2. QED
  BY <1>1, MailInit, PeerInvariant, PTL DEF PeerSpec, MailKept, Box!DeliverySpec
=============================================================================
