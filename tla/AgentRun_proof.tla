--------------------------- MODULE AgentRun_proof ---------------------------
(***************************************************************************)
(* Safety of AgentRun for any callers, any iteration budget, any number of *)
(* calls per response and any number of runs, from the inductive invariant *)
(* EngineInv.  The pairing lemmas do the work on histories; Handover says  *)
(* that a step of one caller leaves the others where they were.            *)
(***************************************************************************)
EXTENDS AgentRun, TLAPS

----------------------------------------------------------------------------
(* What the appends, the backfill and the compaction of a history do to the *)
(* pairing of its tool calls.                                               *)

LEMMA MessageTypes ==
    /\ UserText \in Message /\ Image \in Message
    /\ \A id \in Nat : ToolResult(id) \in Message
    /\ \A S \in SUBSET Nat : Assistant(S) \in Message
BY DEF UserText, Image, ToolResult, Assistant, Message

LEMMA AppendUses ==
    ASSUME NEW h \in Seq(Message), NEW m \in Message
    PROVE  Uses(Append(h, m)) = Uses(h) \cup m.uses
<1> DEFINE g == Append(h, m)
<1>1. /\ DOMAIN g = DOMAIN h \cup {Len(h) + 1}
      /\ \A i \in DOMAIN h : g[i] = h[i]
      /\ g[Len(h) + 1] = m
  OBVIOUS
<1> QED
  BY <1>1 DEF Uses

\* A history whose rounds are all over grows by a message without tool blocks.
LEMMA AppendPlain ==
    ASSUME NEW h \in Seq(Message), NEW m \in {UserText, Image}, NEW open, PairedExcept(h, open)
    PROVE  PairedExcept(Append(h, m), open)
<1> DEFINE g == Append(h, m)
           n == Len(h)
<1>1. /\ DOMAIN h = 1..n /\ DOMAIN g = 1..(n + 1) /\ Len(g) = n + 1 /\ n \in Nat
      /\ \A i \in 1..n : g[i] = h[i]
      /\ g[n + 1] = m
  OBVIOUS
<1>2. /\ m.role = "user" /\ m.uses = {} /\ m.answers = {}
  BY DEF UserText, Image
<1> HIDE DEF g, n
<1>3. \A i \in 1..n : \A j \in 1..n : SameRound(h, i, j) => SameRound(g, i, j)
  BY <1>1 DEF SameRound
<1>4. \A i \in 1..n : SameRound(h, i, n + 1) => SameRound(g, i, n + 2)
  BY <1>1, <1>2 DEF SameRound
<1>5. Grounded(g)
  BY <1>1, <1>2, <1>3 DEF PairedExcept, Grounded
<1>6. AnsweredOnce(g)
  BY <1>1, <1>2 DEF PairedExcept, AnsweredOnce
<1>7. Answered(g, open)
  BY <1>1, <1>2, <1>3 DEF PairedExcept, Answered
<1>8. OpenIsLast(g, open)
  <2>1. Uses(h) \subseteq Uses(g)
    BY <1>1 DEF Uses
  <2> QED
    BY <1>1, <1>2, <1>4, <2>1 DEF PairedExcept, OpenIsLast, n
<1> QED
  BY <1>5, <1>6, <1>7, <1>8 DEF PairedExcept, g

LEMMA EmptyPaired == Paired(<<>>) /\ <<>> \in Seq(Message) /\ Uses(<<>>) = {}
BY DEF Paired, PairedExcept, Grounded, AnsweredOnce, Answered, OpenIsLast, Uses

\* A user turn, an image or a banner: neither the calls nor the open ones change.
LEMMA UserTurn ==
    ASSUME NEW h \in Seq(Message), NEW m \in {UserText, Image}
    PROVE  /\ Append(h, m) \in Seq(Message)
           /\ Uses(Append(h, m)) = Uses(h)
           /\ Paired(h) => Paired(Append(h, m))
<1>1. m \in Message /\ m.uses = {}
  <2>1. m \in Message
    BY MessageTypes
  <2>2. m.uses = {}
    BY DEF UserText, Image
  <2> QED
    BY <2>1, <2>2
<1>2. Append(h, m) \in Seq(Message)
  BY <1>1
<1>3. Uses(Append(h, m)) = Uses(h)
  BY <1>1, AppendUses
<1>4. PairedExcept(h, {}) => PairedExcept(Append(h, m), {})
  BY AppendPlain
<1> QED
  BY <1>2, <1>3, <1>4 DEF Paired

LEMMA FirstTurn ==
    /\ <<UserText>> \in Seq(Message)
    /\ Uses(<<UserText>>) = {}
    /\ Paired(<<UserText>>)
<1>1. <<UserText>> = Append(<<>>, UserText)
  OBVIOUS
<1> HIDE DEF Paired
<1> QED
  BY <1>1, EmptyPaired, UserTurn

\* An assistant message opens a round: its calls, all of them new, become the open ones.
LEMMA AppendAssistant ==
    ASSUME NEW h \in Seq(Message), NEW S \in SUBSET Nat,
           Paired(h), S \cap Uses(h) = {}
    PROVE  PairedExcept(Append(h, Assistant(S)), S)
<1> DEFINE g == Append(h, Assistant(S))
           n == Len(h)
<1>1. /\ DOMAIN h = 1..n /\ DOMAIN g = 1..(n + 1) /\ Len(g) = n + 1 /\ n \in Nat
      /\ \A i \in 1..n : g[i] = h[i]
      /\ g[n + 1] = Assistant(S)
  OBVIOUS
<1>2. /\ Assistant(S).role = "assistant"
      /\ Assistant(S).uses = S
      /\ Assistant(S).answers = {}
  BY DEF Assistant
<1> HIDE DEF g, n
<1>3. \A i \in 1..n : \A j \in 1..n : SameRound(h, i, j) => SameRound(g, i, j)
  BY <1>1 DEF SameRound
<1>4. \A i \in 1..n : h[i].uses \subseteq Uses(h)
  BY <1>1 DEF Uses
<1>5. Grounded(g)
  BY <1>1, <1>2, <1>3 DEF Paired, PairedExcept, Grounded
<1>6. AnsweredOnce(g)
  BY <1>1, <1>2 DEF Paired, PairedExcept, AnsweredOnce
<1>7. Answered(g, S)
  BY <1>1, <1>2, <1>3 DEF Paired, PairedExcept, Answered
<1>8. OpenIsLast(g, S)
  <2> SUFFICES ASSUME NEW id \in S
               PROVE  /\ id \in Uses(g)
                      /\ \A i \in 1..(n + 1) : id \in g[i].uses => SameRound(g, i, n + 2)
                      /\ \A j \in 1..(n + 1) : id \notin g[j].answers
    BY <1>1 DEF OpenIsLast
  <2>1. id \in Uses(g)
    BY <1>1, <1>2 DEF Uses
  <2>2. \A i \in 1..n : id \notin h[i].uses
    BY <1>4
  <2>3. SameRound(g, n + 1, n + 2)
    BY <1>1 DEF SameRound
  <2>4. \A j \in 1..n : id \notin h[j].answers
    BY <2>2, <1>1 DEF Paired, PairedExcept, Grounded
  <2> QED
    BY <1>1, <1>2, <2>1, <2>2, <2>3, <2>4
<1> QED
  BY <1>5, <1>6, <1>7, <1>8 DEF PairedExcept, g

\* The same, with what it does to the calls.
LEMMA OpenRound ==
    ASSUME NEW h \in Seq(Message), NEW S \in SUBSET Nat,
           Paired(h), S \cap Uses(h) = {}
    PROVE  /\ Append(h, Assistant(S)) \in Seq(Message)
           /\ Uses(Append(h, Assistant(S))) = Uses(h) \cup S
           /\ PairedExcept(Append(h, Assistant(S)), S)
<1>1. Assistant(S) \in Message /\ Assistant(S).uses = S
  BY MessageTypes DEF Assistant
<1>2. Append(h, Assistant(S)) \in Seq(Message)
  BY <1>1
<1>3. Uses(Append(h, Assistant(S))) = Uses(h) \cup S
  BY <1>1, AppendUses
<1> QED
  BY <1>2, <1>3, AppendAssistant

\* A result closes its call.
LEMMA AppendResult ==
    ASSUME NEW h \in Seq(Message), NEW open \in SUBSET Nat, NEW id \in open,
           PairedExcept(h, open)
    PROVE  PairedExcept(Append(h, ToolResult(id)), open \ {id})
<1> DEFINE g == Append(h, ToolResult(id))
           n == Len(h)
<1>1. /\ DOMAIN h = 1..n /\ DOMAIN g = 1..(n + 1) /\ Len(g) = n + 1 /\ n \in Nat
      /\ \A i \in 1..n : g[i] = h[i]
      /\ g[n + 1] = ToolResult(id)
  OBVIOUS
<1>2. /\ ToolResult(id).role = "user"
      /\ ToolResult(id).uses = {}
      /\ ToolResult(id).answers = {id}
  BY DEF ToolResult
<1> HIDE DEF g, n
<1>3. \A i \in 1..n : \A j \in 1..n : SameRound(h, i, j) => SameRound(g, i, j)
  BY <1>1 DEF SameRound
<1>4. \A i \in 1..n : SameRound(h, i, n + 1) => SameRound(g, i, n + 1) /\ SameRound(g, i, n + 2)
  BY <1>1, <1>2 DEF SameRound
<1>5. /\ \A i \in 1..n : id \in h[i].uses => SameRound(h, i, n + 1)
      /\ \A j \in 1..n : id \notin h[j].answers
      /\ \E i \in 1..n : id \in h[i].uses
  <2>1. id \in Uses(h)
    BY DEF PairedExcept, OpenIsLast
  <2> QED
    BY <1>1, <2>1 DEF PairedExcept, OpenIsLast, Uses, n
<1>6. Grounded(g)
  <2> SUFFICES ASSUME NEW j \in 1..(n + 1), NEW x \in g[j].answers
               PROVE  \E i \in 1..(n + 1) : x \in g[i].uses /\ SameRound(g, i, j)
    BY <1>1 DEF Grounded
  <2>1. CASE j \in 1..n
    BY <2>1, <1>1, <1>3 DEF PairedExcept, Grounded
  <2>2. CASE j = n + 1
    BY <2>2, <1>1, <1>2, <1>4, <1>5
  <2> QED
    BY <2>1, <2>2, <1>1
<1>7. AnsweredOnce(g)
  BY <1>1, <1>2, <1>5 DEF PairedExcept, AnsweredOnce
<1>8. Answered(g, open \ {id})
  <2> SUFFICES ASSUME NEW i \in 1..(n + 1), NEW x \in g[i].uses \ (open \ {id})
               PROVE  \E j \in 1..(n + 1) : x \in g[j].answers /\ SameRound(g, i, j)
    BY <1>1 DEF Answered
  <2>1. i \in 1..n /\ x \in h[i].uses
    BY <1>1, <1>2
  <2>2. CASE x = id
    BY <2>1, <2>2, <1>1, <1>2, <1>4, <1>5
  <2>3. CASE x # id
    BY <2>1, <2>3, <1>1, <1>3 DEF PairedExcept, Answered
  <2> QED
    BY <2>2, <2>3
<1>9. OpenIsLast(g, open \ {id})
  <2>1. Uses(h) \subseteq Uses(g)
    BY <1>1 DEF Uses
  <2> QED
    BY <1>1, <1>2, <1>4, <2>1 DEF PairedExcept, OpenIsLast, n
<1> QED
  BY <1>6, <1>7, <1>8, <1>9 DEF PairedExcept, g

LEMMA CloseCall ==
    ASSUME NEW h \in Seq(Message), NEW open \in SUBSET Nat, NEW id \in open,
           PairedExcept(h, open)
    PROVE  /\ Append(h, ToolResult(id)) \in Seq(Message)
           /\ Uses(Append(h, ToolResult(id))) = Uses(h)
           /\ PairedExcept(Append(h, ToolResult(id)), open \ {id})
<1>1. ToolResult(id) \in Message /\ ToolResult(id).uses = {}
  BY MessageTypes DEF ToolResult
<1>2. Append(h, ToolResult(id)) \in Seq(Message)
  BY <1>1
<1>3. Uses(Append(h, ToolResult(id))) = Uses(h)
  BY <1>1, AppendUses
<1> QED
  BY <1>2, <1>3, AppendResult

\* Answering every open call, whatever the order, closes the round.
LEMMA AppendResults ==
    ASSUME NEW h \in Seq(Message), NEW p \in Seq(Nat),
           PairedExcept(h, {p[i] : i \in DOMAIN p}),
           \A i, j \in DOMAIN p : p[i] = p[j] => i = j
    PROVE  LET g == h \o [i \in 1..Len(p) |-> ToolResult(p[i])]
           IN  Paired(g) /\ g \in Seq(Message) /\ Uses(g) = Uses(h)
<1> DEFINE r == [i \in 1..Len(p) |-> ToolResult(p[i])]
           g == h \o r
           n == Len(h)
           q == Len(p)
           open == {p[i] : i \in DOMAIN p}
<1>0. r \in Seq(Message) /\ Len(r) = Len(p)
  BY MessageTypes
<1>1. /\ DOMAIN h = 1..n /\ DOMAIN g = 1..(n + q) /\ n \in Nat /\ q \in Nat
      /\ DOMAIN p = 1..q
      /\ \A i \in 1..n : g[i] = h[i]
      /\ \A i \in 1..q : g[n + i] = ToolResult(p[i])
      /\ g \in Seq(Message)
      /\ Len(g) = n + q
  BY <1>0
<1>2. \A id : /\ ToolResult(id).role = "user"
              /\ ToolResult(id).uses = {}
              /\ ToolResult(id).answers = {id}
  BY DEF ToolResult
<1>a. n \in Nat /\ q \in Nat /\ DOMAIN g = 1..(n + q) /\ DOMAIN h = 1..n
  BY <1>1
<1>b. \A i \in 1..n : g[i] = h[i]
  BY <1>1
<1> HIDE DEF g, n, q, r, open
<1>3. \A j \in 1..(n + q) : j \in 1..n \/ \E i \in 1..q : j = n + i
  <2> SUFFICES ASSUME NEW j \in 1..(n + q), j \notin 1..n
               PROVE  \E i \in 1..q : j = n + i
    OBVIOUS
  <2>1. j - n \in 1..q /\ j = n + (j - n)
    BY <1>a
  <2> QED
    BY <2>1
<1>4. \A i \in 1..q : /\ g[n + i].role = "user" /\ g[n + i].uses = {}
                       /\ g[n + i].answers = {p[i]}
  BY <1>1, <1>2
<1>c. \A i \in 1..n, j \in 1..q : i < n + j /\ i \in 1..(n + q) /\ n + j \in 1..(n + q)
  BY <1>a
<1>5. \A i \in 1..n : \A j \in 1..n : SameRound(h, i, j) => SameRound(g, i, j)
  BY <1>1, SMTT(30) DEF SameRound
<1>6. \A i \in 1..n : \A j \in 1..q : SameRound(h, i, n + 1) => SameRound(g, i, n + j)
  <2> SUFFICES ASSUME NEW i \in 1..n, NEW j \in 1..q, SameRound(h, i, n + 1)
               PROVE  SameRound(g, i, n + j)
    OBVIOUS
  <2> SUFFICES ASSUME NEW m \in 1..(n + q), i < m
               PROVE  g[m].role = "user"
    BY <1>a, <1>c DEF SameRound
  <2>1. i < n + j
    BY <1>c
  <2>2. CASE m \in 1..n
    <3>1. m <= n + 1
      BY <2>2, <1>a
    <3>2. h[m].role = "user"
      BY <2>2, <3>1, <1>a DEF SameRound
    <3> QED
      BY <2>1, <2>2, <3>2, <1>b
  <2>3. CASE \E x \in 1..q : m = n + x
    BY <2>1, <2>3, <1>4
  <2> QED
    BY <2>2, <2>3, <1>3
<1>7. \A i \in 1..q :
         /\ \A x \in 1..n : p[i] \in h[x].uses => SameRound(h, x, n + 1)
         /\ \A j \in 1..n : p[i] \notin h[j].answers
         /\ \E x \in 1..n : p[i] \in h[x].uses
  <2> TAKE i \in 1..q
  <2>1. p[i] \in open
    BY <1>1 DEF open
  <2>2. OpenIsLast(h, open)
    BY DEF PairedExcept, open
  <2>3. p[i] \in Uses(h)
    BY <2>1, <2>2 DEF OpenIsLast
  <2> QED
    BY <2>1, <2>2, <2>3, <1>1 DEF OpenIsLast, Uses, n
<1>8. Grounded(g)
  <2> SUFFICES ASSUME NEW j \in 1..(n + q), NEW x \in g[j].answers
               PROVE  \E i \in 1..(n + q) : x \in g[i].uses /\ SameRound(g, i, j)
    BY <1>1 DEF Grounded
  <2>1. CASE j \in 1..n
    <3>1. PICK i \in 1..n : x \in h[i].uses /\ SameRound(h, i, j)
      BY <2>1, <1>1 DEF PairedExcept, Grounded
    <3> QED
      BY <3>1, <2>1, <1>1, <1>5
  <2>2. CASE \E y \in 1..q : j = n + y
    <3>1. PICK y \in 1..q : j = n + y
      BY <2>2
    <3>2. x = p[y]
      BY <3>1, <1>4
    <3>3. PICK i \in 1..n : x \in h[i].uses /\ SameRound(h, i, n + 1)
      BY <3>2, <1>7
    <3>4. SameRound(g, i, j) /\ x \in g[i].uses
      BY <3>1, <3>3, <1>b, <1>6
    <3> QED
      BY <3>4, <1>c
  <2> QED
    BY <2>1, <2>2, <1>3
<1>9. AnsweredOnce(g)
  <2> SUFFICES ASSUME NEW i \in 1..(n + q), NEW j \in 1..(n + q), i # j,
                      NEW x \in g[i].answers, x \in g[j].answers
               PROVE  FALSE
    BY <1>1 DEF AnsweredOnce
  <2>1. CASE i \in 1..n /\ j \in 1..n
    BY <2>1, <1>1 DEF PairedExcept, AnsweredOnce
  <2>2. ASSUME NEW a \in 1..n, NEW b \in 1..q, x \in g[a].answers, x \in g[n + b].answers
        PROVE  FALSE
    BY <2>2, <1>b, <1>4, <1>7, SMTT(30)
  <2>3. ASSUME NEW a \in 1..q, NEW b \in 1..q, i = n + a, j = n + b
        PROVE  FALSE
    <3>1. x = p[a] /\ x = p[b]
      BY <2>3, <1>4
    <3>2. a = b
      BY <3>1, <1>1
    <3> QED
      BY <3>2, <2>3
  <2> QED
    BY <2>1, <2>2, <2>3, <1>3
<1>10. Answered(g, {})
  <2> SUFFICES ASSUME NEW i \in 1..(n + q), NEW x \in g[i].uses
               PROVE  \E j \in 1..(n + q) : x \in g[j].answers /\ SameRound(g, i, j)
    BY <1>1 DEF Answered
  <2>1. i \in 1..n /\ x \in h[i].uses
    BY <1>1, <1>3, <1>4
  <2>2. CASE x \in open
    <3>1. PICK y \in 1..q : x = p[y]
      BY <2>2, <1>1 DEF open
    <3>2. SameRound(g, i, n + y)
      BY <3>1, <2>1, <1>6, <1>7
    <3>3. n + y \in 1..(n + q)
      BY <1>1
    <3> QED
      BY <3>1, <3>2, <3>3, <1>4
  <2>3. CASE x \notin open
    <3>1. PICK j \in 1..n : x \in h[j].answers /\ SameRound(h, i, j)
      BY <2>1, <2>3, <1>1 DEF PairedExcept, Answered, open
    <3> QED
      BY <3>1, <2>1, <1>1, <1>5
  <2> QED
    BY <2>2, <2>3
<1>11. OpenIsLast(g, {})
  BY DEF OpenIsLast
<1>12. Uses(g) = Uses(h)
  <2>1. Uses(g) \subseteq Uses(h)
    BY <1>1, <1>3, <1>4 DEF Uses
  <2>2. Uses(h) \subseteq Uses(g)
    BY <1>1 DEF Uses
  <2> QED
    BY <2>1, <2>2
<1> QED
  BY <1>1, <1>8, <1>9, <1>10, <1>11, <1>12 DEF Paired, PairedExcept, g, r

\* A cut that separates no call from its answer, given or to come, keeps a history paired;
\* so does a summary in front of the whole history.
LEMMA CutKeepsPairs ==
    ASSUME NEW h \in Seq(Message), NEW open, NEW c \in 1..Len(h), PairedExcept(h, open),
           \A i \in DOMAIN h : i < c =>
              /\ h[i].uses \cap open = {}
              /\ \A j \in DOMAIN h : c <= j => h[i].uses \cap h[j].answers = {}
    PROVE  /\ PairedExcept(CutAt(h, c), open)
           /\ CutAt(h, c) \in Seq(Message)
           /\ Uses(CutAt(h, c)) \subseteq Uses(h)
<1> DEFINE g == CutAt(h, c)
           n == Len(h)
           s == SubSeq(h, c, n)
<1>0. n \in Nat /\ c \in 1..n /\ DOMAIN h = 1..n
  OBVIOUS
<1>1. s \in Seq(Message) /\ Len(s) = n - c + 1 /\ \A i \in 1..(n - c + 1) : s[i] = h[c + i - 1]
  BY <1>0
<1>2. /\ g \in Seq(Message)
      /\ DOMAIN g = 1..(n - c + 2) /\ Len(g) = n - c + 2
      /\ g[1] = UserText
      /\ \A j \in 2..(n - c + 2) : g[j] = h[j + c - 2]
  BY <1>0, <1>1, MessageTypes DEF CutAt
<1>3. UserText.uses = {} /\ UserText.answers = {} /\ UserText.role = "user"
  BY DEF UserText
<1>4. /\ \A a \in 1..(n - c + 2) : a = 1 \/ \E i \in c..n : a + c = i + 2
      /\ \A i \in c..n : \E a \in 2..(n - c + 2) : a + c = i + 2
  <2>1. \A a \in 2..(n - c + 2) : a + c - 2 \in c..n /\ a + c = (a + c - 2) + 2
    BY <1>0
  <2>2. \A i \in c..n : i - c + 2 \in 2..(n - c + 2) /\ (i - c + 2) + c = i + 2
    BY <1>0
  <2>3. \A a \in 1..(n - c + 2) : a = 1 \/ a \in 2..(n - c + 2)
    BY <1>0
  <2> QED
    BY <2>1, <2>2, <2>3
<1>5. \A a \in 1..(n - c + 2), i \in c..n : a + c = i + 2 => g[a] = h[i]
  <2> SUFFICES ASSUME NEW a \in 1..(n - c + 2), NEW i \in c..n, a + c = i + 2
               PROVE  g[a] = h[i]
    OBVIOUS
  <2>1. a \in 2..(n - c + 2) /\ i = a + c - 2
    BY <1>0
  <2> QED
    BY <2>1, <1>2
<1> HIDE DEF g, n, s
<1>6. \A i \in c..n, j \in c..(n + 1), a \in 1..(n - c + 2), b \in 1..(n - c + 3) :
         a + c = i + 2 /\ b + c = j + 2 /\ SameRound(h, i, j) => SameRound(g, a, b)
  <2> SUFFICES ASSUME NEW i \in c..n, NEW j \in c..(n + 1), NEW a \in 1..(n - c + 2),
                      NEW b \in 1..(n - c + 3), a + c = i + 2, b + c = j + 2,
                      SameRound(h, i, j)
               PROVE  SameRound(g, a, b)
    OBVIOUS
  <2>1. a < b
    BY <1>0 DEF SameRound
  <2>2. ASSUME NEW m \in 1..(n - c + 2), a < m, m <= b
        PROVE  g[m].role = "user"
    <3>1. m # 1
      BY <2>2
    <3>2. PICK x \in c..n : m + c = x + 2
      BY <3>1, <1>4
    <3>3. i < x /\ x <= j /\ x \in 1..n
      BY <2>2, <3>2, <1>0
    <3>4. h[x].role = "user"
      BY <3>3, <1>0 DEF SameRound
    <3> QED
      BY <3>2, <3>4, <1>5
  <2> QED
    BY <2>1, <2>2, <1>2 DEF SameRound
<1>s. \A i, j \in c..n, a, b \in 1..(n - c + 2) :
         a + c = i + 2 /\ b + c = j + 2 /\ SameRound(h, i, j) => SameRound(g, a, b)
  <2>1. \A j \in c..n : j \in c..(n + 1)
    BY <1>0
  <2>2. \A b \in 1..(n - c + 2) : b \in 1..(n - c + 3)
    BY <1>0
  <2> QED
    BY <2>1, <2>2, <1>6
<1>7. /\ \A i \in 1..n, j \in c..n : \A x \in h[i].uses : x \in h[j].answers => i \in c..n
      /\ \A i \in 1..n : \A x \in h[i].uses : x \in open => i \in c..n
  BY <1>0
<1>8. \A a \in 1..(n - c + 2) : \A x :
         x \in g[a].uses \cup g[a].answers => \E i \in c..n : a + c = i + 2 /\ g[a] = h[i]
  BY <1>2, <1>3, <1>4, <1>5
<1>9. Grounded(g)
  <2> SUFFICES ASSUME NEW b \in 1..(n - c + 2), NEW x \in g[b].answers
               PROVE  \E a \in 1..(n - c + 2) : x \in g[a].uses /\ SameRound(g, a, b)
    BY <1>2 DEF Grounded
  <2>1. PICK j \in c..n : b + c = j + 2 /\ g[b] = h[j]
    BY <1>8
  <2>2. PICK i \in DOMAIN h : x \in h[i].uses /\ SameRound(h, i, j)
    <3>1. j \in DOMAIN h
      BY <1>0
    <3> QED
      BY <2>1, <3>1 DEF PairedExcept, Grounded
  <2>3. i \in c..n
    BY <2>1, <2>2, <1>0, <1>7
  <2>4. PICK a \in 2..(n - c + 2) : a + c = i + 2
    BY <2>3, <1>4
  <2>5. a \in 1..(n - c + 2)
    BY <1>0
  <2> QED
    BY <2>1, <2>2, <2>3, <2>4, <2>5, <1>5, <1>s
<1>10. AnsweredOnce(g)
  <2> SUFFICES ASSUME NEW a \in 1..(n - c + 2), NEW b \in 1..(n - c + 2), a # b,
                      NEW x \in g[a].answers, x \in g[b].answers
               PROVE  FALSE
    BY <1>2 DEF AnsweredOnce
  <2>1. PICK i \in c..n : a + c = i + 2 /\ g[a] = h[i]
    BY <1>8
  <2>2. PICK j \in c..n : b + c = j + 2 /\ g[b] = h[j]
    BY <1>8
  <2>3. i \in DOMAIN h /\ j \in DOMAIN h /\ i # j
    BY <2>1, <2>2, <1>0
  <2> QED
    BY <2>1, <2>2, <2>3 DEF PairedExcept, AnsweredOnce
<1>11. Answered(g, open)
  <2> SUFFICES ASSUME NEW a \in 1..(n - c + 2), NEW x \in g[a].uses \ open
               PROVE  \E b \in 1..(n - c + 2) : x \in g[b].answers /\ SameRound(g, a, b)
    BY <1>2 DEF Answered
  <2>1. PICK i \in c..n : a + c = i + 2 /\ g[a] = h[i]
    BY <1>8
  <2>2. PICK j \in DOMAIN h : x \in h[j].answers /\ SameRound(h, i, j)
    <3>1. i \in DOMAIN h
      BY <1>0
    <3> QED
      BY <2>1, <3>1 DEF PairedExcept, Answered
  <2>3. j \in c..n
    BY <2>2, <1>0 DEF SameRound
  <2>4. PICK b \in 2..(n - c + 2) : b + c = j + 2
    BY <2>3, <1>4
  <2>5. b \in 1..(n - c + 2)
    BY <1>0
  <2> QED
    BY <2>1, <2>2, <2>3, <2>4, <2>5, <1>5, <1>s
<1>12. OpenIsLast(g, open)
  <2> SUFFICES ASSUME NEW x \in open
               PROVE  /\ \E a \in 1..(n - c + 2) : x \in g[a].uses
                      /\ \A a \in 1..(n - c + 2) : x \in g[a].uses => SameRound(g, a, n - c + 3)
                      /\ \A b \in 1..(n - c + 2) : x \notin g[b].answers
    BY <1>0, <1>2 DEF OpenIsLast, Uses
  <2>1. /\ \E i \in 1..n : x \in h[i].uses
        /\ \A i \in 1..n : x \in h[i].uses => SameRound(h, i, n + 1)
        /\ \A j \in 1..n : x \notin h[j].answers
    BY <1>0 DEF PairedExcept, OpenIsLast, Uses, n
  <2>2. \E a \in 1..(n - c + 2) : x \in g[a].uses
    <3>1. PICK i \in c..n : x \in h[i].uses
      BY <2>1, <1>7
    <3>2. PICK a \in 2..(n - c + 2) : a + c = i + 2
      BY <1>4
    <3>3. a \in 1..(n - c + 2)
      BY <1>0
    <3> QED
      BY <3>1, <3>2, <3>3, <1>5
  <2>3. ASSUME NEW a \in 1..(n - c + 2), x \in g[a].uses
        PROVE  SameRound(g, a, n - c + 3)
    <3>1. PICK i \in c..n : a + c = i + 2 /\ g[a] = h[i]
      BY <2>3, <1>8
    <3>2. i \in 1..n /\ n + 1 \in c..(n + 1) /\ n - c + 3 \in 1..(n - c + 3)
          /\ (n - c + 3) + c = (n + 1) + 2
      BY <1>0
    <3>3. SameRound(h, i, n + 1)
      BY <2>1, <2>3, <3>1, <3>2
    <3> QED
      BY <3>1, <3>2, <3>3, <1>6
  <2>4. ASSUME NEW b \in 1..(n - c + 2), x \in g[b].answers
        PROVE  FALSE
    <3>1. PICK j \in c..n : g[b] = h[j]
      BY <2>4, <1>8
    <3>2. j \in 1..n
      BY <1>0
    <3> QED
      BY <2>1, <2>4, <3>1, <3>2
  <2> QED
    BY <2>2, <2>3, <2>4
<1>13. Uses(g) \subseteq Uses(h)
  <2> SUFFICES ASSUME NEW a \in 1..(n - c + 2), NEW x \in g[a].uses
               PROVE  \E i \in 1..n : x \in h[i].uses
    BY <1>0, <1>2 DEF Uses
  <2>1. PICK i \in c..n : g[a] = h[i]
    BY <1>8
  <2>2. i \in 1..n
    BY <1>0
  <2> QED
    BY <2>1, <2>2
<1> QED
  BY <1>2, <1>9, <1>10, <1>11, <1>12, <1>13 DEF PairedExcept, g

LEMMA CutPaired ==
    ASSUME NEW h \in Seq(Message), NEW open, NEW c \in SafeCuts(h, open), PairedExcept(h, open)
    PROVE  /\ PairedExcept(CutAt(h, c), open)
           /\ CutAt(h, c) \in Seq(Message)
           /\ Uses(CutAt(h, c)) \subseteq Uses(h)
<1>1. c \in 1..Len(h)
  BY DEF SafeCuts
<1>2. \A i \in DOMAIN h : i < c =>
         /\ h[i].uses \cap open = {}
         /\ \A j \in DOMAIN h : c <= j => h[i].uses \cap h[j].answers = {}
  BY DEF SafeCuts
<1>3. QED
  BY <1>1, <1>2, CutKeepsPairs

----------------------------------------------------------------------------
(* The engine.                                                              *)

LEMMA IdsNat ==
    ASSUME NEW s \in Seq(Nat)
    PROVE  Ids(s) \in SUBSET Nat
BY DEF Ids

\* The generator of caller c moved to q; nobody else has one.
LEMMA Handover ==
    ASSUME pc \in [Callers -> Phases], NEW c \in Callers, NEW q \in Phases,
           \A d \in Callers : d # c => pc[d] = "idle",
           pc' = [pc EXCEPT ![c] = q],
           running' = (q # "idle"),
           RoundInv(q)'
    PROVE  SingleFlight' /\ \A d \in Callers : RoundInv(pc[d])'
<1>1. pc'[c] = q /\ \A d \in Callers : d # c => pc'[d] = "idle"
  OBVIOUS
<1>2. RoundInv("idle")'
  BY DEF RoundInv
<1>3. SingleFlight'
  BY <1>1 DEF SingleFlight, Active
<1>4. \A d \in Callers : RoundInv(pc[d])'
  <2> TAKE d \in Callers
  <2>1. CASE d = c
    BY <2>1, <1>1
  <2>2. CASE d # c
    BY <2>2, <1>1, <1>2
  <2> QED
    BY <2>1, <2>2
<1> QED
  BY <1>3, <1>4

\* The caller that moves is the only one with a generator, or there is none.
LEMMA OthersIdle ==
    ASSUME SingleFlight, NEW c \in Callers, pc[c] # "idle" \/ ~running
    PROVE  /\ \A d \in Callers : d # c => pc[d] = "idle"
           /\ pc[c] # "idle" => running = TRUE
BY DEF SingleFlight, Active

LEMMA InitInv == Init => EngineInv
<1> SUFFICES ASSUME Init PROVE EngineInv
  OBVIOUS
<1> USE EngineAssumption DEF Init
<1>1. TypeOK
  <2>1. history \in Seq(Message) /\ calls \in Seq(Nat) /\ k \in 0..Len(calls)
    OBVIOUS
  <2>2. pc \in [Callers -> Phases] /\ outcome \in [Callers -> Outcomes]
    BY DEF Phases, Outcomes
  <2>3. running \in BOOLEAN /\ reply \in {"none", "failed", "final", "calls"}
        /\ nextId \in Nat /\ cards \in SUBSET Nat
    OBVIOUS
  <2>4. iter \in 0..MaxIterations /\ runs \in 0..MaxRuns
    OBVIOUS
  <2> QED
    BY <2>1, <2>2, <2>3, <2>4 DEF TypeOK
<1>2. SingleFlight
  BY DEF SingleFlight, Active
<1>3. IdsFresh
  BY DEF IdsFresh, Uses, Ids
<1>4. \A c \in Callers : RoundInv(pc[c])
  BY DEF RoundInv
<1> QED
  BY <1>1, <1>2, <1>3, <1>4 DEF EngineInv

LEMMA PendingIds ==
    ASSUME calls \in Seq(Nat), k \in 0..Len(calls), k > 0
    PROVE  /\ calls[k] \in Nat
           /\ calls[k] \in Pending(k)
           /\ Pending(k) \in SUBSET Nat
           /\ Pending(k) = {calls[k]} \cup Pending(k + 1)
           /\ (\A i, j \in DOMAIN calls : calls[i] = calls[j] => i = j)
                 => Pending(k) \ {calls[k]} = Pending(k + 1)
<1>1. \A i \in k..Len(calls) : i = k \/ i \in (k + 1)..Len(calls)
  OBVIOUS
<1>2. \A i \in (k + 1)..Len(calls) : i \in k..Len(calls) /\ i # k /\ i \in DOMAIN calls
  OBVIOUS
<1>3. k \in k..Len(calls) /\ k \in DOMAIN calls /\ \A i \in k..Len(calls) : i \in DOMAIN calls
  OBVIOUS
<1> QED
  BY <1>1, <1>2, <1>3 DEF Pending

----------------------------------------------------------------------------
(* A step of caller c that moves its generator to q preserves EngineInv when *)
(* it preserves the parts that do not depend on who moved.                   *)
LEMMA MovePreserves ==
    ASSUME EngineInv, NEW c \in Callers, NEW q \in Phases,
           pc[c] # "idle" \/ ~running,
           pc' = [pc EXCEPT ![c] = q],
           running' = (q # "idle"),
           TypeOK', IdsFresh', RoundInv(q)'
    PROVE  EngineInv'
<1>1. \A d \in Callers : d # c => pc[d] = "idle"
  BY OthersIdle DEF EngineInv
<1>2. SingleFlight' /\ \A d \in Callers : RoundInv(pc[d])'
  BY <1>1, Handover DEF EngineInv, TypeOK
<1> QED
  BY <1>2 DEF EngineInv

LEMMA PhaseFacts ==
    /\ Phases = {"before", "llm", "gate", "handler", "loop", "stepped", "started",
                 "answered", "ended", "idle", "abandoned"}
    /\ \A c \in Callers, o \in Outcomes :
          outcome \in [Callers -> Outcomes] => [outcome EXCEPT ![c] = o] \in [Callers -> Outcomes]
    /\ \A c \in Callers, p \in Phases :
          pc \in [Callers -> Phases] => [pc EXCEPT ![c] = p] \in [Callers -> Phases]
BY DEF Phases, Awaits, Yields

LEMMA StutterInv == EngineInv /\ UNCHANGED vars => EngineInv'
<1> SUFFICES ASSUME EngineInv, UNCHANGED vars PROVE EngineInv'
  OBVIOUS
<1> USE DEF vars, EngineInv
<1>1. TypeOK'
  BY DEF TypeOK
<1>2. SingleFlight'
  BY DEF SingleFlight, Active
<1>3. IdsFresh'
  BY DEF IdsFresh, Ids
<1>4. \A c \in Callers : RoundInv(pc[c])'
  BY DEF RoundInv, Pending, Ids
<1> QED
  BY <1>1, <1>2, <1>3, <1>4

LEMMA UsesNat ==
    ASSUME NEW h \in Seq(Message)
    PROVE  Uses(h) \in SUBSET Nat
<1>1. \A i \in DOMAIN h : h[i] \in Message
  OBVIOUS
<1>2. \A m \in Message : m.uses \in SUBSET Nat
  BY DEF Message
<1> QED
  BY <1>1, <1>2 DEF Uses

\* A cancellation inside a round answers what is still open.
LEMMA CancelPairs ==
    ASSUME EngineInv, NEW c \in Callers, pc[c] \in {"gate", "handler"}
    PROVE  LET h == Backfill(history, SubSeq(calls, k, Len(calls)))
           IN  Paired(h) /\ h \in Seq(Message) /\ Uses(h) = Uses(history)
<1> DEFINE p == SubSeq(calls, k, Len(calls))
<1>1. /\ k \in 1..Len(calls) /\ calls \in Seq(Nat) /\ history \in Seq(Message)
      /\ PairedExcept(history, Pending(k))
      /\ \A i, j \in DOMAIN calls : calls[i] = calls[j] => i = j
  BY DEF EngineInv, TypeOK, RoundInv, IdsFresh
<1>2. /\ p \in Seq(Nat) /\ Len(p) = Len(calls) - k + 1
      /\ DOMAIN p = 1..(Len(calls) - k + 1)
      /\ \A i \in 1..(Len(calls) - k + 1) : p[i] = calls[k + i - 1] /\ k + i - 1 \in DOMAIN calls
  BY <1>1
<1>3. {p[i] : i \in DOMAIN p} = Pending(k)
  <2>1. \A i \in k..Len(calls) : i - k + 1 \in 1..(Len(calls) - k + 1) /\ k + (i - k + 1) - 1 = i
    BY <1>1
  <2>2. \A i \in 1..(Len(calls) - k + 1) : k + i - 1 \in k..Len(calls)
    BY <1>1
  <2>3. \A i \in k..Len(calls) : \E j \in DOMAIN p : p[j] = calls[i]
    BY <1>2, <2>1
  <2>4. \A j \in DOMAIN p : \E i \in k..Len(calls) : p[j] = calls[i]
    BY <1>2, <2>2
  <2>5. {p[j] : j \in DOMAIN p} \subseteq {calls[i] : i \in k..Len(calls)}
    BY <2>4
  <2>6. {calls[i] : i \in k..Len(calls)} \subseteq {p[j] : j \in DOMAIN p}
    BY <2>3
  <2>7. Pending(k) = {calls[i] : i \in k..Len(calls)}
    BY DEF Pending
  <2> HIDE DEF p
  <2> QED
    BY <2>5, <2>6, <2>7
<1> HIDE DEF p
<1>4. \A i, j \in DOMAIN p : p[i] = p[j] => i = j
  <2> SUFFICES ASSUME NEW i \in DOMAIN p, NEW j \in DOMAIN p, p[i] = p[j] PROVE i = j
    OBVIOUS
  <2>1. i \in 1..(Len(calls) - k + 1) /\ j \in 1..(Len(calls) - k + 1)
    BY <1>2
  <2>2. p[i] = calls[k + i - 1] /\ k + i - 1 \in DOMAIN calls
    BY <1>2, <2>1
  <2>3. p[j] = calls[k + j - 1] /\ k + j - 1 \in DOMAIN calls
    BY <1>2, <2>1
  <2>4. k + i - 1 = k + j - 1
    BY <1>1, <2>2, <2>3
  <2>5. i \in Nat /\ j \in Nat /\ k \in Nat
    BY <1>1, <2>1
  <2> QED
    BY <2>4, <2>5
<1>5. PairedExcept(history, {p[i] : i \in DOMAIN p})
  BY <1>1, <1>3
<1>6. LET h == history \o [i \in 1..Len(p) |-> ToolResult(p[i])]
      IN  Paired(h) /\ h \in Seq(Message) /\ Uses(h) = Uses(history)
  BY <1>1, <1>2, <1>4, <1>5, AppendResults
<1> QED
  BY <1>6 DEF Backfill, p

\* A run begins with any paired history whose ids the provider has used before.
LEMMA StartInv ==
    ASSUME EngineInv, NEW c \in Callers, NEW messages \in Seq(Message), Paired(messages),
           \A id \in Uses(messages) : id < nextId,
           StartWith(c, messages)
    PROVE  EngineInv'
<1> USE EngineAssumption
<1>1. TypeOK /\ history' = messages
  BY DEF EngineInv, StartWith
<1>2. RoundInv("loop")'
  BY <1>1 DEF StartWith, FreshLocals, RoundInv
<1>3. IdsFresh'
  BY <1>1 DEF StartWith, FreshLocals, IdsFresh, Ids
<1>4. TypeOK'
  BY <1>1, PhaseFacts DEF StartWith, Goto, FreshLocals, TypeOK, Outcomes
<1>5. QED
  BY <1>2, <1>3, <1>4, MovePreserves, PhaseFacts DEF StartWith, Goto

LEMMA StepInv == EngineInv /\ [Next]_vars => EngineInv'
<1> SUFFICES ASSUME EngineInv, [Next]_vars PROVE EngineInv'
  OBVIOUS
<1>0. CASE UNCHANGED vars
  BY <1>0, StutterInv
<1> SUFFICES ASSUME NEW c \in Callers,
                    Start(c) \/ Refuse(c) \/ Advance(c) \/ Compact(c) \/ Raise(c) \/ Cancel(c) \/ Abandon(c)
             PROVE  EngineInv'
  BY <1>0 DEF Next
<1> USE EngineAssumption
<1>t. TypeOK /\ IdsFresh /\ RoundInv(pc[c]) /\ SingleFlight
  BY DEF EngineInv
<1>r. pc[c] # "idle" => running = TRUE
  BY <1>t, OthersIdle
<1>u. UserText \in Message /\ UserText.uses = {}
  BY MessageTypes DEF UserText
<1>i. Uses(history) \in SUBSET Nat /\ Ids(calls) \in SUBSET Nat
  BY <1>t, IdsNat, UsesNat DEF TypeOK
<1>1. CASE Start(c)
  <2>1. PICK messages \in Messages : StartWith(c, messages)
    BY <1>1 DEF Start
  <2>2. history \in Seq(Message)
    BY <1>t DEF TypeOK
  <2>3. messages \in Seq(Message) /\ Paired(messages) /\ Uses(messages) \subseteq Uses(history)
    <3>1. CASE messages = <<UserText>>
      BY <3>1, FirstTurn
    <3>2. CASE Paired(history) /\ messages = Append(history, UserText)
      BY <2>2, <3>2, UserTurn
    <3>3. QED
      BY <2>1, <3>1, <3>2 DEF Messages
  <2>4. QED
    BY <1>t, <2>1, <2>3, StartInv DEF IdsFresh
<1>2. CASE Refuse(c)
  <2> USE <1>2 DEF Refuse
  <2>1. TypeOK'
    BY <1>t, PhaseFacts DEF TypeOK, Outcomes
  <2>2. SingleFlight'
    BY <1>t DEF SingleFlight, Active
  <2>3. IdsFresh'
    BY <1>t DEF IdsFresh, Ids
  <2>4. \A d \in Callers : RoundInv(pc[d])'
    BY DEF EngineInv, RoundInv, Pending, Ids
  <2> QED
    BY <2>1, <2>2, <2>3, <2>4 DEF EngineInv
<1>3. CASE BeginIteration(c)
  <2>1. TypeOK'
    BY <1>3, <1>t, PhaseFacts DEF BeginIteration, Goto, TypeOK
  <2>2. IdsFresh'
    BY <1>3, <1>t DEF BeginIteration, IdsFresh, Ids
  <2>3. RoundInv("before")'
    BY <1>3, <1>t DEF BeginIteration, RoundInv
  <2> QED
    BY <1>3, <1>r, <2>1, <2>2, <2>3, MovePreserves, PhaseFacts DEF BeginIteration, Goto
<1>4. CASE GiveUp(c)
  <2>1. TypeOK'
    BY <1>4, <1>t, PhaseFacts DEF GiveUp, Goto, TypeOK, Outcomes
  <2>2. IdsFresh'
    BY <1>4, <1>t DEF GiveUp, IdsFresh, Ids
  <2>3. RoundInv("ended")'
    BY <1>4, <1>t DEF GiveUp, RoundInv
  <2> QED
    BY <1>4, <1>r, <2>1, <2>2, <2>3, MovePreserves, PhaseFacts DEF GiveUp, Goto
<1>5. CASE ApplyBeforeLlm(c)
  <2>1. /\ history' \in Seq(Message)
        /\ Paired(history')
        /\ Uses(history') \subseteq Uses(history)
    <3>1. history \in Seq(Message) /\ Paired(history)
      BY <1>5, <1>t DEF ApplyBeforeLlm, HooksReturn, RoundInv, TypeOK
    <3>2. CASE history' = history
      BY <3>1, <3>2
    <3>3. CASE \E cut \in SafeCuts(history, {}) : history' = CutAt(history, cut)
      BY <3>1, <3>3, CutPaired DEF Paired
    <3> QED
      BY <1>5, <3>2, <3>3 DEF ApplyBeforeLlm, HooksReturn
  <2>2. TypeOK'
    BY <1>5, <1>t, <2>1, PhaseFacts DEF ApplyBeforeLlm, HooksReturn, Goto, TypeOK
  <2>3. IdsFresh'
    BY <1>5, <1>t, <2>1 DEF ApplyBeforeLlm, HooksReturn, IdsFresh, Ids
  <2>4. RoundInv("llm")'
    BY <1>5, <1>t, <2>1 DEF ApplyBeforeLlm, HooksReturn, RoundInv
  <2> QED
    BY <1>5, <1>r, <2>2, <2>3, <2>4, MovePreserves, PhaseFacts DEF ApplyBeforeLlm, HooksReturn, Goto
<1>6. CASE LlmStreamEnds(c)
  <2>0. k = 0 /\ cards = {} /\ Paired(history)
    BY <1>6, <1>t DEF LlmStreamEnds, RoundInv
  <2>1. CASE reply' \in {"failed", "final"} /\ calls' = <<>> /\ UNCHANGED nextId
    <3>1. TypeOK'
      <4>1. calls' \in Seq(Nat) /\ k' \in 0..Len(calls')
        BY <1>6, <2>0, <2>1 DEF LlmStreamEnds
      <4> QED
        BY <1>6, <2>1, <4>1, <1>t, PhaseFacts DEF LlmStreamEnds, Goto, TypeOK
    <3>2. IdsFresh'
      BY <1>6, <2>1, <1>t DEF LlmStreamEnds, IdsFresh, Ids
    <3>3. RoundInv("stepped")'
      BY <1>6, <2>0, <2>1 DEF LlmStreamEnds, RoundInv
    <3> QED
      BY <1>6, <1>r, <3>1, <3>2, <3>3, MovePreserves, PhaseFacts DEF LlmStreamEnds, Goto
  <2>2. ASSUME NEW n \in 1..MaxCalls,
               reply' = "calls",
               calls' = [i \in 1..n |-> nextId + i - 1],
               nextId' = nextId + n
        PROVE  EngineInv'
    <3>0. nextId \in Nat /\ n \in Nat /\ n > 0
      BY <1>t DEF TypeOK
    <3>1. calls' \in Seq(Nat) /\ Len(calls') = n /\ DOMAIN calls' = 1..n
      BY <2>2, <3>0
    <3>2. \A i \in 1..n : calls'[i] >= nextId /\ calls'[i] < nextId' /\ calls'[i] \in Nat
      BY <2>2, <3>0
    <3>3. \A i, j \in 1..n : calls'[i] = calls'[j] => i = j
      BY <2>2, <3>0
    <3>4. TypeOK'
      <4>1. k' \in 0..Len(calls')
        BY <1>6, <2>0, <3>0, <3>1 DEF LlmStreamEnds
      <4> QED
        BY <1>6, <2>2, <3>0, <3>1, <4>1, <1>t, PhaseFacts DEF LlmStreamEnds, Goto, TypeOK
    <3>5. \A id \in Uses(history) : id \in Nat /\ id < nextId
      BY <1>t, <1>i DEF IdsFresh
    <3>6. history' = history
      BY <1>6 DEF LlmStreamEnds
    <3>7. IdsFresh'
      <4>1. \A id \in Uses(history) : id < nextId'
        BY <3>5, <3>0, <2>2
      <4>2. \A id \in Ids(calls') : id < nextId'
        BY <3>1, <3>2 DEF Ids
      <4> QED
        BY <3>1, <3>3, <3>6, <4>1, <4>2 DEF IdsFresh
    <3>8. Ids(calls') \cap Uses(history) = {}
      <4> SUFFICES ASSUME NEW id \in Ids(calls'), id \in Uses(history) PROVE FALSE
        OBVIOUS
      <4>1. id >= nextId
        BY <3>1, <3>2 DEF Ids
      <4> QED
        BY <3>0, <3>5, <4>1
    <3>9. RoundInv("stepped")'
      BY <1>6, <2>0, <3>0, <3>1, <3>6, <3>8 DEF LlmStreamEnds, RoundInv
    <3> QED
      BY <1>6, <1>r, <3>4, <3>7, <3>9, MovePreserves, PhaseFacts DEF LlmStreamEnds, Goto
  <2> QED
    BY <1>6, <2>1, <2>2 DEF LlmStreamEnds
<1>7. CASE IterationFailed(c)
  <2>1. TypeOK'
    BY <1>7, <1>t, PhaseFacts DEF IterationFailed, Goto, TypeOK, Outcomes
  <2>2. IdsFresh'
    BY <1>7, <1>t DEF IterationFailed, IdsFresh, Ids
  <2>3. RoundInv("ended")'
    BY <1>7, <1>t DEF IterationFailed, RoundInv
  <2> QED
    BY <1>7, <1>r, <2>1, <2>2, <2>3, MovePreserves, PhaseFacts DEF IterationFailed, Goto
<1>8. CASE IterationFinal(c)
  <2>1. /\ history' \in Seq(Message)
        /\ Paired(history')
        /\ Uses(history') = Uses(history)
    <3>1. history \in Seq(Message) /\ Paired(history)
      BY <1>8, <1>t DEF IterationFinal, RoundInv, TypeOK
    <3>2. {} \in SUBSET Nat /\ {} \cap Uses(history) = {} /\ Uses(history) \cup {} = Uses(history)
      OBVIOUS
    <3>3. history' = Append(history, Assistant({}))
      BY <1>8 DEF IterationFinal
    <3>4. PairedExcept(history', {}) /\ history' \in Seq(Message) /\ Uses(history') = Uses(history) \cup {}
      BY <3>1, <3>2, <3>3, OpenRound
    <3> QED
      BY <3>2, <3>4 DEF Paired
  <2>2. TypeOK'
    BY <1>8, <1>t, <2>1, PhaseFacts DEF IterationFinal, Goto, TypeOK, Outcomes
  <2>3. IdsFresh'
    BY <1>8, <1>t, <2>1 DEF IterationFinal, IdsFresh, Ids
  <2>4. RoundInv("ended")'
    BY <1>8, <1>t, <2>1 DEF IterationFinal, RoundInv
  <2> QED
    BY <1>8, <1>r, <2>2, <2>3, <2>4, MovePreserves, PhaseFacts DEF IterationFinal, Goto
<1>9. CASE DispatchCalls(c)
  <2>1. /\ history \in Seq(Message) /\ Paired(history) /\ cards = {}
        /\ Len(calls) > 0 /\ Ids(calls) \cap Uses(history) = {} /\ calls \in Seq(Nat)
    BY <1>9, <1>t DEF DispatchCalls, RoundInv, TypeOK
  <2>2. /\ history' = Append(history, Assistant(Ids(calls)))
        /\ k' = 1 /\ calls' = calls /\ nextId' = nextId /\ cards' = cards
    BY <1>9 DEF DispatchCalls
  <2>3. /\ history' \in Seq(Message)
        /\ Uses(history') = Uses(history) \cup Ids(calls)
        /\ PairedExcept(history', Ids(calls))
    BY <2>1, <2>2, <1>i, OpenRound
  <2>4. Pending(1) = Ids(calls)
    BY <2>1 DEF Pending, Ids
  <2>5. Pending(k)' = Pending(1)
    BY <2>2 DEF Pending
  <2>6. TypeOK'
    <3>1. k' \in 0..Len(calls')
      BY <2>1, <2>2
    <3> QED
      BY <1>9, <1>t, <2>3, <3>1, PhaseFacts DEF DispatchCalls, Goto, TypeOK
  <2>7. IdsFresh'
    BY <1>t, <2>2, <2>3 DEF IdsFresh, Ids
  <2>8. RoundInv("gate")'
    BY <2>1, <2>2, <2>3, <2>4, <2>5 DEF RoundInv
  <2> QED
    BY <1>9, <1>r, <2>6, <2>7, <2>8, MovePreserves, PhaseFacts DEF DispatchCalls, Goto
<1>c. ASSUME pc[c] \in {"gate", "started", "handler"}
      PROVE  LET h == Append(history, ToolResult(calls[k]))
             IN  /\ k \in 1..Len(calls)
                 /\ h \in Seq(Message)
                 /\ Uses(h) = Uses(history)
                 /\ PairedExcept(h, Pending(k + 1))
  <2>1. /\ k > 0 /\ PairedExcept(history, Pending(k))
        /\ k \in 0..Len(calls) /\ calls \in Seq(Nat) /\ history \in Seq(Message)
    BY <1>c, <1>t DEF RoundInv, TypeOK
  <2>2. \A i, j \in DOMAIN calls : calls[i] = calls[j] => i = j
    BY <1>t DEF IdsFresh
  <2>3. /\ calls[k] \in Pending(k) /\ Pending(k) \in SUBSET Nat
        /\ Pending(k) \ {calls[k]} = Pending(k + 1)
    BY <2>1, <2>2, PendingIds
  <2>4. k \in 1..Len(calls)
    BY <2>1
  <2> QED
    BY <2>1, <2>3, <2>4, CloseCall
<1>10. CASE AnswerUnrun(c)
  <2>1. /\ pc[c] = "gate" /\ history' = Append(history, ToolResult(calls[k]))
        /\ k' = k /\ calls' = calls /\ nextId' = nextId /\ cards' = cards
    BY <1>10 DEF AnswerUnrun
  <2>2. /\ k \in 1..Len(calls) /\ history' \in Seq(Message)
        /\ Uses(history') = Uses(history) /\ PairedExcept(history', Pending(k + 1))
    BY <2>1, <1>c
  <2>3. Pending(k + 1)' = Pending(k + 1)
    BY <2>1 DEF Pending
  <2>4. TypeOK'
    BY <1>10, <1>t, <2>2, PhaseFacts DEF AnswerUnrun, Goto, TypeOK
  <2>5. IdsFresh'
    BY <1>t, <2>1, <2>2 DEF IdsFresh, Ids
  <2>6. RoundInv("answered")'
    BY <1>t, <2>1, <2>2, <2>3 DEF RoundInv
  <2> QED
    BY <1>10, <1>r, <2>4, <2>5, <2>6, MovePreserves, PhaseFacts DEF AnswerUnrun, Goto
<1>11. CASE AllowCall(c)
  <2>1. /\ pc[c] = "gate" /\ k' = k /\ calls' = calls /\ nextId' = nextId /\ history' = history
        /\ cards' = cards \cup {calls[k]}
    BY <1>11 DEF AllowCall
  <2>2. k > 0 /\ cards = {} /\ PairedExcept(history, Pending(k)) /\ calls[k] \in Nat
    <3>1. k > 0 /\ cards = {} /\ PairedExcept(history, Pending(k))
      BY <2>1, <1>t DEF RoundInv
    <3> QED
      BY <3>1, <1>t, PendingIds DEF TypeOK
  <2>3. Pending(k)' = Pending(k)
    BY <2>1 DEF Pending
  <2>4. TypeOK'
    BY <1>11, <1>t, <2>1, <2>2, PhaseFacts DEF AllowCall, Goto, TypeOK
  <2>5. IdsFresh'
    BY <1>t, <2>1 DEF IdsFresh, Ids
  <2>6. RoundInv("started")'
    BY <2>1, <2>2, <2>3 DEF RoundInv
  <2> QED
    BY <1>11, <1>r, <2>4, <2>5, <2>6, MovePreserves, PhaseFacts DEF AllowCall, Goto
<1>12. CASE InvokeHandler(c)
  <2>1. TypeOK'
    BY <1>12, <1>t, PhaseFacts DEF InvokeHandler, Goto, TypeOK
  <2>2. IdsFresh'
    BY <1>12, <1>t DEF InvokeHandler, IdsFresh, Ids
  <2>3. RoundInv("handler")'
    BY <1>12, <1>t DEF InvokeHandler, RoundInv, Pending
  <2> QED
    BY <1>12, <1>r, <2>1, <2>2, <2>3, MovePreserves, PhaseFacts DEF InvokeHandler, Goto
<1>13. CASE AnswerCall(c)
  <2> DEFINE h == Append(history, ToolResult(calls[k]))
  <2>1. /\ pc[c] = "handler" /\ history' \in {h, Append(h, Image)}
        /\ k' = k /\ calls' = calls /\ nextId' = nextId /\ cards' = cards \ {calls[k]}
    BY <1>13 DEF AnswerCall
  <2>2. /\ k \in 1..Len(calls) /\ h \in Seq(Message)
        /\ Uses(h) = Uses(history) /\ PairedExcept(h, Pending(k + 1))
    BY <2>1, <1>c
  <2>3. cards = {calls[k]}
    BY <2>1, <1>t DEF RoundInv
  <2> HIDE DEF h
  <2>4. /\ history' \in Seq(Message)
        /\ Uses(history') = Uses(history)
        /\ PairedExcept(history', Pending(k + 1))
    <3>1. CASE history' = h
      BY <3>1, <2>2
    <3>2. CASE history' = Append(h, Image)
      BY <3>2, <2>2, UserTurn, AppendPlain
    <3> QED
      BY <2>1, <3>1, <3>2
  <2>5. Pending(k + 1)' = Pending(k + 1)
    BY <2>1 DEF Pending
  <2>6. TypeOK'
    BY <1>13, <1>t, <2>1, <2>2, <2>4, PhaseFacts DEF AnswerCall, Goto, TypeOK
  <2>7. IdsFresh'
    BY <1>t, <2>1, <2>4 DEF IdsFresh, Ids
  <2>8. RoundInv("answered")'
    BY <2>1, <2>2, <2>3, <2>4, <2>5 DEF RoundInv
  <2> QED
    BY <1>13, <1>r, <2>6, <2>7, <2>8, MovePreserves, PhaseFacts DEF AnswerCall, Goto
<1>14. CASE NextCall(c)
  <2>1. /\ pc[c] = "answered" /\ calls' = calls /\ nextId' = nextId /\ cards' = cards
        /\ history' = history
    BY <1>14 DEF NextCall
  <2>2. k > 0 /\ k \in 0..Len(calls) /\ cards = {} /\ PairedExcept(history, Pending(k + 1))
        /\ calls \in Seq(Nat)
    BY <2>1, <1>t DEF RoundInv, TypeOK
  <2>3. IdsFresh'
    BY <2>1, <1>t DEF IdsFresh, Ids
  <2>4. CASE k < Len(calls) /\ k' = k + 1 /\ Goto(c, "gate")
    <3>1. Pending(k)' = Pending(k + 1)
      BY <2>1, <2>4 DEF Pending
    <3>2. TypeOK'
      <4>1. k' \in 0..Len(calls')
        BY <2>1, <2>2, <2>4
      <4> QED
        BY <1>14, <2>4, <4>1, <1>t, PhaseFacts DEF NextCall, Goto, TypeOK
    <3>3. RoundInv("gate")'
      BY <2>1, <2>2, <2>4, <3>1 DEF RoundInv
    <3> QED
      BY <1>14, <2>3, <2>4, <1>r, <3>2, <3>3, MovePreserves, PhaseFacts DEF NextCall, Goto
  <2>5. CASE k = Len(calls) /\ k' = 0 /\ Goto(c, "loop")
    <3>1. Pending(k + 1) = {}
      BY <2>2, <2>5 DEF Pending
    <3>2. Paired(history)
      BY <2>2, <3>1 DEF Paired
    <3>3. TypeOK'
      <4>1. k' \in 0..Len(calls')
        BY <2>1, <2>2, <2>5
      <4> QED
        BY <1>14, <2>5, <4>1, <1>t, PhaseFacts DEF NextCall, Goto, TypeOK
    <3>4. RoundInv("loop")'
      BY <2>1, <2>2, <2>5, <3>2 DEF RoundInv
    <3> QED
      BY <1>14, <2>3, <2>5, <1>r, <3>3, <3>4, MovePreserves, PhaseFacts DEF NextCall, Goto
  <2> QED
    BY <1>14, <2>4, <2>5 DEF NextCall
\* Every way out of a run clears its locals.
<1>x. ASSUME NEW how \in Outcomes, Leave(c, how), pc[c] # "idle", nextId' = nextId,
             runs' = runs, history' \in Seq(Message), Uses(history') \subseteq Uses(history)
      PROVE  EngineInv'
  <2>1. TypeOK'
    <3>1. /\ pc' \in [Callers -> Phases] /\ outcome' \in [Callers -> Outcomes]
          /\ running' \in BOOLEAN /\ nextId' \in Nat /\ runs' \in 0..MaxRuns
      BY <1>x, <1>t, PhaseFacts DEF Leave, Goto, TypeOK
    <3>2. calls' \in Seq(Nat) /\ k' \in 0..Len(calls')
      BY <1>x DEF Leave, FreshLocals
    <3>3. iter' \in 0..MaxIterations /\ cards' \in SUBSET Nat
          /\ reply' \in {"none", "failed", "final", "calls"}
      BY <1>x DEF Leave, FreshLocals, EngineAssumption
    <3> QED
      BY <1>x, <3>1, <3>2, <3>3 DEF TypeOK
  <2>2. IdsFresh'
    BY <1>x, <1>t DEF Leave, FreshLocals, IdsFresh, Ids
  <2>3. RoundInv("idle")'
    BY DEF RoundInv
  <2> QED
    BY <1>x, <2>1, <2>2, <2>3, MovePreserves, PhaseFacts DEF Leave, Goto
<1>h. history \in Seq(Message) /\ outcome[c] \in Outcomes
  BY <1>t DEF TypeOK
<1>15. CASE Finish(c)
  BY <1>15, <1>x, <1>h DEF Finish
<1>16. CASE Finalize(c)
  BY <1>16, <1>x, <1>h DEF Finalize
<1>17. CASE Raise(c)
  BY <1>17, <1>x, <1>h DEF Raise, Outcomes
<1>18. CASE Cancel(c)
  <2>1. history' \in Seq(Message) /\ Uses(history') \subseteq Uses(history)
    <3>1. CASE pc[c] \in {"gate", "handler"}
      BY <3>1, <1>18, CancelPairs DEF Cancel, EngineInv
    <3>2. CASE pc[c] \notin {"gate", "handler"}
      BY <3>2, <1>18, <1>h DEF Cancel
    <3> QED
      BY <3>1, <3>2
  <2> QED
    BY <1>18, <2>1, <1>x DEF Cancel, Awaits, Outcomes
<1>19. CASE Abandon(c)
  <2>1. TypeOK'
    BY <1>19, <1>t, <1>h, PhaseFacts DEF Abandon, Goto, TypeOK, Outcomes
  <2>2. IdsFresh'
    BY <1>19, <1>t DEF Abandon, IdsFresh, Ids
  <2>3. RoundInv("abandoned")'
    BY DEF RoundInv
  <2> QED
    BY <1>19, <1>r, <2>1, <2>2, <2>3, MovePreserves, PhaseFacts DEF Abandon, Goto, Yields
<1>20. CASE Compact(c)
  <2>1. /\ pc[c] \in {"llm", "handler"} /\ pc' = pc /\ running' = running /\ iter' = iter
        /\ k' = k /\ calls' = calls /\ nextId' = nextId /\ cards' = cards /\ reply' = reply
        /\ outcome' = outcome /\ runs' = runs
        /\ \E cut \in SafeCuts(history, Open(c)) : history' = CutAt(history, cut)
    BY <1>20 DEF Compact, CompactTo
  <2>2. PairedExcept(history, Open(c))
    BY <2>1, <1>t DEF Open, RoundInv, Paired
  <2>3. /\ history' \in Seq(Message)
        /\ PairedExcept(history', Open(c))
        /\ Uses(history') \subseteq Uses(history)
    BY <2>1, <2>2, <1>h, CutPaired
  <2>4. TypeOK'
    BY <2>1, <2>3, <1>t DEF TypeOK
  <2>5. IdsFresh'
    BY <2>1, <2>3, <1>t DEF IdsFresh, Ids
  <2>6. Pending(k)' = Pending(k)
    BY <2>1 DEF Pending
  <2>7. RoundInv(pc[c])'
    <3>1. CASE pc[c] = "llm"
      BY <3>1, <2>1, <2>3, <1>t DEF RoundInv, Open, Paired
    <3>2. CASE pc[c] = "handler"
      BY <3>2, <2>1, <2>3, <2>6, <1>t DEF RoundInv, Open
    <3> QED
      BY <2>1, <3>1, <3>2
  <2>8. \A d \in Callers : d # c => pc[d] = "idle"
    BY <2>1, <1>t, OthersIdle
  <2>9. SingleFlight'
    BY <2>1, <1>t DEF SingleFlight, Active
  <2>10. \A d \in Callers : RoundInv(pc[d])'
    <3> TAKE d \in Callers
    <3>1. CASE d = c
      BY <3>1, <2>7
    <3>2. CASE d # c
      BY <3>2, <2>1, <2>8 DEF RoundInv
    <3> QED
      BY <3>1, <3>2
  <2> QED
    BY <2>4, <2>5, <2>9, <2>10 DEF EngineInv
<1> QED
  BY <1>1, <1>2, <1>3, <1>4, <1>5, <1>6, <1>7, <1>8, <1>9, <1>10, <1>11, <1>12, <1>13, <1>14,
     <1>15, <1>16, <1>17, <1>18, <1>19, <1>20 DEF Advance

----------------------------------------------------------------------------
(* The theorems.                                                            *)

\* The inductive invariant holds of every reachable state.
THEOREM EngineInvariant == Spec => []EngineInv
<1> QED
  BY InitInv, StepInv, PTL DEF Spec

\* Every variable keeps its type; no run exceeds its budget of iterations, and the
\* call being executed is one of the round's calls.
THEOREM TypeCorrect == Spec => []TypeOK
<1>1. EngineInv => TypeOK
  BY DEF EngineInv
<1> QED
  BY <1>1, EngineInvariant, PTL

\* An engine never runs two streams at once, and its running flag says exactly
\* whether a generator of it is still unfinished.
THEOREM SingleFlightHolds == Spec => []SingleFlight
<1>1. EngineInv => SingleFlight
  BY DEF EngineInv
<1> QED
  BY <1>1, EngineInvariant, PTL

\* Every history handed to the provider answers each tool_use exactly once, within
\* its round.
THEOREM ProviderSeesPairedHistory == Spec => []PairedAtLlm
<1>1. EngineInv => PairedAtLlm
  BY DEF EngineInv, PairedAtLlm, RoundInv
<1> QED
  BY <1>1, EngineInvariant, PTL

\* No tool card is left open when the model is asked again or the run reports its end.
THEOREM NoCardLeftOpen == Spec => []CardsClosed
<1>1. EngineInv => CardsClosed
  BY DEF EngineInv, CardsClosed, RoundInv
<1> QED
  BY <1>1, EngineInvariant, PTL

\* A run that ends with an event, or by a cancellation the engine saw, leaves a
\* history the next turn can be sent with.
THEOREM SettledRunsArePaired == Spec => SettledPaired
<1> DEFINE Settles == \A c \in Callers :
              outcome'[c] # outcome[c] /\ outcome'[c] \in {"done", "error", "cancelled"}
              => Paired(history')
<1>1. EngineInv /\ EngineInv' /\ [Next]_vars => [Settles]_vars
  <2> SUFFICES ASSUME EngineInv, EngineInv', Next, NEW c \in Callers,
                      outcome'[c] # outcome[c],
                      outcome'[c] \in {"done", "error", "cancelled"}
               PROVE  Paired(history')
    OBVIOUS
  <2>1. PICK d \in Callers : Start(d) \/ Refuse(d) \/ Advance(d) \/ Compact(d) \/ Raise(d) \/ Cancel(d)
                               \/ Abandon(d)
    BY DEF Next
  <2>2. TypeOK /\ RoundInv(pc[d]) /\ pc' \in [Callers -> Phases]
        /\ RoundInv(pc[d])'
    BY DEF EngineInv, TypeOK
  <2>3. \A o : outcome' = [outcome EXCEPT ![d] = o] => d = c /\ o = outcome'[c]
    BY <2>2 DEF TypeOK
  <2>e. ASSUME Goto(d, "ended")
        PROVE  Paired(history')
    <3>1. pc'[d] = "ended"
      BY <2>e, <2>2 DEF Goto, TypeOK
    <3> QED
      BY <3>1, <2>2 DEF RoundInv
  <2>4. CASE GiveUp(d) \/ IterationFailed(d) \/ IterationFinal(d)
    BY <2>4, <2>e DEF GiveUp, IterationFailed, IterationFinal
  <2>5. CASE Cancel(d)
    <3>1. CASE pc[d] \in {"gate", "handler"}
      BY <3>1, <2>5, CancelPairs DEF Cancel
    <3>2. CASE pc[d] \in {"before", "llm"}
      BY <3>2, <2>5, <2>2 DEF Cancel, RoundInv
    <3> QED
      BY <2>5, <3>1, <3>2 DEF Cancel, Awaits
  <2>6. CASE Start(d)
    BY <2>6, <2>3 DEF Start, StartWith
  <2>7. CASE Refuse(d)
    BY <2>7, <2>3 DEF Refuse
  <2>8. CASE Raise(d)
    BY <2>8, <2>3 DEF Raise, Leave
  <2>9. CASE Abandon(d)
    BY <2>9, <2>3, <2>2 DEF Abandon, TypeOK
  <2>10. CASE Finish(d) \/ Finalize(d)
    BY <2>10, <2>2 DEF Finish, Finalize, Leave, TypeOK
  <2>11. CASE outcome' = outcome
    BY <2>11
  <2> QED
    BY <2>1, <2>4, <2>5, <2>6, <2>7, <2>8, <2>9, <2>10, <2>11
       DEF Advance, BeginIteration, ApplyBeforeLlm, HooksReturn, LlmStreamEnds, DispatchCalls, AnswerUnrun,
           AllowCall, InvokeHandler, AnswerCall, NextCall, Compact, CompactTo
<1> QED
  BY <1>1, EngineInvariant, PTL DEF Spec, SettledPaired

LEMMA AppendPrefix ==
    ASSUME NEW h \in Seq(Message), NEW m \in Message
    PROVE  SubSeq(Append(h, m), 1, Len(h)) = h
OBVIOUS

LEMMA ConcatPrefix ==
    ASSUME NEW h \in Seq(Message), NEW g \in Seq(Message)
    PROVE  SubSeq(h \o g, 1, Len(h)) = h
OBVIOUS

\* Hooks and compaction apart, every step of a run appends to its history.
THEOREM HistoryOnlyGrows == Spec => AppendOnly
<1> DEFINE Grows == \A c \in Callers : pc[c] \notin {"idle", "before"} /\ pc'[c] # pc[c] =>
                       SubSeq(history', 1, Len(history)) = history
<1>1. EngineInv /\ [Next]_vars => [Grows]_vars
  <2> SUFFICES ASSUME EngineInv, Next, NEW c \in Callers, pc[c] \notin {"idle", "before"},
                      pc'[c] # pc[c]
               PROVE  SubSeq(history', 1, Len(history)) = history
    OBVIOUS
  <2>1. PICK d \in Callers : Start(d) \/ Refuse(d) \/ Advance(d) \/ Compact(d) \/ Raise(d) \/ Cancel(d)
                               \/ Abandon(d)
    BY DEF Next
  <2>2. history \in Seq(Message) /\ calls \in Seq(Nat) /\ k \in 0..Len(calls)
        /\ IdsFresh /\ RoundInv(pc[d])
    BY DEF EngineInv, TypeOK
  <2>3. running = TRUE /\ \A e \in Callers : e # c => pc[e] = "idle"
    BY OthersIdle DEF EngineInv
  <2>4. ASSUME history' = history
        PROVE  SubSeq(history', 1, Len(history)) = history
    BY <2>2, <2>4
  <2>5. ASSUME NEW m \in Message, history' = Append(history, m)
        PROVE  SubSeq(history', 1, Len(history)) = history
    BY <2>2, <2>5, AppendPrefix
  <2>6. CASE Start(d)
    BY <2>3, <2>6 DEF Start, StartWith
  <2>7. CASE ApplyBeforeLlm(d)
    BY <2>3, <2>7 DEF ApplyBeforeLlm, HooksReturn
  <2>8. CASE IterationFinal(d)
    BY <2>5, <2>8, MessageTypes DEF IterationFinal
  <2>9. CASE DispatchCalls(d)
    <3>1. Assistant(Ids(calls)) \in Message
      BY <2>2, IdsNat, MessageTypes
    <3> QED
      BY <2>5, <2>9, <3>1 DEF DispatchCalls
  <2>c. ASSUME pc[d] \in {"gate", "handler"}
        PROVE  ToolResult(calls[k]) \in Message
    BY <2>2, <2>c, PendingIds, MessageTypes DEF RoundInv
  <2>10. CASE AnswerUnrun(d)
    BY <2>5, <2>10, <2>c DEF AnswerUnrun
  <2>11. CASE AnswerCall(d)
    <3> DEFINE h == Append(history, ToolResult(calls[k]))
    <3>1. ToolResult(calls[k]) \in Message /\ Image \in Message
      BY <2>11, <2>c, MessageTypes DEF AnswerCall
    <3>2. h \in Seq(Message) /\ Append(h, Image) = history \o <<ToolResult(calls[k]), Image>>
      BY <2>2, <3>1
    <3>3. <<ToolResult(calls[k]), Image>> \in Seq(Message)
      BY <3>1
    <3>4. CASE history' = h
      BY <3>4, <3>1, <2>5
    <3>5. CASE history' = Append(h, Image)
      BY <3>5, <3>2, <3>3, <2>2, ConcatPrefix
    <3> QED
      BY <2>11, <3>4, <3>5 DEF AnswerCall
  <2>12. CASE Cancel(d)
    <3>1. CASE pc[d] \in {"gate", "handler"}
      <4> DEFINE p == SubSeq(calls, k, Len(calls))
      <4>1. k \in 1..Len(calls)
        BY <3>1, <2>2 DEF RoundInv
      <4>2. p \in Seq(Nat)
        BY <4>1, <2>2
      <4> HIDE DEF p
      <4>3. [i \in 1..Len(p) |-> ToolResult(p[i])] \in Seq(Message)
        BY <4>2, MessageTypes
      <4> QED
        BY <3>1, <2>12, <2>2, <4>3, ConcatPrefix DEF Cancel, Backfill, p
    <3>2. CASE pc[d] \notin {"gate", "handler"}
      BY <3>2, <2>12, <2>4 DEF Cancel
    <3> QED
      BY <3>1, <3>2
  <2>13. CASE Compact(d)
    BY <2>13 DEF Compact, CompactTo
  <2> QED
    BY <2>1, <2>4, <2>6, <2>7, <2>8, <2>9, <2>10, <2>11, <2>12, <2>13
       DEF Advance, Refuse, Raise, Abandon, Finish, Finalize, BeginIteration, GiveUp,
           LlmStreamEnds, IterationFailed, AllowCall, InvokeHandler, NextCall
<1> QED
  BY <1>1, EngineInvariant, PTL DEF Spec, AppendOnly
=============================================================================
