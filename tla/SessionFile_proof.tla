------------------------- MODULE SessionFile_proof -------------------------
(***************************************************************************)
(* Proofs about the session file: for any number of checkpoints and of     *)
(* cancellations, failed writes and deaths, the file can be loaded, is not *)
(* undone by a save that did not overlap another, and ends up being the    *)
(* session unless the turn's last save was cut short.                      *)
(***************************************************************************)
EXTENDS SessionFile, FiniteSetTheorems, TLAPS

USE FileAssumption DEF Inodes, Writers, Writing

Places == [step : Steps, meta : BOOLEAN]

Datum == [state : {"empty", "partial", "whole", "torn"}, by : Writers \cup {"none"},
          snap : Snapshots]

\* FileTypeOK, part by part.
Counts ==
    /\ tree \in Snapshots
    /\ total \in Nat
    /\ named \in BOOLEAN
    /\ faults \in 0..MaxFaults
    /\ slips \subseteq {"overlap", "failed", "cut"}

Tasks == at \in [Writers -> Places] /\ snap \in [Writers -> Snapshots]

Files ==
    /\ ino \in [Writers -> Inodes \cup {0}]
    /\ \A w \in Writers : ino[w] # 0 <=> at[w].step \in Writing
    /\ tmp \in Inodes \cup {0}
    /\ file \in Inodes \cup {0}
    /\ data \in [Inodes -> Datum]

LEMMA TypeParts == FileTypeOK <=> Counts /\ Tasks /\ Files
BY DEF FileTypeOK, Counts, Tasks, Files, Places, Datum

LEMMA Records ==
  /\ NoSnapshot \in Snapshots
  /\ Resting \in Places /\ Resting.step = "rest"
  /\ NoData \in Datum /\ NoData.state = "empty"
BY DEF NoSnapshot, Snapshots, Resting, Places, Steps, NoData, Datum

LEMMA StepTo ==
  ASSUME Tasks, NEW w \in Writers, NEW step \in Steps, Step(w, step)
  PROVE  /\ at' \in [Writers -> Places]
         /\ at'[w].step = step
         /\ at'[w].meta = at[w].meta
         /\ \A v \in Writers \ {w} : at'[v] = at[v]
<1>1. at[w] \in Places /\ at' = [at EXCEPT ![w] = [at[w] EXCEPT !.step = step]]
  BY DEF Tasks, Step
<1>2. /\ [at[w] EXCEPT !.step = step] \in Places
      /\ [at[w] EXCEPT !.step = step].step = step
      /\ [at[w] EXCEPT !.step = step].meta = at[w].meta
  BY <1>1 DEF Places
<1>3. QED
  BY <1>1, <1>2 DEF Tasks

LEMMA InitInv == Init => FileInv
<1> SUFFICES ASSUME Init PROVE FileInv
  OBVIOUS
<1>1. Counts /\ Tasks /\ Files
  <2>1. Counts
    <3>1. tree \in Snapshots
      BY Records DEF Init
    <3>2. total \in Nat /\ faults \in 0..MaxFaults
      BY DEF Init
    <3>3. named \in BOOLEAN /\ slips \subseteq {"overlap", "failed", "cut"}
      BY DEF Init
    <3>4. QED
      BY <3>1, <3>2, <3>3 DEF Counts
  <2>2. Tasks
    BY Records DEF Init, Tasks
  <2>3. Files
    BY Records DEF Init, Files
  <2>4. QED
    BY <2>1, <2>2, <2>3
<1>2. \A w \in Writers : at[w].step = "rest"
  BY Records DEF Init
<1>3. Tidy
  BY <1>2 DEF Init, Tidy
<1>4. Alone
  BY <1>2 DEF Init, Alone, Busy
<1>5. Current
  BY <1>2 DEF Init, Current, Busy, Titled
<1>6. QED
  BY <1>1, <1>3, <1>4, <1>5, TypeParts DEF FileInv

\* The tree grows, and no save begins or gets further.
LEMMA AloneKept ==
  ASSUME Counts, Tasks, Files, Alone, UNCHANGED <<snap, ino, data, tmp, file, slips>>,
         tree' \in Snapshots, tree.nodes <= tree'.nodes,
         \A w \in Writers : Busy(w)' => at'[w].step = at[w].step
  PROVE  Alone'
<1> SUFFICES ASSUME "overlap" \notin slips PROVE Alone'
  BY DEF Alone
<1>1. ASSUME NEW w \in Writers, Busy(w)' PROVE Busy(w)
  BY <1>1 DEF Busy
<1>2. ASSUME NEW w \in Writers, at'[w].step \in Writing
      PROVE  at[w].step \in Writing /\ Stage(w)' = Stage(w)
  BY <1>2 DEF Busy, Stage
<1>3. tree.nodes \in Nat /\ tree'.nodes \in Nat
  BY DEF Counts, Snapshots
<1>4. \A w \in Writers : snap[w].nodes \in Nat
  BY DEF Tasks, Snapshots
<1>5. file # 0 => data[file].snap.nodes \in Nat
  BY DEF Files, Datum, Snapshots
<1>6. QED
  BY <1>1, <1>2, <1>3, <1>4, <1>5 DEF Alone

----------------------------------------------------------------------------
(* The turn and the titler.                                                 *)

LEMMA CheckpointInv == FileInv /\ Checkpoint => FileInv'
<1> SUFFICES ASSUME FileInv, Checkpoint PROVE FileInv'
  OBVIOUS
<1>1. Counts /\ Tasks /\ Files /\ Tidy /\ Alone /\ Current
  BY TypeParts DEF FileInv
<1>2. UNCHANGED <<named, snap, ino, data, tmp, file, faults, slips>>
  BY DEF Checkpoint
<1>3. /\ tree' \in Snapshots
      /\ tree.nodes <= tree'.nodes
      /\ tree.title # "none" => tree'.title = tree.title
      /\ total' \in Nat
  <2>1. tree \in Snapshots /\ total \in Nat /\ total' = total + 1
    BY <1>1 DEF Counts, Checkpoint
  <2>2. PICK t \in {"none", "first", "llm"} :
            /\ tree' = [tree EXCEPT !.nodes = tree.nodes + 1, !.title = t]
            /\ tree.title # "none" => t = tree.title
    BY <2>1 DEF Checkpoint, Snapshots
  <2>3. tree.nodes \in Nat /\ tree'.nodes = tree.nodes + 1 /\ tree'.title = t
    BY <2>1, <2>2 DEF Snapshots
  <2>4. tree' \in Snapshots
    <3>1. tree.nodes + 1 \in Nat /\ tree.total \in Nat
      BY <2>1, <2>3 DEF Snapshots
    <3>2. tree' = [nodes |-> tree.nodes + 1, total |-> tree.total, title |-> t]
      BY <2>1, <2>2 DEF Snapshots
    <3>3. QED
      BY <3>1, <3>2 DEF Snapshots
  <2>5. QED
    BY <2>1, <2>2, <2>3, <2>4
<1>4. /\ at' \in [Writers -> Places]
      /\ at["turn"].step = "rest"
      /\ at'["turn"].step = "tree"
      /\ at'["turn"].meta = FALSE
      /\ at'["titler"] = at["titler"]
      /\ at'["cancelled"] = at["cancelled"]
  BY <1>1 DEF Checkpoint, Tasks, Places, Steps
<1>5. Counts' /\ Tasks' /\ Files'
  BY <1>1, <1>2, <1>3, <1>4 DEF Counts, Tasks, Files
<1>6. Tidy'
  BY <1>1, <1>2, <1>4 DEF Tidy
<1>7. Alone'
  <2>1. \A w \in Writers : Busy(w)' => at'[w].step = at[w].step
    BY <1>4 DEF Busy
  <2>2. QED
    BY <1>1, <1>2, <1>3, <2>1, AloneKept
<1>8. Current'
  BY <1>1, <1>2, <1>3, <1>4 DEF Current, Cut, Busy, Titled
<1>9. QED
  BY <1>5, <1>6, <1>7, <1>8, TypeParts, PTL DEF FileInv

LEMMA AskForTitleInv == FileInv /\ AskForTitle => FileInv'
<1> SUFFICES ASSUME FileInv, AskForTitle PROVE FileInv'
  OBVIOUS
<1>1. Counts /\ Tasks /\ Files /\ Tidy /\ Alone /\ Current
  BY TypeParts DEF FileInv
<1>2. UNCHANGED <<tree, total, snap, ino, data, tmp, file, faults, slips>>
      /\ ~named /\ named' = TRUE /\ file # 0
  BY DEF AskForTitle
<1>3. at["titler"].step = "rest"
  BY <1>1, <1>2 DEF Tidy
<1>4. /\ at' \in [Writers -> Places]
      /\ at'["titler"].step = "thinking"
      /\ at'["turn"] = at["turn"]
      /\ at'["cancelled"] = at["cancelled"]
  BY <1>1, StepTo DEF AskForTitle, Steps
<1>5. Counts' /\ Tasks' /\ Files'
  BY <1>1, <1>2, <1>3, <1>4 DEF Counts, Tasks, Files
<1>6. Tidy'
  BY <1>1, <1>2, <1>4 DEF Tidy
<1>7. Alone'
  <2>1. \A w \in Writers : Busy(w)' => at'[w].step = at[w].step
    BY <1>4 DEF Busy
  <2>2. tree' \in Snapshots /\ tree.nodes <= tree'.nodes
    BY <1>1, <1>2 DEF Counts, Snapshots
  <2>3. QED
    BY <1>1, <1>2, <2>1, <2>2, AloneKept
<1>8. Current'
  BY <1>1, <1>2, <1>3, <1>4 DEF Current, Cut, Busy, Titled
<1>9. QED
  BY <1>5, <1>6, <1>7, <1>8, TypeParts, PTL DEF FileInv

LEMMA TitleArrivesInv == FileInv /\ TitleArrives => FileInv'
<1> SUFFICES ASSUME FileInv, TitleArrives PROVE FileInv'
  OBVIOUS
<1>1. Counts /\ Tasks /\ Files /\ Tidy /\ Alone /\ Current
  BY TypeParts DEF FileInv
<1>2. UNCHANGED <<total, named, snap, ino, data, tmp, file, faults, slips>>
      /\ at["titler"].step = "thinking"
  BY DEF TitleArrives
<1>3. /\ at' \in [Writers -> Places]
      /\ at'["titler"].step \in {"load", "rest"}
      /\ at'["turn"] = at["turn"]
      /\ at'["cancelled"] = at["cancelled"]
  BY <1>1, StepTo DEF TitleArrives, Steps
<1>4. /\ tree' \in Snapshots
      /\ tree'.nodes = tree.nodes
      /\ tree.nodes \in Nat
      /\ at'["titler"].step = "load" => tree'.title = "llm"
      /\ at'["titler"].step = "rest" => tree' = tree
  <2>1. CASE tree' = [tree EXCEPT !.title = "llm"] /\ Step("titler", "load")
    <3>1. at'["titler"].step = "load"
      BY <1>1, <2>1, StepTo DEF Steps
    <3>2. tree' \in Snapshots /\ tree'.nodes = tree.nodes /\ tree'.title = "llm" /\ tree.nodes \in Nat
      BY <1>1, <2>1 DEF Counts, Snapshots
    <3>3. QED
      BY <3>1, <3>2
  <2>2. CASE tree' = tree /\ Step("titler", "rest")
    <3>1. at'["titler"].step = "rest"
      BY <1>1, <2>2, StepTo DEF Steps
    <3>2. QED
      BY <1>1, <2>2, <3>1 DEF Counts, Snapshots
  <2>3. QED
    BY <2>1, <2>2 DEF TitleArrives
<1>5. Counts' /\ Tasks' /\ Files'
  BY <1>1, <1>2, <1>3, <1>4 DEF Counts, Tasks, Files
<1>6. Tidy'
  BY <1>1, <1>2, <1>3 DEF Tidy
<1>7. Alone'
  <2>1. \A w \in Writers : Busy(w)' => at'[w].step = at[w].step
    BY <1>3 DEF Busy
  <2>2. tree.nodes <= tree'.nodes
    BY <1>4
  <2>3. QED
    BY <1>1, <1>2, <1>4, <2>1, <2>2, AloneKept
<1>8. Current'
  BY <1>1, <1>2, <1>3, <1>4 DEF Current, Cut, Busy, Titled
<1>9. QED
  BY <1>5, <1>6, <1>7, <1>8, TypeParts, PTL DEF FileInv

----------------------------------------------------------------------------
(* save_meta and _save_sync.                                                *)

\* What a save that begins tells of the others.
LEMMA Began ==
  ASSUME Counts, NEW w \in Writers, Begins(w)
  PROVE  /\ slips' \subseteq {"overlap", "failed", "cut"}
         /\ slips \subseteq slips'
         /\ "overlap" \notin slips' => slips' = slips /\ \A v \in Writers \ {w} : ~Busy(v)
BY DEF Begins, Counts, Busy

LEMMA LoadInv ==
  ASSUME NEW w \in Writers, FileInv, Load(w)
  PROVE  FileInv'
<1>1. Counts /\ Tasks /\ Files /\ Tidy /\ Alone /\ Current
  BY TypeParts DEF FileInv
<1>2. UNCHANGED <<tree, total, named, ino, data, tmp, file, faults>> /\ at[w].step = "load"
  BY DEF Load
<1>3. /\ slips' \subseteq {"overlap", "failed", "cut"}
      /\ slips \subseteq slips'
      /\ "overlap" \notin slips' => slips' = slips /\ \A v \in Writers \ {w} : ~Busy(v)
  BY <1>1, Began DEF Load
<1>4. w \in {"turn", "titler"} /\ ino[w] = 0
  BY <1>1, <1>2 DEF Tidy, Files
<1>5. CASE ~Readable(file)
  <2>1. at' = [at EXCEPT ![w] = Resting] /\ snap' = snap
    BY <1>5 DEF Load
  <2>2. /\ at' \in [Writers -> Places]
        /\ at'[w].step = "rest"
        /\ \A v \in Writers \ {w} : at'[v] = at[v]
    BY <1>1, <2>1, Records DEF Tasks
  <2>3. Counts' /\ Tasks' /\ Files'
    BY <1>1, <1>2, <1>3, <2>1, <2>2 DEF Counts, Tasks, Files
  <2>4. Tidy'
    BY <1>1, <1>2, <1>4, <2>2 DEF Tidy
  <2>5. "overlap" \in slips'
    <3>1. file # 0
      BY <1>1, <1>2, <1>4 DEF Tidy
    <3>2. QED
      BY <1>1, <1>3, <1>5, <3>1 DEF Readable, Alone
  <2>6. Alone'
    BY <2>5 DEF Alone
  <2>7. Current'
    <3>1. ~(slips' \subseteq {"cut"})
      BY <2>5
    <3>2. QED
      BY <3>1 DEF Current
  <2>8. QED
    BY <2>3, <2>4, <2>6, <2>7, TypeParts, PTL DEF FileInv
<1>6. CASE Readable(file)
  <2>1. /\ at' = [at EXCEPT ![w] = [step |-> "meta", meta |-> TRUE]]
        /\ snap' = [snap EXCEPT ![w] =
                        IF w = "turn" THEN [data[file].snap EXCEPT !.total = total]
                        ELSE [data[file].snap EXCEPT !.total = 0, !.title = "llm"]]
    BY <1>6 DEF Load
  <2>2. /\ at' \in [Writers -> Places]
        /\ at'[w].step = "meta" /\ at'[w].meta
        /\ \A v \in Writers \ {w} : at'[v] = at[v]
    BY <1>1, <2>1 DEF Tasks, Places, Steps
  <2>3. data[file].snap \in Snapshots /\ file # 0 /\ total \in Nat
    BY <1>1, <1>6 DEF Readable, Files, Datum, Counts
  <2>4. /\ snap' \in [Writers -> Snapshots]
        /\ \A v \in Writers \ {w} : snap'[v] = snap[v]
        /\ snap'[w].nodes = data[file].snap.nodes
        /\ w = "turn" => snap'[w].total = total /\ snap'[w].title = data[file].snap.title
        /\ w = "titler" => snap'[w].total = 0 /\ snap'[w].title = "llm"
    <3> DEFINE s == IF w = "turn" THEN [data[file].snap EXCEPT !.total = total]
                    ELSE [data[file].snap EXCEPT !.total = 0, !.title = "llm"]
    <3>1. /\ s \in Snapshots
          /\ s.nodes = data[file].snap.nodes
          /\ w = "turn" => s.total = total /\ s.title = data[file].snap.title
          /\ w = "titler" => s.total = 0 /\ s.title = "llm"
      BY <2>3 DEF Snapshots
    <3>2. snap' = [snap EXCEPT ![w] = s]
      BY <2>1
    <3> HIDE DEF s
    <3>3. QED
      BY <1>1, <3>1, <3>2 DEF Tasks
  <2>5. Counts' /\ Tasks' /\ Files'
    BY <1>1, <1>2, <1>3, <2>2, <2>4 DEF Counts, Tasks, Files
  <2>6. Tidy'
    BY <1>1, <1>2, <1>4, <2>2, <2>3 DEF Tidy
  <2>7. Alone'
    <3>1. SUFFICES ASSUME "overlap" \notin slips', "overlap" \notin slips PROVE Alone'
      BY <1>3 DEF Alone
    <3>2. \A v \in Writers \ {w} : ~Busy(v) /\ ~Busy(v)'
      BY <1>3, <2>2, <3>1 DEF Busy
    <3>3. \A v \in Writers : at'[v].step \notin Writing
      BY <2>2, <3>2 DEF Busy
    <3>4. tree.nodes \in Nat /\ data[file].snap.nodes \in Nat
      BY <1>1, <2>3 DEF Counts, Snapshots
    <3>5. data[file].state = "whole" /\ data[file].snap.nodes <= tree.nodes
      BY <1>1, <2>3, <3>1 DEF Alone
    <3>6. QED
      BY <1>2, <2>4, <3>2, <3>3, <3>4, <3>5 DEF Alone
  <2>8. Current'
    <3>1. SUFFICES ASSUME slips' \subseteq {"cut"}, slips' = slips PROVE Current'
      BY <1>3 DEF Current
    <3>2. \A v \in Writers \ {w} : ~Busy(v) /\ ~Busy(v)'
      BY <1>3, <2>2, <3>1 DEF Busy
    <3>3. CASE w = "turn"
      BY <1>1, <1>2, <2>2, <2>3, <2>4, <3>1, <3>2, <3>3 DEF Current, Cut, Busy, Titled
    <3>4. CASE w = "titler"
      <4>1. at["turn"].step \in {"rest", "tree", "load"}
        <5>1. at["turn"].step \in Steps
          BY <1>1 DEF Tasks, Places
        <5>2. QED
          BY <1>1, <3>2, <3>4, <5>1 DEF Steps, Busy, Tidy
      <4>2. tree.title = "llm"
        BY <1>1, <1>2, <3>1, <3>4 DEF Current
      <4>3. /\ Cut' <=> Cut
            /\ at["turn"].step \in {"rest", "load"} /\ ~Cut => data[file].snap.nodes = tree.nodes
        <5>1. at'["turn"] = at["turn"]
          BY <2>2, <3>4
        <5>2. QED
          BY <1>1, <2>3, <3>1, <5>1 DEF Current, Cut
      <4>3a. at["turn"].step = "load" => data[file].snap.nodes = tree.nodes
        BY <4>3 DEF Cut
      <4>4. Busy("titler")' /\ ~Busy("turn")' /\ ~Busy("cancelled")' /\ at'["turn"] = at["turn"]
        BY <2>2, <3>2, <3>4 DEF Busy
      <4>5. at["turn"].step = "rest" /\ ~Cut =>
               \/ data[file].snap.total = total
               \/ data[file].by = "titler" /\ data[file].snap.total = 0
        BY <1>1, <2>3, <3>1 DEF Current
      <4>6. QED
        BY <1>2, <2>2, <2>4, <3>4, <4>1, <4>2, <4>3, <4>3a, <4>4, <4>5 DEF Current, Titled
    <3>5. QED
      BY <1>4, <3>3, <3>4
  <2>9. QED
    BY <2>5, <2>6, <2>7, <2>8, TypeParts, PTL DEF FileInv
<1>7. QED
  BY <1>5, <1>6

\* With the temporary file of another save, or with an inode nobody uses.
LEMMA FreshInode ==
  ASSUME Files, NEW w \in Writers, ino[w] = 0,
         NEW i, i = IF tmp # 0 THEN tmp
                    ELSE CHOOSE j \in {j \in Inodes : j # file /\ \A v \in Writers : ino[v] # j} : TRUE
  PROVE  /\ i \in Inodes
         /\ tmp = 0 => i # file /\ \A v \in Writers : ino[v] # i
<1> DEFINE fresh == {j \in Inodes : j # file /\ \A v \in Writers : ino[v] # j}
<1>1. tmp \in Inodes \cup {0} /\ file \in Inodes \cup {0} /\ \A v \in Writers : ino[v] \in Inodes \cup {0}
  BY DEF Files
<1>2. \E j \in fresh : TRUE
  <2>1. PICK a \in Writers, b \in Writers : Writers = {w, a, b}
    OBVIOUS
  <2>2. \E j \in Inodes : j # file /\ j # ino[a] /\ j # ino[b]
    <3>1. /\ 1 \in Inodes /\ 2 \in Inodes /\ 3 \in Inodes /\ 4 \in Inodes
      OBVIOUS
    <3>2. QED
      BY ONLY <3>1
  <2>3. PICK j \in Inodes : j # file /\ j # ino[a] /\ j # ino[b]
    BY <2>2
  <2>4. j \in fresh
    BY <2>1, <2>3
  <2>5. QED
    BY <2>4
<1>3. (CHOOSE j \in fresh : TRUE) \in fresh
  <2> HIDE DEF fresh
  <2>1. QED
    BY <1>2
<1>4. QED
  BY <1>1, <1>3

LEMMA OpenInv ==
  ASSUME NEW w \in Writers, FileInv, Open(w)
  PROVE  FileInv'
<1>1. Counts /\ Tasks /\ Files /\ Tidy /\ Alone /\ Current
  BY TypeParts DEF FileInv
<1>2. UNCHANGED <<tree, total, named, file, faults>> /\ at[w].step \in {"tree", "meta"}
  BY DEF Open
<1>3. /\ slips' \subseteq {"overlap", "failed", "cut"}
      /\ slips \subseteq slips'
      /\ "overlap" \notin slips' => slips' = slips /\ \A v \in Writers \ {w} : ~Busy(v)
  BY <1>1, Began DEF Open
<1>4. /\ at' \in [Writers -> Places]
      /\ at'[w].step = "write"
      /\ at'[w].meta = at[w].meta
      /\ \A v \in Writers \ {w} : at'[v] = at[v]
  BY <1>1, StepTo DEF Open, Steps
<1>5. w \in {"turn", "titler"} /\ ino[w] = 0
  BY <1>1, <1>2 DEF Tidy, Files
<1> DEFINE i == IF tmp # 0 THEN tmp
                ELSE CHOOSE j \in {j \in Inodes : j # file /\ \A v \in Writers : ino[v] # j} : TRUE
<1>6. ino' = [ino EXCEPT ![w] = i] /\ data' = [data EXCEPT ![i] = NoData] /\ tmp' = i
  BY DEF Open
<1>7. /\ i \in Inodes
      /\ tmp = 0 => i # file /\ \A v \in Writers : ino[v] # i
      /\ tmp # 0 => i = tmp
  BY <1>1, <1>5, FreshInode
<1> HIDE DEF i
<1>8. /\ ino' \in [Writers -> Inodes \cup {0}]
      /\ ino'[w] = i /\ i # 0
      /\ \A v \in Writers \ {w} : ino'[v] = ino[v]
      /\ data' \in [Inodes -> Datum]
      /\ data'[i] = NoData
      /\ \A j \in Inodes \ {i} : data'[j] = data[j]
  BY <1>1, <1>6, <1>7, Records DEF Files
<1>9. /\ snap' \in [Writers -> Snapshots]
      /\ snap'[w] = IF at[w].step = "tree" THEN tree ELSE snap[w]
      /\ \A v \in Writers \ {w} : snap'[v] = snap[v]
  BY <1>1 DEF Open, Tasks, Counts
<1>10. Counts' /\ Tasks' /\ Files'
  BY <1>1, <1>2, <1>3, <1>4, <1>6, <1>7, <1>8, <1>9 DEF Counts, Tasks, Files
<1>11. Tidy'
  BY <1>1, <1>2, <1>4, <1>5, <1>6, <1>7, <1>8 DEF Tidy
<1>12. ASSUME "overlap" \notin slips'
       PROVE  /\ "overlap" \notin slips
              /\ \A v \in Writers \ {w} : ~Busy(v) /\ ~Busy(v)'
              /\ i # file
              /\ tree.nodes \in Nat
              /\ file # 0 => data'[file] = data[file] /\ data[file].snap.nodes \in Nat
  <2>1. "overlap" \notin slips /\ \A v \in Writers \ {w} : ~Busy(v) /\ ~Busy(v)'
    BY <1>3, <1>4, <1>12 DEF Busy
  <2>2. tmp = 0
    <3>1. \A v \in Writers : ino[v] = 0
      BY <1>1, <1>5, <2>1 DEF Files, Busy
    <3>2. QED
      BY <1>1, <3>1 DEF Tidy
  <2>3. i # file
    BY <1>7, <2>2
  <2>4. file # 0 => data'[file] = data[file] /\ data[file].snap.nodes \in Nat
    BY <1>1, <1>8, <2>3 DEF Files, Datum, Snapshots
  <2>5. QED
    BY <1>1, <2>1, <2>3, <2>4 DEF Counts, Snapshots
<1>13. Alone'
  <2>1. SUFFICES ASSUME "overlap" \notin slips' PROVE Alone'
    BY DEF Alone
  <2>2. \A v \in Writers : at'[v].step \in Writing => v = w
    BY <1>12, <2>1 DEF Busy
  <2>3. Stage(w)' = NoData
    BY <1>4 DEF Stage
  <2>4. snap'[w].nodes <= tree.nodes /\ (file # 0 => data[file].snap.nodes <= snap'[w].nodes)
    BY <1>1, <1>2, <1>9, <1>12, <2>1 DEF Alone, Busy
  <2>5. file # 0 => data[file].state = "whole" /\ data[file].snap.nodes <= tree.nodes
    BY <1>1, <1>12, <2>1 DEF Alone
  <2>6. \A v \in Writers : Busy(v)' => v = w
    BY <1>12, <2>1
  <2>7. QED
    BY <1>2, <1>6, <1>8, <1>12, <2>1, <2>2, <2>3, <2>4, <2>5, <2>6 DEF Alone
<1>14. Current'
  <2>1. SUFFICES ASSUME slips' \subseteq {"cut"}, slips' = slips PROVE Current'
    BY <1>3 DEF Current
  <2>2. /\ \A v \in Writers \ {w} : ~Busy(v) /\ ~Busy(v)'
        /\ file # 0 => data'[file] = data[file]
    BY <1>12, <2>1
  <2>3. CASE w = "turn"
    <3>1. snap'["turn"].nodes = tree.nodes
      BY <1>1, <1>2, <1>9, <2>1, <2>3 DEF Current, Busy
    <3>2. Titled(snap'["turn"])
      BY <1>1, <1>2, <1>9, <2>1, <2>3 DEF Current, Cut, Busy, Titled
    <3>3. at["turn"].meta => snap'["turn"].total = total
      BY <1>1, <1>2, <1>9, <2>1, <2>3 DEF Current, Busy, Tidy
    <3>4. snap'["turn"].title = tree.title \/ at["titler"].step = "load"
      BY <2>2, <2>3, <3>2 DEF Titled
    <3>5. /\ at'["titler"] = at["titler"] /\ at'["turn"].step = "write"
          /\ at'["turn"].meta = at["turn"].meta
          /\ ~Busy("titler")' /\ ~Busy("cancelled")'
      BY <1>4, <2>2, <2>3
    <3>6. at["titler"].step = "load" => tree.title = "llm"
      BY <1>1, <2>1 DEF Current
    <3>7. QED
      BY <1>2, <3>1, <3>3, <3>4, <3>5, <3>6 DEF Current, Cut, Titled
  <2>4. CASE w = "titler"
    <3>1. at["titler"].step = "meta" /\ Busy("titler")
      BY <1>1, <1>2, <2>4 DEF Tidy, Busy
    <3>2. /\ at'["turn"] = at["turn"] /\ at'["titler"].step = "write"
          /\ ~Busy("turn")' /\ ~Busy("cancelled")' /\ Busy("titler")'
          /\ snap'["titler"] = snap["titler"]
      BY <1>4, <1>9, <2>2, <2>4, <3>1 DEF Busy
    <3>3. QED
      BY <1>1, <1>2, <2>1, <2>2, <3>1, <3>2 DEF Current, Cut, Titled
  <2>5. QED
    BY <1>5, <2>3, <2>4
<1>15. QED
  BY <1>10, <1>11, <1>13, <1>14, TypeParts, PTL DEF FileInv

\* A save gets further, and leaves what others see alone.
LEMMA CurrentKept ==
  (/\ Current
   /\ UNCHANGED <<tree, total, snap, file, slips>>
   /\ slips \subseteq {"cut"} /\ file # 0 => data'[file] = data[file]
   /\ \A v \in Writers : /\ at'[v].meta = at[v].meta
                         /\ at'[v].step = at[v].step \/ {at[v].step, at'[v].step} \subseteq Writing)
  => Current'
<1> SUFFICES ASSUME Current, UNCHANGED <<tree, total, snap, file, slips>>,
                    slips \subseteq {"cut"} /\ file # 0 => data'[file] = data[file],
                    \A v \in Writers : /\ at'[v].meta = at[v].meta
                                       /\ at'[v].step = at[v].step \/ {at[v].step, at'[v].step} \subseteq Writing
             PROVE  Current'
  OBVIOUS
<1>1. \A v \in Writers : Busy(v)' <=> Busy(v)
  BY DEF Busy
<1>2. \A v \in Writers : at'[v].step \in {"rest", "load", "tree"} => at'[v].step = at[v].step
  OBVIOUS
<1>3. \A v \in Writers : at[v].step \in {"rest", "load", "tree"} => at'[v].step = at[v].step
  OBVIOUS
<1>4. QED
  BY <1>1, <1>2, <1>3 DEF Current, Cut, Titled

LEMMA WriteInv ==
  ASSUME NEW w \in Writers, FileInv, Write(w)
  PROVE  FileInv'
<1>1. Counts /\ Tasks /\ Files /\ Tidy /\ Alone /\ Current
  BY TypeParts DEF FileInv
<1>2. UNCHANGED <<tree, total, named, snap, ino, tmp, file, faults, slips>> /\ at[w].step = "write"
  BY DEF Write
<1>3. /\ at' \in [Writers -> Places]
      /\ at'[w].step = "flush"
      /\ at'[w].meta = at[w].meta
      /\ \A v \in Writers \ {w} : at'[v] = at[v]
  BY <1>1, StepTo DEF Write, Steps
<1>4. ino[w] \in Inodes /\ data[ino[w]] \in Datum /\ snap[w] \in Snapshots
  BY <1>1, <1>2 DEF Files, Tasks
<1>5. /\ data' \in [Inodes -> Datum]
      /\ \A j \in Inodes \ {ino[w]} : data'[j] = data[j]
      /\ data[ino[w]] = NoData =>
             data'[ino[w]] = [state |-> "partial", by |-> w, snap |-> snap[w]]
  <2> DEFINE d == IF data[ino[w]].state = "empty"
                  THEN [state |-> "partial", by |-> w, snap |-> snap[w]]
                  ELSE [data[ino[w]] EXCEPT !.state = "torn", !.by = "none"]
  <2>1. data' = [data EXCEPT ![ino[w]] = d]
    BY DEF Write
  <2>2. d \in Datum
    BY <1>4 DEF Datum
  <2>3. data[ino[w]] = NoData => d = [state |-> "partial", by |-> w, snap |-> snap[w]]
    BY Records
  <2> HIDE DEF d
  <2>4. QED
    BY <1>1, <1>4, <2>1, <2>2, <2>3 DEF Files
<1>6. Counts' /\ Tasks' /\ Files'
  BY <1>1, <1>2, <1>3, <1>5 DEF Counts, Tasks, Files
<1>7. Tidy'
  BY <1>1, <1>2, <1>3 DEF Tidy
<1>8. ASSUME "overlap" \notin slips
      PROVE  /\ ino[w] = tmp /\ data[tmp] = NoData
             /\ \A v \in Writers \ {w} : ~Busy(v) /\ ~Busy(v)'
             /\ file # 0 => data'[file] = data[file]
  <2>1. ino[w] = tmp /\ data[tmp] = NoData
    BY <1>1, <1>2, <1>8 DEF Alone, Stage
  <2>2. \A v \in Writers \ {w} : ~Busy(v) /\ ~Busy(v)'
    BY <1>1, <1>2, <1>3, <1>8 DEF Alone, Busy
  <2>3. file # 0 => data'[file] = data[file]
    BY <1>1, <1>4, <1>5, <2>1 DEF Tidy, Files
  <2>4. QED
    BY <2>1, <2>2, <2>3
<1>9. Alone'
  <2>1. SUFFICES ASSUME "overlap" \notin slips PROVE Alone'
    BY <1>2 DEF Alone
  <2>2. /\ \A v \in Writers : Busy(v)' => v = w
        /\ \A v \in Writers : at'[v].step \in Writing => v = w
    BY <1>8, <2>1 DEF Busy
  <2>3. Stage(w)' = [state |-> "partial", by |-> w, snap |-> snap[w]]
    BY <1>2, <1>3 DEF Stage
  <2>4. data'[tmp] = Stage(w)'
    BY <1>5, <1>8, <2>1, <2>3
  <2>5. Busy(w)
    BY <1>2 DEF Busy
  <2>6. QED
    BY <1>1, <1>2, <1>8, <2>1, <2>2, <2>4, <2>5 DEF Alone
<1>10. Current'
  <2>1. \A v \in Writers : /\ at'[v].meta = at[v].meta
                           /\ at'[v].step = at[v].step \/ {at[v].step, at'[v].step} \subseteq Writing
    BY <1>2, <1>3
  <2>2. slips \subseteq {"cut"} /\ file # 0 => data'[file] = data[file]
    BY <1>8
  <2>3. Current /\ UNCHANGED <<tree, total, snap, file, slips>>
    BY <1>1, <1>2
  <2>4. QED
    BY ONLY <2>1, <2>2, <2>3, CurrentKept
<1>11. QED
  BY <1>6, <1>7, <1>9, <1>10, TypeParts, PTL DEF FileInv

LEMMA FlushInv ==
  ASSUME NEW w \in Writers, FileInv, Flush(w)
  PROVE  FileInv'
<1>1. Counts /\ Tasks /\ Files /\ Tidy /\ Alone /\ Current
  BY TypeParts DEF FileInv
<1>2. UNCHANGED <<tree, total, named, snap, ino, tmp, file, faults, slips>> /\ at[w].step = "flush"
  BY DEF Flush
<1>3. /\ at' \in [Writers -> Places]
      /\ at'[w].step = "replace"
      /\ at'[w].meta = at[w].meta
      /\ \A v \in Writers \ {w} : at'[v] = at[v]
  BY <1>1, StepTo DEF Flush, Steps
<1>4. ino[w] \in Inodes /\ data[ino[w]] \in Datum /\ snap[w] \in Snapshots
  BY <1>1, <1>2 DEF Files, Tasks
<1>5. /\ data' \in [Inodes -> Datum]
      /\ \A j \in Inodes \ {ino[w]} : data'[j] = data[j]
      /\ data[ino[w]].by = w /\ data[ino[w]].state = "partial" =>
             data'[ino[w]] = [state |-> "whole", by |-> w, snap |-> snap[w]]
  <2> DEFINE whole == [state |-> "whole", by |-> w, snap |-> snap[w]]
             torn == [data[ino[w]] EXCEPT !.state = "torn", !.by = "none"]
  <2>1. PICK d \in {whole, torn} :
            /\ data' = [data EXCEPT ![ino[w]] = d]
            /\ data[ino[w]].by = w /\ data[ino[w]].state = "partial" => d = whole
    BY DEF Flush
  <2>2. whole \in Datum /\ torn \in Datum
    BY <1>4 DEF Datum
  <2> HIDE DEF whole, torn
  <2>3. QED
    BY <1>1, <1>4, <2>1, <2>2 DEF Files, whole
<1>6. Counts' /\ Tasks' /\ Files'
  BY <1>1, <1>2, <1>3, <1>5 DEF Counts, Tasks, Files
<1>7. Tidy'
  BY <1>1, <1>2, <1>3 DEF Tidy
<1>8. ASSUME "overlap" \notin slips
      PROVE  /\ ino[w] = tmp
             /\ data[tmp] = [state |-> "partial", by |-> w, snap |-> snap[w]]
             /\ \A v \in Writers \ {w} : ~Busy(v) /\ ~Busy(v)'
             /\ file # 0 => data'[file] = data[file]
  <2>1. ino[w] = tmp /\ data[tmp] = [state |-> "partial", by |-> w, snap |-> snap[w]]
    BY <1>1, <1>2, <1>8 DEF Alone, Stage
  <2>2. \A v \in Writers \ {w} : ~Busy(v) /\ ~Busy(v)'
    BY <1>1, <1>2, <1>3, <1>8 DEF Alone, Busy
  <2>3. file # 0 => data'[file] = data[file]
    BY <1>1, <1>4, <1>5, <2>1 DEF Tidy, Files
  <2>4. QED
    BY <2>1, <2>2, <2>3
<1>9. Alone'
  <2>1. SUFFICES ASSUME "overlap" \notin slips PROVE Alone'
    BY <1>2 DEF Alone
  <2>2. /\ \A v \in Writers : Busy(v)' => v = w
        /\ \A v \in Writers : at'[v].step \in Writing => v = w
    BY <1>8, <2>1 DEF Busy
  <2>3. Stage(w)' = [state |-> "whole", by |-> w, snap |-> snap[w]]
    BY <1>2, <1>3 DEF Stage
  <2>4. data'[tmp] = Stage(w)'
    BY <1>5, <1>8, <2>1, <2>3
  <2>5. Busy(w)
    BY <1>2 DEF Busy
  <2>6. QED
    BY <1>1, <1>2, <1>8, <2>1, <2>2, <2>4, <2>5 DEF Alone
<1>10. Current'
  <2>1. \A v \in Writers : /\ at'[v].meta = at[v].meta
                           /\ at'[v].step = at[v].step \/ {at[v].step, at'[v].step} \subseteq Writing
    BY <1>2, <1>3
  <2>2. slips \subseteq {"cut"} /\ file # 0 => data'[file] = data[file]
    BY <1>8
  <2>3. Current /\ UNCHANGED <<tree, total, snap, file, slips>>
    BY <1>1, <1>2
  <2>4. QED
    BY ONLY <2>1, <2>2, <2>3, CurrentKept
<1>11. QED
  BY <1>6, <1>7, <1>9, <1>10, TypeParts, PTL DEF FileInv

\* Inodes that are still named keep what they hold.
LEMMA GoneKeeps ==
  ASSUME Files, ino' \in [Writers -> Inodes \cup {0}], file' \in Inodes \cup {0},
         tmp' \in Inodes \cup {0}, Gone
  PROVE  /\ data' \in [Inodes -> Datum]
         /\ file' # 0 => data'[file'] = data[file']
         /\ tmp' # 0 => data'[tmp'] = data[tmp']
         /\ \A v \in Writers : ino'[v] # 0 => data'[ino'[v]] = data[ino'[v]]
BY Records DEF Gone, Files

LEMMA ClosesTo ==
  ASSUME Tasks, Files, NEW w \in Writers, Closes(w)
  PROVE  /\ ino' \in [Writers -> Inodes \cup {0}]
         /\ ino'[w] = 0
         /\ \A v \in Writers \ {w} : ino'[v] = ino[v] /\ snap'[v] = snap[v]
         /\ snap' \in [Writers -> Snapshots]
BY Records DEF Closes, Tasks, Files

LEMMA WriteFailsInv ==
  ASSUME NEW w \in Writers, FileInv, WriteFails(w)
  PROVE  FileInv'
<1>1. Counts /\ Tasks /\ Files /\ Tidy /\ Alone /\ Current
  BY TypeParts DEF FileInv
<1>2. /\ UNCHANGED <<tree, total, named, file>>
      /\ tmp' = 0
      /\ at[w].step \in {"write", "flush"}
      /\ slips' = slips \cup {"failed"}
      /\ faults' \in 0..MaxFaults
  BY <1>1 DEF WriteFails, Strikes, Counts
<1>3. /\ at' \in [Writers -> Places]
      /\ at'[w].step = "rest"
      /\ \A v \in Writers \ {w} : at'[v] = at[v]
  BY <1>1, Records DEF WriteFails, Tasks
<1>4. /\ ino' \in [Writers -> Inodes \cup {0}]
      /\ ino'[w] = 0
      /\ \A v \in Writers \ {w} : ino'[v] = ino[v] /\ snap'[v] = snap[v]
      /\ snap' \in [Writers -> Snapshots]
  BY <1>1, ClosesTo DEF WriteFails
<1>5. data' \in [Inodes -> Datum] /\ (file # 0 => data'[file] = data[file])
  <2>1. file' \in Inodes \cup {0} /\ tmp' \in Inodes \cup {0}
    BY <1>1, <1>2 DEF Files
  <2>2. QED
    BY <1>1, <1>2, <1>4, <2>1, GoneKeeps DEF WriteFails
<1>6. Counts' /\ Tasks' /\ Files'
  BY <1>1, <1>2, <1>3, <1>4, <1>5 DEF Counts, Tasks, Files
<1>7. Tidy'
  BY <1>1, <1>2, <1>3 DEF Tidy
<1>8. Alone'
  <2>1. SUFFICES ASSUME "overlap" \notin slips PROVE Alone'
    BY <1>2 DEF Alone
  <2>2. \A v \in Writers : ~Busy(v)'
    BY <1>1, <1>2, <1>3, <2>1 DEF Alone, Busy
  <2>3. QED
    BY <1>1, <1>2, <1>5, <2>1, <2>2 DEF Alone, Busy
<1>9. Current'
  BY <1>2 DEF Current
<1>10. QED
  BY <1>6, <1>7, <1>8, <1>9, TypeParts, PTL DEF FileInv

LEMMA ReplaceInv ==
  ASSUME NEW w \in Writers, FileInv, Replace(w)
  PROVE  FileInv'
<1>1. Counts /\ Tasks /\ Files /\ Tidy /\ Alone /\ Current
  BY TypeParts DEF FileInv
<1>2. /\ UNCHANGED <<tree, total, named, faults>>
      /\ slips' = IF w = "turn" /\ at[w].meta THEN slips \ {"cut"} ELSE slips
      /\ at[w].step = "replace"
      /\ IF tmp # 0 THEN file' = tmp /\ tmp' = 0 ELSE file' = file /\ tmp' = tmp
  BY DEF Replace
<1>3. /\ at' \in [Writers -> Places]
      /\ \A v \in Writers \ {w} : at'[v] = at[v]
      /\ IF w = "turn" /\ ~at[w].meta /\ tmp # 0
         THEN at'[w].step = "load" ELSE at'[w].step = "rest"
  <2> DEFINE p == IF w = "turn" /\ ~at[w].meta /\ tmp # 0 THEN [step |-> "load", meta |-> FALSE]
                  ELSE Resting
  <2>1. at' = [at EXCEPT ![w] = p]
    BY DEF Replace
  <2>2. p \in Places /\ p.step = IF w = "turn" /\ ~at[w].meta /\ tmp # 0 THEN "load" ELSE "rest"
    BY Records DEF Places, Steps
  <2> HIDE DEF p
  <2>3. QED
    BY <1>1, <2>1, <2>2 DEF Tasks
<1>4. /\ ino' \in [Writers -> Inodes \cup {0}]
      /\ ino'[w] = 0
      /\ \A v \in Writers \ {w} : ino'[v] = ino[v] /\ snap'[v] = snap[v]
      /\ snap' \in [Writers -> Snapshots]
  BY <1>1, ClosesTo DEF Replace
<1>5. /\ file' \in Inodes \cup {0} /\ tmp' = 0
      /\ file # 0 => file' # 0
      /\ at'[w].step = "load" => file' # 0
  BY <1>1, <1>2, <1>3 DEF Files
<1>6. data' \in [Inodes -> Datum] /\ (file' # 0 => data'[file'] = data[file'])
  BY <1>1, <1>4, <1>5, GoneKeeps DEF Replace
<1>7. Counts' /\ Tasks' /\ Files'
  BY <1>1, <1>2, <1>3, <1>4, <1>5, <1>6 DEF Counts, Tasks, Files
<1>8. Tidy'
  BY <1>1, <1>2, <1>3, <1>5 DEF Tidy
<1>9. ASSUME "overlap" \notin slips
      PROVE  /\ file' = tmp /\ tmp # 0
             /\ data'[file'] = [state |-> "whole", by |-> w, snap |-> snap[w]]
             /\ \A v \in Writers \ {w} : ~Busy(v)
             /\ \A v \in Writers : ~Busy(v)'
  <2>1. ino[w] = tmp /\ tmp # 0
    BY <1>1, <1>2, <1>9 DEF Alone, Files
  <2>2. data[tmp] = [state |-> "whole", by |-> w, snap |-> snap[w]]
    BY <1>1, <1>2, <1>9 DEF Alone, Stage
  <2>3. \A v \in Writers \ {w} : ~Busy(v)
    BY <1>1, <1>2, <1>9 DEF Alone, Busy
  <2>4. \A v \in Writers : ~Busy(v)'
    BY <1>3, <2>3 DEF Busy
  <2>5. QED
    BY <1>2, <1>6, <2>1, <2>2, <2>3, <2>4
<1>10. Alone'
  <2>1. SUFFICES ASSUME "overlap" \notin slips PROVE Alone'
    BY <1>2 DEF Alone
  <2>2. \A v \in Writers : at'[v].step \notin Writing
    BY <1>9, <2>1 DEF Busy
  <2>3. snap[w].nodes <= tree.nodes
    BY <1>1, <1>2, <2>1 DEF Alone, Busy
  <2>4. data'[file'].state = "whole" /\ data'[file'].snap.nodes <= tree'.nodes
    BY <1>2, <1>9, <2>1, <2>3
  <2>5. QED
    BY <1>9, <2>1, <2>2, <2>4 DEF Alone
<1>11. Current'
  <2>1. SUFFICES ASSUME slips \subseteq {"cut"}, "overlap" \notin slips PROVE Current'
    BY <1>2 DEF Current
  <2>2. /\ file' # 0
        /\ data'[file'].snap = snap[w] /\ data'[file'].by = w
        /\ \A v \in Writers \ {w} : ~Busy(v)
        /\ \A v \in Writers : ~Busy(v)'
        /\ Busy(w)
    BY <1>2, <1>9, <2>1 DEF Busy
  <2>3. at["titler"].step = "load" => tree.title = "llm"
    BY <1>1, <2>1 DEF Current
  <2>3a. at'["turn"] = at["turn"] /\ w # "turn" => (Cut' <=> Cut)
    BY <1>2 DEF Cut
  <2>4. CASE w = "turn"
    <3>1. /\ snap["turn"].nodes = tree.nodes
          /\ snap["turn"].title = tree.title \/ at["titler"].step = "load"
          /\ at["turn"].meta => snap["turn"].total = total
      BY <1>1, <2>1, <2>2, <2>4 DEF Current, Cut, Titled
    <3>2. /\ at'["turn"].step = "rest" => at["turn"].meta
          /\ at'["turn"].step \in {"rest", "load"}
      BY <1>3, <1>9, <2>1, <2>4
    <3>3. at'["titler"] = at["titler"]
      BY <1>3, <2>4
    <3>4. QED
      BY <1>2, <2>2, <2>3, <2>4, <3>1, <3>2, <3>3 DEF Current, Cut, Titled
  <2>5. CASE w = "titler"
    <3>1. /\ tree.title = "llm" /\ snap["titler"].title = "llm"
          /\ snap["titler"].total = 0
          /\ at["turn"].step = "tree" \/ Cut \/ snap["titler"].nodes = tree.nodes
      BY <1>1, <2>1, <2>2, <2>5 DEF Current
    <3>2. at'["turn"] = at["turn"] /\ at'["titler"].step = "rest" /\ (Cut' <=> Cut)
      BY <1>3, <2>3a, <2>5
    <3>3. QED
      BY <1>2, <2>2, <2>5, <3>1, <3>2 DEF Current, Titled
  <2>6. CASE w = "cancelled"
    <3>1. at["turn"].step = "tree" \/ Cut
      BY <1>1, <2>1, <2>2, <2>6 DEF Current
    <3>2. at'["turn"] = at["turn"] /\ at'["titler"] = at["titler"] /\ (Cut' <=> Cut)
      BY <1>3, <2>3a, <2>6
    <3>3. at'["turn"].step = "tree" \/ Cut'
      BY <3>1, <3>2
    <3>4. Cut' => at'["turn"].step = "rest"
      BY DEF Cut
    <3>5. QED
      BY <1>2, <2>2, <2>3, <3>2, <3>3, <3>4 DEF Current
  <2>7. QED
    BY <2>4, <2>5, <2>6
<1>12. QED
  BY <1>7, <1>8, <1>10, <1>11, TypeParts, PTL DEF FileInv

\* A thread that has begun to write goes on as "cancelled".
LEMMA HandedOver ==
  ASSUME FileInv, CancelSave, ino["turn"] # 0
  PROVE  FileInv'
<1>1. Counts /\ Tasks /\ Files /\ Tidy /\ Alone /\ Current
  BY TypeParts DEF FileInv
<1> DEFINE Again == [step |-> "tree", meta |-> FALSE]
<1>2. /\ UNCHANGED <<tree, total, named, tmp, file>>
      /\ faults' \in 0..MaxFaults
      /\ at["turn"].step \in Writing
      /\ at["cancelled"].step = "rest"
  BY <1>1 DEF CancelSave, Strikes, Counts, Files
<1>2a. PICK next \in {Again, Resting} :
           /\ slips' = IF next = Resting THEN slips \cup {"cut"} ELSE slips
           /\ at' = [at EXCEPT !["cancelled"] = at["turn"], !["turn"] = next]
           /\ ino' = [ino EXCEPT !["cancelled"] = ino["turn"], !["turn"] = 0]
           /\ data' = [data EXCEPT ![ino["turn"]].by = IF @ = "turn" THEN "cancelled" ELSE @]
  BY DEF CancelSave
<1>2b. /\ Again \in Places /\ Again.step = "tree" /\ Again.meta = FALSE
       /\ Resting \in Places /\ Resting.step = "rest" /\ Resting.meta = FALSE
  BY DEF Resting, Places, Steps
<1> HIDE DEF Again
<1>2c. /\ slips' \subseteq {"overlap", "failed", "cut"}
       /\ slips \subseteq slips'
       /\ "overlap" \in slips' <=> "overlap" \in slips
       /\ slips' \subseteq {"cut"} => slips \subseteq {"cut"} /\ "overlap" \notin slips
  BY <1>1, <1>2a DEF Counts
<1>3. /\ at' \in [Writers -> Places]
      /\ at'["cancelled"] = at["turn"]
      /\ at'["turn"].step \in {"tree", "rest"} /\ at'["turn"].meta = FALSE
      /\ at'["turn"].step = "rest" => "cut" \in slips'
      /\ at'["titler"] = at["titler"]
  BY <1>1, <1>2a, <1>2b DEF Tasks
<1>4. /\ snap' \in [Writers -> Snapshots]
      /\ snap'["cancelled"] = snap["turn"]
      /\ snap'["titler"] = snap["titler"]
  BY <1>1, Records DEF CancelSave, Tasks
<1>5. /\ ino' \in [Writers -> Inodes \cup {0}]
      /\ ino'["cancelled"] = ino["turn"]
      /\ ino'["turn"] = 0
      /\ ino'["titler"] = ino["titler"]
      /\ ino["turn"] \in Inodes
      /\ ino["cancelled"] = 0
  BY <1>1, <1>2, <1>2a DEF Files
<1>6. PICK d \in Datum :
          /\ data' = [data EXCEPT ![ino["turn"]] = d]
          /\ d = [data[ino["turn"]] EXCEPT !.by = IF data[ino["turn"]].by = "turn" THEN "cancelled"
                                                  ELSE data[ino["turn"]].by]
  <2> DEFINE d == [data[ino["turn"]] EXCEPT !.by = IF data[ino["turn"]].by = "turn" THEN "cancelled"
                                                   ELSE data[ino["turn"]].by]
  <2>1. data[ino["turn"]] \in Datum
    BY <1>1, <1>5 DEF Files
  <2>2. d \in Datum
    BY <2>1 DEF Datum
  <2>3. data' = [data EXCEPT ![ino["turn"]] = d]
    BY <1>2a
  <2>4. QED
    BY <2>2, <2>3
<1>7. /\ data' \in [Inodes -> Datum]
      /\ data'[ino["turn"]] = d
      /\ \A j \in Inodes \ {ino["turn"]} : data'[j] = data[j]
  BY <1>1, <1>5, <1>6 DEF Files
<1>8. Counts' /\ Tasks' /\ Files'
  <2>1. Counts'
    BY <1>1, <1>2, <1>2c DEF Counts
  <2>2. Tasks'
    BY <1>3, <1>4 DEF Tasks
  <2>3. Files'
    BY <1>1, <1>2, <1>3, <1>5, <1>7 DEF Files
  <2>4. QED
    BY <2>1, <2>2, <2>3
<1>9. Tidy'
  <2>1. tmp # 0 => \E v \in Writers : ino'[v] = tmp
    BY <1>1, <1>5 DEF Tidy
  <2>2. QED
    BY <1>1, <1>2, <1>3, <2>1 DEF Tidy
<1>10. ASSUME "overlap" \notin slips
       PROVE  /\ ino["turn"] = tmp /\ data[tmp] = Stage("turn")
              /\ file # 0 => file # tmp /\ data'[file] = data[file]
              /\ \A v \in Writers : Busy(v)' <=> v = "cancelled"
  <2>1. ino["turn"] = tmp /\ data[tmp] = Stage("turn")
    BY <1>1, <1>2, <1>10 DEF Alone
  <2>2. file # 0 => file # tmp /\ data'[file] = data[file]
    BY <1>1, <1>5, <1>7, <2>1 DEF Tidy, Files
  <2>3. ~Busy("titler") /\ Busy("turn")
    BY <1>1, <1>2, <1>10 DEF Alone, Busy
  <2>4. \A v \in Writers : Busy(v)' <=> v = "cancelled"
    BY <1>3, <2>3 DEF Busy
  <2>5. QED
    BY <2>1, <2>2, <2>4
<1>11. Alone'
  <2>1. SUFFICES ASSUME "overlap" \notin slips PROVE Alone'
    BY <1>2c DEF Alone
  <2>2. data[tmp] \in Datum /\ data[tmp] = Stage("turn") /\ data'[tmp] = d
    BY <1>1, <1>5, <1>7, <1>10, <2>1 DEF Files
  <2>3. data'[tmp] = Stage("cancelled")'
    <3>1. CASE at["turn"].step = "write"
      <4>1. data[tmp] = NoData
        BY <2>2, <3>1 DEF Stage
      <4>2. d = NoData
        BY <1>6, <1>10, <2>1, <4>1 DEF NoData
      <4>3. QED
        BY <1>3, <2>2, <3>1, <4>2 DEF Stage
    <3>2. CASE at["turn"].step = "flush"
      <4>1. data[tmp] = [state |-> "partial", by |-> "turn", snap |-> snap["turn"]]
        BY <2>2, <3>2 DEF Stage
      <4>2. d = [state |-> "partial", by |-> "cancelled", snap |-> snap["turn"]]
        BY <1>6, <1>10, <2>1, <4>1
      <4>3. Stage("cancelled")' = [state |-> "partial", by |-> "cancelled", snap |-> snap'["cancelled"]]
        BY <1>3, <3>2 DEF Stage
      <4>4. QED
        BY <1>4, <2>2, <4>2, <4>3
    <3>3. CASE at["turn"].step = "replace"
      <4>1. data[tmp] = [state |-> "whole", by |-> "turn", snap |-> snap["turn"]]
        BY <2>2, <3>3 DEF Stage
      <4>2. d = [state |-> "whole", by |-> "cancelled", snap |-> snap["turn"]]
        BY <1>6, <1>10, <2>1, <4>1
      <4>3. Stage("cancelled")' = [state |-> "whole", by |-> "cancelled", snap |-> snap'["cancelled"]]
        BY <1>3, <3>3 DEF Stage
      <4>4. QED
        BY <1>4, <2>2, <4>2, <4>3
    <3>4. QED
      BY <1>2, <3>1, <3>2, <3>3
  <2>4. \A v \in Writers : at'[v].step \in Writing => v = "cancelled"
    BY <1>10, <2>1 DEF Busy
  <2>5. /\ snap["turn"].nodes <= tree.nodes
        /\ file # 0 => data[file].snap.nodes <= snap["turn"].nodes
    BY <1>1, <1>2, <2>1 DEF Alone, Busy
  <2>6. file # 0 => data[file].state = "whole" /\ data[file].snap.nodes <= tree.nodes
    BY <1>1, <2>1 DEF Alone
  <2>7. QED
    BY <1>2, <1>4, <1>5, <1>10, <2>1, <2>3, <2>4, <2>5, <2>6 DEF Alone
<1>12. Current'
  <2>1. SUFFICES ASSUME slips' \subseteq {"cut"} PROVE Current'
    BY DEF Current
  <2>2. slips \subseteq {"cut"} /\ "overlap" \notin slips
    BY <1>2c, <2>1
  <2>3. ~Busy("titler")' /\ ~Busy("turn")'
    BY <1>10, <2>2
  <2>4. at["titler"].step = "load" => tree.title = "llm"
    BY <1>1, <2>2 DEF Current
  <2>5. at'["turn"].step = "rest" => Cut'
    BY <1>3 DEF Cut
  <2>6. at'["turn"].step # "load" /\ (at'["turn"].step = "tree" \/ at'["turn"].step = "rest")
    BY <1>3
  <2>7. QED
    BY <1>2, <1>3, <2>3, <2>4, <2>5, <2>6 DEF Current
<1>13. QED
  BY <1>8, <1>9, <1>11, <1>12, TypeParts, PTL DEF FileInv

LEMMA CancelSaveInv == FileInv /\ CancelSave => FileInv'
<1> SUFFICES ASSUME FileInv, CancelSave, ino["turn"] = 0 PROVE FileInv'
  BY HandedOver
<1>1. Counts /\ Tasks /\ Files /\ Tidy /\ Alone /\ Current
  BY TypeParts DEF FileInv
<1> DEFINE Again == [step |-> "tree", meta |-> FALSE]
<1>2. /\ UNCHANGED <<tree, total, named, tmp, file, ino, data>>
      /\ faults' \in 0..MaxFaults
  BY <1>1 DEF CancelSave, Strikes, Counts
<1>3. PICK next \in {Again, Resting} :
          /\ slips' = IF next = Resting THEN slips \cup {"cut"} ELSE slips
          /\ at' = [at EXCEPT !["turn"] = next]
  BY DEF CancelSave
<1>4. /\ Again \in Places /\ Again.step = "tree" /\ Again.meta = FALSE
      /\ Resting \in Places /\ Resting.step = "rest" /\ Resting.meta = FALSE
  BY DEF Resting, Places, Steps
<1> HIDE DEF Again
<1>5. /\ slips' \subseteq {"overlap", "failed", "cut"}
      /\ slips \subseteq slips'
      /\ "overlap" \in slips' => "overlap" \in slips
  BY <1>1, <1>3 DEF Counts
<1>6. /\ at' \in [Writers -> Places]
      /\ at'["turn"].step \in {"tree", "rest"} /\ at'["turn"].meta = FALSE
      /\ at'["turn"].step = "rest" => "cut" \in slips'
      /\ at'["titler"] = at["titler"]
      /\ at'["cancelled"] = at["cancelled"]
  BY <1>1, <1>3, <1>4 DEF Tasks
<1>7. /\ snap' \in [Writers -> Snapshots]
      /\ snap'["titler"] = snap["titler"]
      /\ snap'["cancelled"] = snap["cancelled"]
  BY <1>1, Records DEF CancelSave, Tasks
<1>8. at["turn"].step \notin Writing
  BY <1>1 DEF Files
<1>9. Counts' /\ Tasks' /\ Files'
  BY <1>1, <1>2, <1>5, <1>6, <1>7, <1>8 DEF Counts, Tasks, Files
<1>10. Tidy'
  BY <1>1, <1>2, <1>6 DEF Tidy
<1>11. ~Busy("turn")' /\ (Busy("titler")' <=> Busy("titler")) /\ (Busy("cancelled")' <=> Busy("cancelled"))
  BY <1>6 DEF Busy
<1>12. Alone'
  <2>1. SUFFICES ASSUME "overlap" \notin slips PROVE Alone'
    BY <1>5 DEF Alone
  <2>2. ASSUME NEW v \in Writers, at'[v].step \in Writing
        PROVE  at[v].step \in Writing /\ Stage(v)' = Stage(v)
    BY <1>6, <1>7, <2>2 DEF Stage
  <2>3. \A v \in Writers : Busy(v)' => Busy(v) /\ snap'[v] = snap[v]
    BY <1>7, <1>11
  <2>4. QED
    BY <1>1, <1>2, <2>1, <2>2, <2>3 DEF Alone
<1>13. Current'
  <2>1. SUFFICES ASSUME slips' \subseteq {"cut"} PROVE Current'
    BY DEF Current
  <2>2. slips \subseteq {"cut"}
    BY <1>5, <2>1
  <2>3. at'["turn"].step = "tree" \/ Cut'
    BY <1>6 DEF Cut
  <2>4. /\ at["titler"].step = "load" => tree.title = "llm"
        /\ Busy("titler") => tree.title = "llm" /\ snap["titler"].title = "llm" /\ snap["titler"].total = 0
    BY <1>1, <2>2 DEF Current
  <2>5. at'["turn"].step = "rest" => Cut'
    BY <2>3
  <2>6. QED
    BY <1>2, <1>6, <1>7, <1>11, <2>3, <2>4, <2>5 DEF Current
<1>14. QED
  BY <1>9, <1>10, <1>12, <1>13, TypeParts, PTL DEF FileInv

LEMMA RestartInv == FileInv /\ Restart => FileInv'
<1> SUFFICES ASSUME FileInv, Restart PROVE FileInv'
  OBVIOUS
<1>1. Counts /\ Tasks /\ Files /\ Tidy /\ Alone /\ Current
  BY TypeParts DEF FileInv
<1>2. /\ file' = file /\ slips' = slips \ {"cut"} /\ tmp' = 0
      /\ tree' = IF Readable(file) THEN data[file].snap ELSE NoSnapshot
      /\ total' = tree'.total
      /\ faults' \in 0..MaxFaults
      /\ named' \in BOOLEAN
  BY <1>1 DEF Restart, Strikes, Counts
<1>3. tree' \in Snapshots /\ total' \in Nat
  <2>1. Readable(file) => data[file].snap \in Snapshots
    BY <1>1 DEF Readable, Files, Datum
  <2>2. tree' \in Snapshots
    BY <1>2, <2>1, Records
  <2>3. QED
    BY <1>2, <2>2 DEF Snapshots
<1>4. /\ at' \in [Writers -> Places]
      /\ \A v \in Writers : at'[v].step = "rest"
      /\ snap' \in [Writers -> Snapshots]
      /\ ino' \in [Writers -> Inodes \cup {0}]
      /\ \A v \in Writers : ino'[v] = 0
  BY Records DEF Restart
<1>5. data' \in [Inodes -> Datum] /\ (file # 0 => data'[file] = data[file])
  <2>1. file' \in Inodes \cup {0} /\ tmp' \in Inodes \cup {0}
    BY <1>1, <1>2 DEF Files
  <2>2. QED
    BY <1>1, <1>2, <1>4, <2>1, GoneKeeps DEF Restart
<1>6. Counts' /\ Tasks' /\ Files'
  BY <1>1, <1>2, <1>3, <1>4, <1>5 DEF Counts, Tasks, Files
<1>7. Tidy'
  BY <1>2, <1>4 DEF Tidy
<1>8. \A v \in Writers : ~Busy(v)' /\ at'[v].step \notin Writing
  BY <1>4 DEF Busy
<1>9. ASSUME "overlap" \notin slips, file # 0
      PROVE  data'[file].state = "whole" /\ data'[file].snap = tree'
  BY <1>1, <1>2, <1>5, <1>9 DEF Alone, Readable
<1>10. Alone'
  <2>1. tree'.nodes \in Nat
    BY <1>3 DEF Snapshots
  <2>2. QED
    BY <1>2, <1>8, <1>9, <2>1 DEF Alone
<1>11. Current'
  <2>1. SUFFICES ASSUME slips' \subseteq {"cut"}, "overlap" \notin slips PROVE Current'
    BY <1>2 DEF Current
  <2>2. file # 0 => data'[file].snap = tree' /\ data'[file].snap.total = total'
    BY <1>2, <1>9, <2>1
  <2>3. QED
    BY <1>2, <1>4, <1>8, <2>2 DEF Current, Titled
<1>12. QED
  BY <1>6, <1>7, <1>10, <1>11, TypeParts, PTL DEF FileInv

----------------------------------------------------------------------------

LEMMA StutterInv == FileInv /\ UNCHANGED vars => FileInv'
<1> SUFFICES ASSUME FileInv, UNCHANGED vars PROVE FileInv'
  OBVIOUS
<1>1. Counts /\ Tasks /\ Files /\ Tidy /\ Alone /\ Current
  BY TypeParts DEF FileInv
<1>2. Counts' /\ Tasks' /\ Files' /\ Tidy'
  BY <1>1 DEF vars, Counts, Tasks, Files, Tidy
<1>3. Alone'
  BY <1>1 DEF vars, Alone, Busy, Stage
<1>4. Current'
  BY <1>1 DEF vars, Current, Cut, Busy, Titled
<1>5. QED
  BY <1>2, <1>3, <1>4, TypeParts, PTL DEF FileInv

LEMMA StepInv == FileInv /\ [Next]_vars => FileInv'
<1> SUFFICES ASSUME FileInv, [Next]_vars PROVE FileInv'
  OBVIOUS
<1>1. CASE Checkpoint
  BY <1>1, CheckpointInv
<1>2. CASE AskForTitle
  BY <1>2, AskForTitleInv
<1>3. CASE TitleArrives
  BY <1>3, TitleArrivesInv
<1>4. CASE CancelSave
  BY <1>4, CancelSaveInv
<1>5. CASE Restart
  BY <1>5, RestartInv
<1>6. ASSUME NEW w \in Writers,
             Load(w) \/ Open(w) \/ Write(w) \/ Flush(w) \/ WriteFails(w) \/ Replace(w)
      PROVE  FileInv'
  BY <1>6, LoadInv, OpenInv, WriteInv, FlushInv, WriteFailsInv, ReplaceInv
<1>7. CASE UNCHANGED vars
  BY <1>7, StutterInv
<1>8. QED
  BY <1>1, <1>2, <1>3, <1>4, <1>5, <1>6, <1>7 DEF Next

\* The inductive invariant: saves that do not overlap have the temporary file for themselves,
\* and until one fails, who still writes brings the file up to the session, except after a
\* save of the turn that was cut short and that no other follows.
THEOREM FileInvariant == Spec => []FileInv
BY InitInv, StepInv, PTL DEF Spec

\* A session that was saved once can always be resumed, wherever the process dies and
\* whatever write fails, unless two saves overlapped.
THEOREM FileAlwaysLoads == Spec => []FileLoads
<1>1. FileInv => FileLoads
  BY DEF FileInv, Alone, FileLoads
<1>2. QED
  BY <1>1, FileInvariant, PTL

\* When nothing is being written no temporary file is left; and when no two saves overlapped,
\* none failed and the turn's last save was not cut short, the file is the session.
THEOREM QuietFile == Spec => []QuietFileIsSession
<1>1. FileInv => QuietFileIsSession
  <2> SUFFICES ASSUME FileInv, \A w \in Writers : at[w].step = "rest"
               PROVE  /\ tmp = 0
                      /\ file # 0 /\ slips = {} =>
                             /\ data[file].state = "whole"
                             /\ \/ data[file].snap = [tree EXCEPT !.total = total]
                                \/ data[file].by = "titler" /\ data[file].snap = [tree EXCEPT !.total = 0]
    BY DEF QuietFileIsSession, FileIsSession
  <2>1. Counts /\ Tasks /\ Files /\ Tidy /\ Alone /\ Current
    BY TypeParts DEF FileInv
  <2>2. tmp = 0
    BY <2>1 DEF Tidy, Files
  <2>3. ASSUME file # 0, slips = {}
        PROVE  /\ data[file].state = "whole"
               /\ \/ data[file].snap = [tree EXCEPT !.total = total]
                  \/ data[file].by = "titler" /\ data[file].snap = [tree EXCEPT !.total = 0]
    <3>1. data[file].state = "whole"
      BY <2>1, <2>3 DEF Alone
    <3>2. /\ data[file].snap.nodes = tree.nodes
          /\ data[file].snap.title = tree.title
          /\ \/ data[file].snap.total = total
             \/ data[file].by = "titler" /\ data[file].snap.total = 0
      BY <2>1, <2>3 DEF Current, Cut, Titled, Busy
    <3>3. data[file].snap \in Snapshots /\ tree \in Snapshots
      BY <2>1, <2>3 DEF Files, Datum, Counts
    <3>4. \A n : data[file].snap.total = n => data[file].snap = [tree EXCEPT !.total = n]
      BY <3>2, <3>3 DEF Snapshots
    <3>5. QED
      BY <3>1, <3>2, <3>4
  <2>4. QED
    BY <2>2, <2>3
<1>2. QED
  BY <1>1, FileInvariant, PTL

\* A save is never undone by a save that did not overlap with it.
THEOREM SavedNodesKept == Spec => NodesKept
<1>1. ASSUME FileInv, [Next]_vars
      PROVE  [Readable(file) /\ Readable(file') /\ file' # file /\ "overlap" \notin slips =>
                data'[file'].snap.nodes >= data[file].snap.nodes]_vars
  <2>1. SUFFICES ASSUME file' # file, file # 0, "overlap" \notin slips
                 PROVE  data'[file'].snap.nodes >= data[file].snap.nodes
    BY DEF Readable
  <2>2. PICK w \in Writers : Replace(w)
    BY <1>1, <2>1 DEF Next, vars, Checkpoint, AskForTitle, TitleArrives, CancelSave, Restart,
                      Load, Open, Write, Flush, WriteFails
  <2>3. Counts /\ Tasks /\ Files /\ Tidy /\ Alone
    BY <1>1, TypeParts DEF FileInv
  <2>4. at[w].step = "replace" /\ file' = tmp /\ tmp # 0 /\ tmp' = 0
    BY <2>1, <2>2 DEF Replace
  <2>5. data[tmp].snap = snap[w]
    BY <2>1, <2>3, <2>4 DEF Alone, Stage
  <2>6. data[file].snap.nodes <= snap[w].nodes
    BY <2>1, <2>3, <2>4 DEF Alone, Busy
  <2>7. data'[file'] = data[tmp]
    <3>1. ino' \in [Writers -> Inodes \cup {0}]
      BY <2>2, <2>3, ClosesTo DEF Replace
    <3>2. file' \in Inodes \cup {0} /\ tmp' \in Inodes \cup {0}
      BY <2>3, <2>4 DEF Files
    <3>3. QED
      BY <2>2, <2>3, <2>4, <3>1, <3>2, GoneKeeps DEF Replace
  <2>8. data[file].snap.nodes \in Nat /\ snap[w].nodes \in Nat
    BY <2>1, <2>3 DEF Files, Tasks, Datum, Snapshots
  <2>9. QED
    BY <2>5, <2>6, <2>7, <2>8
<1>2. QED
  BY <1>1, FileInvariant, PTL DEF Spec, NodesKept
=============================================================================
