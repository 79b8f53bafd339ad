---------------------------- MODULE SessionFile ----------------------------
(***************************************************************************)
(* The file of one session (JsonlStorage, phoson_agent/sessions/           *)
(* storage_jsonl.py) and the tasks of one process that write it: the turn  *)
(* (SessionController._save_session: save, then save_meta) and the         *)
(* background task that names the session (SessionTitler: save_meta).      *)
(*                                                                         *)
(* Every save runs in a worker thread of asyncio.to_thread, so two of them *)
(* may overlap.  They write the same temporary file, <file>.tmp.<pid>.     *)
(* What a file holds is a snapshot of the tree: how many nodes, the totals *)
(* of its meta record and the title.                                       *)
(***************************************************************************)
EXTENDS Naturals

CONSTANTS
    LlmTitles,    \* config.llm_titles
    MaxSteps,     \* bound: checkpoints
    MaxFaults     \* bound: saves that are cancelled (the final save, or any save under a sink
                  \* without protect_persistence), writes that raise and deaths of the process

ASSUME FileAssumption ==
    /\ LlmTitles \in BOOLEAN
    /\ MaxSteps \in Nat
    /\ MaxFaults \in Nat

\* "cancelled" is the thread of a save whose task is gone.
Writers == {"turn", "titler", "cancelled"}

Snapshots == [nodes : Nat, total : Nat, title : {"none", "first", "llm"}]

Inodes == 1..4

VARIABLES
    tree,     \* ConversationTree in memory; its total is what the file had when loaded
    total,    \* SessionMetrics, one unit per checkpointed step
    named,    \* the LLM title was asked for
    at,       \* what each writer does next
    snap,     \* what each writer is writing, or has loaded
    ino,      \* the inode each writer holds open
    data,     \* what each inode holds
    tmp,      \* the inode <file>.tmp.<pid> names, 0 for none
    file,     \* the inode of the session file, 0 for none
    faults,
    slips     \* history: "overlap" once two saves overlapped, "failed" once one failed, "cut"
              \* while a cancelled save of the turn has not been made up for by another

vars == <<tree, total, named, at, snap, ino, data, tmp, file, faults, slips>>

\* rest      not writing
\* tree      save(tree): open the temporary file for the tree in memory
\* load      save_meta: load the file
\* meta      save_meta: open the temporary file for the tree that was loaded
\* write, flush, replace: the steps of _save_sync
\* thinking  the titler awaits the model
Steps == {"rest", "tree", "load", "meta", "write", "flush", "replace", "thinking"}

NoSnapshot == [nodes |-> 0, total |-> 0, title |-> "none"]

NoData == [state |-> "empty", by |-> "none", snap |-> NoSnapshot]

FileTypeOK ==
    /\ tree \in Snapshots
    /\ total \in Nat
    /\ named \in BOOLEAN
    /\ at \in [Writers -> [step : Steps, meta : BOOLEAN]]
    /\ snap \in [Writers -> Snapshots]
    /\ ino \in [Writers -> Inodes \cup {0}]
    /\ \A w \in Writers : ino[w] # 0 <=> at[w].step \in {"write", "flush", "replace"}
    /\ data \in [Inodes -> [state : {"empty", "partial", "whole", "torn"},
                            by : Writers \cup {"none"}, snap : Snapshots]]
    /\ tmp \in Inodes \cup {0}
    /\ file \in Inodes \cup {0}
    /\ faults \in 0..MaxFaults
    /\ slips \subseteq {"overlap", "failed", "cut"}

Resting == [step |-> "rest", meta |-> FALSE]

Init ==
    /\ tree = NoSnapshot
    /\ total = 0
    /\ named = FALSE
    /\ at = [w \in Writers |-> Resting]
    /\ snap = [w \in Writers |-> NoSnapshot]
    /\ ino = [w \in Writers |-> 0]
    /\ data = [i \in Inodes |-> NoData]
    /\ tmp = 0
    /\ file = 0
    /\ faults = 0
    /\ slips = {}

\* A save begins with what it reads: the tree, or the file it is going to replace.
Begins(w) ==
    slips' = slips \cup (IF \E v \in Writers \ {w} : at[v].step \in {"meta", "write", "flush", "replace"}
                        THEN {"overlap"} ELSE {})

\* An inode that nothing names any more is gone.
Gone == data' = [i \in Inodes |-> IF i \in {file', tmp'} \cup {ino'[v] : v \in Writers}
                                  THEN data[i] ELSE NoData]

\* The writer is done, or its save has failed.
Closes(w) ==
    /\ ino' = [ino EXCEPT ![w] = 0]
    /\ IF at'[w].step = "rest" THEN snap' = [snap EXCEPT ![w] = NoSnapshot] ELSE UNCHANGED snap

Strikes == faults < MaxFaults /\ faults' = faults + 1

Step(w, step) == at' = [at EXCEPT ![w].step = step]

----------------------------------------------------------------------------
(* The turn and the titler.                                                 *)

\* A step of the run reaches the tree and is checkpointed; ensure_title names the tree.
Checkpoint ==
    /\ at["turn"].step = "rest"
    /\ tree.nodes < MaxSteps
    /\ tree' = [tree EXCEPT !.nodes = @ + 1, !.title = IF @ = "none" THEN "first" ELSE @]
    /\ total' = total + 1
    /\ at' = [at EXCEPT !["turn"] = [step |-> "tree", meta |-> FALSE]]
    /\ UNCHANGED <<named, snap, ino, data, tmp, file, faults, slips>>

\* schedule_llm_title, once, after a completed turn.
AskForTitle ==
    /\ LlmTitles
    /\ ~named
    /\ tree.title = "first"
    /\ at["turn"].step = "rest"
    /\ file # 0
    /\ named' = TRUE
    /\ Step("titler", "thinking")
    /\ UNCHANGED <<tree, total, snap, ino, data, tmp, file, faults, slips>>

\* generate_llm_title, from the model's answer on.
TitleArrives ==
    /\ at["titler"].step = "thinking"
    /\ \/ tree' = [tree EXCEPT !.title = "llm"] /\ Step("titler", "load")
       \/ UNCHANGED tree /\ Step("titler", "rest")
    /\ UNCHANGED <<total, named, snap, ino, data, tmp, file, faults, slips>>

----------------------------------------------------------------------------
(* save_meta and _save_sync.                                                *)

Readable(i) == i # 0 /\ data[i].state = "whole"

\* Seeded fault: the totals of the meta record are not updated.
Load_KeepsTotal(w) ==
    /\ at[w].step = "load"
    /\ \/ /\ Readable(file)
          /\ snap' = [snap EXCEPT ![w] = data[file].snap]
          /\ at' = [at EXCEPT ![w] = [step |-> "meta", meta |-> TRUE]]
       \/ /\ ~Readable(file)
          /\ at' = [at EXCEPT ![w] = Resting]
          /\ UNCHANGED snap
    /\ Begins(w)
    /\ UNCHANGED <<tree, total, named, ino, data, tmp, file, faults>>

\* The turn hands in its metrics, the titler a dict that holds only the title: the totals
\* it leaves out become 0.  A file that does not parse raises.
Load(w) ==
    /\ at[w].step = "load"
    /\ \/ /\ Readable(file)
          /\ snap' = [snap EXCEPT ![w] =
                        IF w = "turn" THEN [data[file].snap EXCEPT !.total = total]
                        ELSE [data[file].snap EXCEPT !.total = 0, !.title = "llm"]]
          /\ at' = [at EXCEPT ![w] = [step |-> "meta", meta |-> TRUE]]
       \/ /\ ~Readable(file)
          /\ at' = [at EXCEPT ![w] = Resting]
          /\ UNCHANGED snap
    /\ Begins(w)
    /\ UNCHANGED <<tree, total, named, ino, data, tmp, file, faults>>

\* Seeded fault: the session file itself is opened for writing.
Open_InPlace(w) ==
    /\ at[w].step \in {"tree", "meta"}
    /\ snap' = [snap EXCEPT ![w] = IF at[w].step = "tree" THEN tree ELSE @]
    /\ \E i \in Inodes :
          /\ IF file = 0 THEN \A v \in Writers : ino[v] # i ELSE i = file
          /\ ino' = [ino EXCEPT ![w] = i]
          /\ data' = [data EXCEPT ![i] = NoData]
          /\ tmp' = i
          /\ file' = i
    /\ Step(w, "write")
    /\ Begins(w)
    /\ UNCHANGED <<tree, total, named, faults>>

\* open("w") truncates the temporary file when another thread has already made it.
Open(w) ==
    /\ at[w].step \in {"tree", "meta"}
    /\ snap' = [snap EXCEPT ![w] = IF at[w].step = "tree" THEN tree ELSE @]
    /\ LET fresh == {i \in Inodes : i # file /\ \A v \in Writers : ino[v] # i}
           i == IF tmp # 0 THEN tmp ELSE CHOOSE j \in fresh : TRUE
       IN  /\ ino' = [ino EXCEPT ![w] = i]
           /\ data' = [data EXCEPT ![i] = NoData]
           /\ tmp' = i
    /\ Step(w, "write")
    /\ Begins(w)
    /\ UNCHANGED <<tree, total, named, file, faults>>

\* The first lines reach the inode.
Write(w) ==
    /\ at[w].step = "write"
    /\ data' = [data EXCEPT ![ino[w]] =
                  IF @.state = "empty" THEN [state |-> "partial", by |-> w, snap |-> snap[w]]
                  ELSE [@ EXCEPT !.state = "torn", !.by = "none"]]
    /\ Step(w, "flush")
    /\ UNCHANGED <<tree, total, named, snap, ino, tmp, file, faults, slips>>

\* flush and fsync.  What another thread wrote to the same inode may be covered or not.
Flush(w) ==
    /\ at[w].step = "flush"
    /\ LET whole == [state |-> "whole", by |-> w, snap |-> snap[w]]
           torn == [data[ino[w]] EXCEPT !.state = "torn", !.by = "none"]
       IN  data' \in {[data EXCEPT ![ino[w]] = d] :
                         d \in IF data[ino[w]].by = w /\ data[ino[w]].state = "partial"
                               THEN {whole} ELSE {whole, torn}}
    /\ Step(w, "replace")
    /\ UNCHANGED <<tree, total, named, snap, ino, tmp, file, faults, slips>>

\* os.replace, or FileNotFoundError when another thread has renamed the file away.
Replace(w) ==
    /\ at[w].step = "replace"
    /\ IF tmp # 0 THEN file' = tmp /\ tmp' = 0 ELSE UNCHANGED <<file, tmp>>
    /\ at' = [at EXCEPT ![w] =
                IF w = "turn" /\ ~at[w].meta /\ tmp # 0 THEN [step |-> "load", meta |-> FALSE]
                ELSE Resting]
    /\ slips' = IF w = "turn" /\ at[w].meta THEN slips \ {"cut"} ELSE slips
    /\ Closes(w)
    /\ UNCHANGED <<tree, total, named, faults>>
    /\ Gone

\* A failed write unlinks the temporary file, whoever made it, and raises.
WriteFails(w) ==
    /\ Strikes
    /\ at[w].step \in {"write", "flush"}
    /\ tmp' = 0
    /\ at' = [at EXCEPT ![w] = Resting]
    /\ Closes(w)
    /\ slips' = slips \cup {"failed"}
    /\ UNCHANGED <<tree, total, named, file>>
    /\ Gone

\* The turn is cancelled in a save; a thread that has begun to write goes on.  In the run the
\* abort save follows; after the final save, or in the abort save itself, nothing does.
CancelSave ==
    /\ Strikes
    /\ at["turn"].step # "rest"
    /\ \E next \in {[step |-> "tree", meta |-> FALSE], Resting} :
          /\ slips' = IF next = Resting THEN slips \cup {"cut"} ELSE slips
          /\ IF ino["turn"] = 0
             THEN at' = [at EXCEPT !["turn"] = next] /\ UNCHANGED <<ino, data>>
             ELSE /\ at["cancelled"].step = "rest"
                  /\ at' = [at EXCEPT !["cancelled"] = at["turn"], !["turn"] = next]
                  /\ ino' = [ino EXCEPT !["cancelled"] = ino["turn"], !["turn"] = 0]
                  /\ data' = [data EXCEPT ![ino["turn"]].by = IF @ = "turn" THEN "cancelled" ELSE @]
    /\ snap' = [snap EXCEPT !["cancelled"] = IF ino["turn"] = 0 THEN @ ELSE snap["turn"],
                            !["turn"] = NoSnapshot]
    /\ UNCHANGED <<tree, total, named, tmp, file>>

\* Seeded fault: a resumed session is saved before its nodes are loaded.
Restart_Empty ==
    /\ Strikes
    /\ tree' = [NoSnapshot EXCEPT !.title = "first"]
    /\ total' = 0
    /\ named' = TRUE
    /\ at' = [w \in Writers |-> Resting]
    /\ ino' = [w \in Writers |-> 0]
    /\ tmp' = 0
    /\ snap' = [w \in Writers |-> NoSnapshot]
    /\ slips' = slips \ {"cut"}
    /\ UNCHANGED file
    /\ Gone

\* The process dies; another one resumes the session.  Its temporary files have its pid.
Restart ==
    /\ Strikes
    /\ tree' = IF Readable(file) THEN data[file].snap ELSE NoSnapshot
    /\ total' = tree'.total
    /\ named' = (tree'.title # "none")
    /\ at' = [w \in Writers |-> Resting]
    /\ ino' = [w \in Writers |-> 0]
    /\ tmp' = 0
    /\ snap' = [w \in Writers |-> NoSnapshot]
    /\ slips' = slips \ {"cut"}
    /\ UNCHANGED file
    /\ Gone

----------------------------------------------------------------------------

Next ==
    \/ Checkpoint \/ AskForTitle \/ TitleArrives \/ CancelSave \/ Restart
    \/ \E w \in Writers : Load(w) \/ Open(w) \/ Write(w) \/ Flush(w) \/ WriteFails(w) \/ Replace(w)

Spec == Init /\ [][Next]_vars

----------------------------------------------------------------------------
(* Properties                                                               *)

\* A session that was saved once can always be resumed: wherever the process dies, and
\* whatever write fails, the file is a whole snapshot.  (Two saves that overlap share the
\* temporary file, and what they leave may be torn.)
FileLoads ==
    /\ FileTypeOK
    /\ file # 0 /\ "overlap" \notin slips => data[file].state = "whole"

\* What the comment at the call of schedule_llm_title says of its save_meta: a save is
\* never undone, no later write brings back a file with fewer nodes.
SavesStay ==
    [][Readable(file) /\ Readable(file') /\ file' # file =>
         data'[file'].snap.nodes >= data[file].snap.nodes]_vars

\* A save is never undone by a save that did not overlap with it.
NodesKept ==
    [][Readable(file) /\ Readable(file') /\ file' # file /\ "overlap" \notin slips =>
         data'[file'].snap.nodes >= data[file].snap.nodes]_vars

\* The file holds the nodes and the title of the session, and its totals unless the titler,
\* whose save leaves them out, was the last to write.
FileIsSession ==
    /\ data[file].state = "whole"
    /\ \/ data[file].snap = [tree EXCEPT !.total = total]
       \/ data[file].by = "titler" /\ data[file].snap = [tree EXCEPT !.total = 0]

\* When nothing is being written no temporary file is left, whatever overlapped, failed, died
\* or was cancelled; and the file is the session.  That is so as long as no two saves
\* overlapped and none failed, and not from a cancellation of the turn's final save, or of
\* its abort save, until the turn has saved again.
QuietFileIsSession ==
    (\A w \in Writers : at[w].step = "rest") =>
        /\ tmp = 0
        /\ file # 0 /\ slips = {} => FileIsSession

\* What run_turn says of a turn that is cancelled ("same as error (partial progress saved)"):
\* the file is the session then too.
CancelledIsSaved ==
    (\A w \in Writers : at[w].step = "rest") /\ file # 0 /\ slips \subseteq {"cut"} => FileIsSession

----------------------------------------------------------------------------
(* The inductive strengthening of these properties.                         *)

Writing == {"write", "flush", "replace"}

Busy(w) == at[w].step \in {"meta"} \cup Writing

Tidy ==
    /\ tmp # 0 => tmp # file /\ \E w \in Writers : ino[w] = tmp
    /\ at["turn"].step # "thinking"
    /\ at["titler"].step # "tree"
    /\ at["cancelled"].step \in {"rest"} \cup Writing
    /\ at["turn"].step = "tree" => ~at["turn"].meta
    /\ at["turn"].step = "meta" => at["turn"].meta
    /\ at["titler"].step # "rest" => named
    /\ at["turn"].step = "load" \/ at["titler"].step \in {"thinking", "load"} => file # 0

\* What a writer that is alone has put into its inode.
Stage(w) ==
    CASE at[w].step = "write" -> NoData
      [] at[w].step = "flush" -> [state |-> "partial", by |-> w, snap |-> snap[w]]
      [] at[w].step = "replace" -> [state |-> "whole", by |-> w, snap |-> snap[w]]

\* Saves that do not overlap: each has the temporary file for itself, and takes over what
\* the file holds or what the tree has gained since.
Alone ==
    "overlap" \notin slips =>
        /\ \A v, w \in Writers : Busy(v) /\ Busy(w) => v = w
        /\ \A w \in Writers : at[w].step \in Writing => ino[w] = tmp /\ data[tmp] = Stage(w)
        /\ \A w \in Writers : Busy(w) =>
               /\ snap[w].nodes <= tree.nodes
               /\ file # 0 => data[file].snap.nodes <= snap[w].nodes
        /\ file # 0 => data[file].state = "whole" /\ data[file].snap.nodes <= tree.nodes

\* The titler will still write the title that a snapshot lacks.
Titled(s) == s.title = tree.title \/ at["titler"].step = "load" \/ Busy("titler")

\* Nothing makes up for the save of the turn that was cut short before the turn's next one.
Cut == at["turn"].step = "rest" /\ "cut" \in slips

\* Until a save fails: who still writes brings the file up to the session.
Current ==
    slips \subseteq {"cut"} =>
        /\ at["titler"].step = "load" => tree.title = "llm"
        /\ Busy("cancelled") => at["turn"].step = "tree" \/ Cut
        /\ Busy("titler") =>
               /\ tree.title = "llm" /\ snap["titler"].title = "llm"
               /\ snap["titler"].total = 0
               /\ at["turn"].step = "tree" \/ Cut \/ snap["titler"].nodes = tree.nodes
        /\ Busy("turn") =>
               /\ snap["turn"].nodes = tree.nodes
               /\ Titled(snap["turn"])
               /\ at["turn"].meta => snap["turn"].total = total
        /\ at["turn"].step \in {"rest", "load"} /\ ~Cut /\ file # 0 =>
               /\ data[file].snap.nodes = tree.nodes
               /\ Titled(data[file].snap)
        /\ at["turn"].step = "rest" /\ ~Cut /\ file # 0 =>
               \/ data[file].snap.total = total
               \/ data[file].by = "titler" /\ data[file].snap.total = 0

FileInv == FileTypeOK /\ Tidy /\ Alone /\ Current
=============================================================================
