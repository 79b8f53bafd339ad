---------------------------- MODULE SessionTurn ----------------------------
(***************************************************************************)
(* A SessionController (phoson_cli/controller.py) running its turns on an  *)
(* AgentEngine, and the session file it keeps.                             *)
(*                                                                         *)
(* The engine is AgentRun, with the controller's consume() as the task     *)
(* that iterates its stream.  A turn appends the user's message to the     *)
(* conversation tree, saves, streams; after every step of the engine the   *)
(* new tail of its history is mirrored into the tree and saved before the  *)
(* engine is asked for more.                                               *)
(*                                                                         *)
(* Of the tree only two paths matter: "cursor", the path to                *)
(* current_node_id, which the next turn extends, and "latest", the path to *)
(* the node created last, where find_latest_node_id puts the cursor of a   *)
(* resumed session.  A save writes the whole tree with one os.replace, so  *)
(* "disk" holds the latest path and the run status of the last one.        *)
(***************************************************************************)
EXTENDS AgentRun, SequencesExt

CONSTANTS
    Faults,      \* what may go wrong or be asked for, beyond cancellation
    MaxTurns,    \* bound: turns begun
    MaxCrashes,  \* bound: times the process dies
    MaxMoves     \* bound: /undo, rewind and /compact between turns

\* "unprotected": a sink without protect_persistence (classic REPL, one-shot): a save
\*                can be cancelled.
\* "hook":        a hook or an adapter raises something the engine does not convert.
\* "save":        a save raises.
\* "image":       tools may return pictures.
\* "undo":        the user asks for /undo.
\* "legacy":      the session file was written while env blocks were persisted.
ASSUME SessionAssumption ==
    /\ Faults \subseteq {"unprotected", "hook", "save", "image", "undo", "legacy"}
    /\ MaxTurns \in Nat
    /\ MaxCrashes \in Nat
    /\ MaxMoves \in Nat

VARIABLES
    turn,       \* what the controller awaits
    cursor,     \* messages on the path to current_node_id
    latest,     \* messages on the path to the newest node of the tree
    synced,     \* _synced_history_count
    compacted,  \* SummarizationMiddleware has an unpopped compaction event
    streaming,  \* _turn_history_initialized
    status,     \* ConversationTree.status
    disk,       \* the session file: path of its newest node and status
    turns,      \* turns begun so far
    crashes,
    moves

treeVars == <<cursor, latest, synced, compacted>>
counters == <<turns, crashes, moves>>
sessionVars == <<turn, treeVars, streaming, status, disk, counters>>

allVars == <<vars, sessionVars>>

\* off        no process           opening    first checkpoint of a turn
\* idle       no turn              preparing  environment block, context window
\* running    in the engine        saving     checkpoint between two engine steps
\* settling   final save of a turn rewriting  the save of /compact
TurnPhases ==
    {"off", "idle", "opening", "preparing", "running", "saving", "settling", "rewriting"}

Statuses == {"active", "completed", "aborted"}

SessionTypeOK ==
    /\ TypeOK
    /\ turn \in TurnPhases
    /\ cursor \in Seq(Message)
    /\ latest \in Seq(Message)
    /\ synced \in Nat
    /\ compacted \in BOOLEAN
    /\ streaming \in BOOLEAN
    /\ status \in Statuses
    /\ disk \in [path : Seq(Message), status : Statuses \cup {"none"}]
    /\ turns \in 0..MaxTurns
    /\ crashes \in 0..MaxCrashes
    /\ moves \in 0..MaxMoves

\* A "[env: ...]" block, as turns of an earlier release left them in the tree.
EnvBlock == [role |-> "user", uses |-> {}, answers |-> {}, text |-> "env"]

\* is_env_context / EnvironmentalContextMiddleware.on_before_llm.
StripEnv(h) ==
    FlattenSeq([i \in DOMAIN h |-> IF h[i].text = "env" THEN <<>> ELSE <<h[i]>>])

NoFile == [path |-> <<>>, status |-> "none"]

\* A file without a status is read as "active".
LegacyFile == [path |-> <<UserText, EnvBlock, Assistant({})>>, status |-> "active"]

SessionInit ==
    /\ Init
    /\ turn = "off"
    /\ cursor = <<>>
    /\ latest = <<>>
    /\ synced = 0
    /\ compacted = FALSE
    /\ streaming = FALSE
    /\ status = "active"
    /\ disk = IF "legacy" \in Faults THEN LegacyFile ELSE NoFile
    /\ turns = 0
    /\ crashes = 0
    /\ moves = 0

----------------------------------------------------------------------------
(* The tree and the file.                                                   *)

\* append_many: the new nodes are the newest of the tree and the cursor follows them.
Extend(path) == cursor' = path /\ latest' = path

\* Seeded fault: the counter still lines up with the branch before the compaction.
Rebase_KeepsCounter(h) ==
    /\ compacted
    /\ Extend(h)
    /\ compacted' = FALSE
    /\ UNCHANGED synced

\* _mirror_history_into_tree: after a compaction the whole history becomes a new branch
\* off the root, otherwise what is new is appended.
Rebase(h) ==
    /\ compacted
    /\ Extend(h)
    /\ synced' = Len(h)
    /\ compacted' = FALSE

AppendTail(h) ==
    /\ ~compacted
    /\ Len(h) > synced
    /\ Extend(cursor \o SubSeq(h, synced + 1, Len(h)))
    /\ synced' = Len(h)
    /\ UNCHANGED compacted

NothingNew(h) ==
    /\ ~compacted
    /\ Len(h) <= synced
    /\ UNCHANGED <<cursor, latest, synced, compacted>>

Mirror(h) == Rebase(h) \/ AppendTail(h) \/ NothingNew(h)

\* _save_session: the tree and its status.
Snapshot == [path |-> latest, status |-> status]

----------------------------------------------------------------------------
(* A turn.                                                                  *)

\* Seeded fault: the run is marked active only once it streams.
BeginTurn_KeepsStatus ==
    /\ turn = "idle"
    /\ turns < MaxTurns
    /\ turns' = turns + 1
    /\ Extend(Append(cursor, UserText))
    /\ synced' = Len(cursor) + 1
    /\ compacted' = FALSE
    /\ streaming' = FALSE
    /\ turn' = "opening"
    /\ UNCHANGED <<vars, status, disk, crashes, moves>>

BeginTurn ==
    /\ turn = "idle"
    /\ turns < MaxTurns
    /\ turns' = turns + 1
    /\ Extend(Append(cursor, UserText))
    /\ synced' = Len(cursor) + 1
    /\ compacted' = FALSE
    /\ streaming' = FALSE
    /\ status' = "active"
    /\ turn' = "opening"
    /\ UNCHANGED <<vars, disk, crashes, moves>>

Save(from, to) ==
    /\ turn = from
    /\ disk' = Snapshot
    /\ turn' = to
    /\ UNCHANGED <<vars, treeVars, streaming, status, counters>>

Opened == Save("opening", "preparing")
Checkpointed == Save("saving", "running")
Settled == Save("settling", "idle")
Rewritten == Save("rewriting", "idle")

\* consume() enters stream(); AgentStartEvent says the history is this turn's.
Stream(c) ==
    /\ turn = "preparing"
    /\ StartWith(c, cursor)
    /\ streaming' = TRUE
    /\ turn' = "running"
    /\ UNCHANGED <<treeVars, status, disk, counters>>

\* on_before_llm of the middlewares the CLI installs: env blocks are dropped.
CliHooks(c) ==
    /\ turn = "running"
    /\ HooksReturn(c, StripEnv(history))
    /\ UNCHANGED sessionVars

\* SummarizationMiddleware, when its gate fires or the provider finds the request too
\* long, and the compact_context tool.
CliCompact(c) ==
    /\ turn = "running"
    /\ \E keep \in DOMAIN history :
          /\ SafeCutIndex(history, keep) > 1
          /\ CompactTo(c, SafeCutIndex(history, keep))
    /\ compacted' = TRUE
    /\ UNCHANGED <<turn, cursor, latest, synced, streaming, status, disk, counters>>

\* A sub-agent runs behind the same SummarizationMiddleware as the engine whose tool it is:
\* the event of its compaction waits where those of the run do.
SubagentCompacts(c) ==
    /\ turn = "running"
    /\ pc[c] = "handler"
    /\ ~compacted
    /\ compacted' = TRUE
    /\ UNCHANGED <<vars, turn, cursor, latest, synced, streaming, status, disk, counters>>

\* Engine steps whose event, if any, needs no checkpoint.
Unreported(c) ==
    /\ turn = "running"
    /\ \/ BeginIteration(c) \/ GiveUp(c) \/ IterationFailed(c) \/ IterationFinal(c)
       \/ DispatchCalls(c) \/ InvokeHandler(c) \/ NextCall(c)
    /\ UNCHANGED sessionVars

\* Seeded fault: only finished steps are checkpointed, not the start of a tool.
Reported_StepsOnly(c) ==
    /\ turn = "running"
    /\ \/ /\ LlmStreamEnds(c) \/ AnswerUnrun(c) \/ AnswerCall(c)
          /\ \/ Mirror(history') /\ cursor' # cursor /\ turn' = "saving"
             \/ NothingNew(history') /\ UNCHANGED turn
       \/ AllowCall(c) /\ UNCHANGED <<turn, treeVars>>
    /\ UNCHANGED <<streaming, status, disk, counters>>

\* AgentStepDoneEvent and AgentToolStartEvent: mirror, and save if the tree changed.
Reported(c) ==
    /\ turn = "running"
    /\ LlmStreamEnds(c) \/ AnswerUnrun(c) \/ AllowCall(c) \/ AnswerCall(c)
    /\ "image" \in Faults \/ Image \notin {history'[i] : i \in DOMAIN history'}
    /\ \/ (Rebase(history') \/ AppendTail(history')) /\ turn' = "saving"
       \/ NothingNew(history') /\ UNCHANGED turn
    /\ UNCHANGED <<streaming, status, disk, counters>>

\* Seeded fault: an error event does not end the turn.
StreamEnds_DoneOnly(c) ==
    /\ turn = "running"
    /\ outcome[c] = "done"
    /\ Finish(c)
    /\ Mirror(history)
    /\ status' = "completed"
    /\ turn' = "settling"
    /\ UNCHANGED <<streaming, disk, counters>>

\* The stream is exhausted after its terminal event.
StreamEnds(c) ==
    /\ turn = "running"
    /\ Finish(c)
    /\ Mirror(history)
    /\ status' = IF outcome[c] = "done" THEN "completed" ELSE "aborted"
    /\ turn' = "settling"
    /\ UNCHANGED <<streaming, disk, counters>>

----------------------------------------------------------------------------
(* Cancellation and failure.                                                *)

\* Seeded fault: the history of an earlier run is taken for this turn's.
Abort_StaleHistory ==
    /\ Mirror(history')
    /\ status' = "aborted"
    /\ turn' = "settling"
    /\ UNCHANGED <<streaming, disk, counters>>

\* _abort_turn: whatever the engine has is mirrored and saved as aborted.
Abort ==
    /\ \/ streaming /\ Mirror(history')
       \/ ~streaming /\ UNCHANGED treeVars
    /\ status' = "aborted"
    /\ turn' = "settling"
    /\ UNCHANGED <<streaming, disk, counters>>

CancelBeforeStream ==
    /\ \/ turn = "preparing"
       \/ turn = "opening" /\ "unprotected" \in Faults
    /\ UNCHANGED vars
    /\ Abort

\* The engine is awaiting: it answers the calls of the round before it passes the
\* cancellation on.
CancelStream(c) ==
    /\ turn = "running"
    /\ Cancel(c)
    /\ Abort

\* consume() is awaiting its own checkpoint: the engine is suspended at a yield and
\* never sees the cancellation.
CancelCheckpoint(c) ==
    /\ turn = "saving"
    /\ "unprotected" \in Faults
    /\ Abandon(c)
    /\ Abort

\* The final save is cancelled; os.replace may or may not have happened.
CancelSave ==
    /\ turn \in {"settling", "rewriting"}
    /\ "unprotected" \in Faults
    /\ turn' = "idle"
    /\ disk' \in {disk, Snapshot}
    /\ UNCHANGED <<vars, treeVars, streaming, status, counters>>

\* asyncio finalizes the generator consume() left behind.
Collect(c) == Finalize(c) /\ UNCHANGED sessionVars

\* Only CancelledError is caught: any other exception of the stream leaves the turn where
\* the last checkpoint left it.
HookRaises(c) ==
    /\ turn = "running"
    /\ "hook" \in Faults
    /\ Raise(c)
    /\ turn' = "idle"
    /\ UNCHANGED <<treeVars, streaming, status, disk, counters>>

SaveRaises(c) ==
    /\ "save" \in Faults
    /\ \/ turn \in {"opening", "settling", "rewriting"} /\ UNCHANGED vars
       \/ turn = "saving" /\ Abandon(c)
    /\ turn' = "idle"
    /\ UNCHANGED <<treeVars, streaming, status, disk, counters>>

----------------------------------------------------------------------------
(* Between turns.                                                           *)

MoveTo(path) ==
    /\ turn = "idle"
    /\ moves < MaxMoves
    /\ moves' = moves + 1
    /\ cursor' = path
    /\ UNCHANGED <<vars, turn, latest, synced, compacted, streaming, status, disk, turns,
                   crashes>>

\* undo_last_turn: to the node before the last message of role "user".
Undo ==
    /\ "undo" \in Faults
    /\ \E i \in 2..Len(cursor) :
          /\ cursor[i].role = "user"
          /\ \A j \in (i + 1)..Len(cursor) : cursor[j].role # "user"
          /\ MoveTo(SubSeq(cursor, 1, i - 1))

\* jump_to_user_turn, on one of jump_candidates.
Rewind ==
    \E i \in 2..Len(cursor) :
        /\ cursor[i].role = "user"
        /\ cursor[i].text = "turn"
        /\ MoveTo(SubSeq(cursor, 1, i - 1))

\* compact_context, from the answer of the summarizing model on.
CompactNow ==
    /\ turn = "idle"
    /\ moves < MaxMoves
    /\ moves' = moves + 1
    /\ \E keep \in 1..(Len(cursor) - 1) :
          Extend(CutAt(cursor, SafeCutIndex(cursor, keep)))
    /\ compacted' = TRUE
    /\ turn' = "rewriting"
    /\ UNCHANGED <<vars, synced, streaming, status, disk, turns, crashes>>

----------------------------------------------------------------------------
(* The process dies and the session is resumed.                             *)

Crash ==
    /\ turn # "off"
    /\ crashes < MaxCrashes
    /\ crashes' = crashes + 1
    /\ turn' = "off"
    /\ Extend(<<>>)
    /\ synced' = 0
    /\ compacted' = FALSE
    /\ streaming' = FALSE
    /\ status' = "active"
    /\ running' = FALSE
    /\ pc' = [c \in Callers |-> "idle"]
    /\ history' = <<>>
    /\ FreshLocals
    /\ outcome' = [c \in Callers |-> "none"]
    /\ UNCHANGED <<nextId, runs, disk, turns, moves>>

\* orphan_recovery: when the path ends with an assistant message that makes calls, one
\* message answers all of them.
Recovered(path) ==
    IF path[Len(path)].role = "assistant" /\ path[Len(path)].uses # {}
    THEN Append(path, [role |-> "user", uses |-> {}, answers |-> path[Len(path)].uses,
                       text |-> "none"])
    ELSE path

\* load_session: a run that did not settle is repaired, and the repair saved.
Resume ==
    /\ turn = "off"
    /\ disk # NoFile
    /\ LET path == IF disk.status = "active" THEN Recovered(disk.path) ELSE disk.path
       IN  /\ Extend(path)
           /\ disk' = [disk EXCEPT !.path = path]
    /\ status' = disk.status
    /\ turn' = "idle"
    /\ UNCHANGED <<vars, synced, compacted, streaming, counters>>

NewSession ==
    /\ turn = "off"
    /\ disk = NoFile
    /\ turn' = "idle"
    /\ UNCHANGED <<vars, treeVars, streaming, status, disk, counters>>

----------------------------------------------------------------------------

\* What the program does on its own.
Progress(c) ==
    \/ Opened \/ Stream(c) \/ CliHooks(c) \/ Unreported(c) \/ Reported(c) \/ Checkpointed
    \/ StreamEnds(c) \/ Settled \/ Rewritten \/ Collect(c) \/ Resume \/ NewSession

Disturbance(c) ==
    \/ CancelBeforeStream \/ CancelStream(c) \/ CancelCheckpoint(c) \/ CancelSave
    \/ HookRaises(c) \/ SaveRaises(c) \/ Crash

SessionNext ==
    \E c \in Callers :
        Progress(c) \/ Disturbance(c) \/ CliCompact(c) \/ SubagentCompacts(c)
        \/ BeginTurn \/ Undo \/ Rewind \/ CompactNow

SessionSpec == SessionInit /\ [][SessionNext]_allVars

\* Hooks, provider, handlers and saves return, and a dead process is started again.
FairSession == SessionSpec /\ WF_allVars(\E c \in Callers : Progress(c))

----------------------------------------------------------------------------
(* Properties                                                               *)

\* When the engine waits for the provider or runs a tool, everything its history holds is
\* in the session file: the effects of a tool never run ahead of the record of its call,
\* and a kill loses no finished step.  (A compaction reaches the file with the next
\* checkpoint.)
StepsAreDurable ==
    /\ SessionTypeOK
    /\ \A c \in Callers :
           pc[c] \in {"before", "llm", "handler"} /\ ~compacted => disk.path = history

\* However a turn that reached the engine ends, the active path is the whole history of its
\* run, nothing of it missing, twice or of another run (but for env blocks, which the
\* engine drops).
SettlesWhole == turn = "settling" /\ streaming => StripEnv(cursor) = history

\* Between two turns the active path is one the provider accepts.
IdleSendable == turn = "idle" => Paired(cursor)

\* What _repair_orphaned_run relies on to leave a settled session alone.
SettledNeedsNoRepair ==
    disk.status \in {"completed", "aborted"} => Paired(disk.path)

\* What a turn leaves can be used: by the next turn of this process, and by the one that
\* resumes the session from the file.
KeptSendable == IdleSendable /\ SettledNeedsNoRepair

\* What the docstring of orphan_recovery promises of a resumed session: the next LLM call
\* does not fail with a 400 tool-pairing error.
ResumeIsSendable == [][turn = "off" /\ turn' = "idle" => Paired(cursor')]_allVars

\* What the docstring of undo_last_turn says, and rewinding too: the cursor stops right
\* before a user turn.
MovesToTurnBoundary ==
    [][turn = "idle" /\ turn' = "idle" /\ cursor' # cursor =>
         cursor[Len(cursor') + 1].text = "turn"]_allVars

\* Every turn comes to an end, whatever is cancelled, raised or killed.
TurnEnds == turn # "idle" ~> turn = "idle"

----------------------------------------------------------------------------
(* The inductive strengthening of StepsAreDurable and SettlesWhole: what    *)
(* holds whatever is cancelled, raised or killed, unless the file is of an  *)
(* older release.                                                           *)

NoEnv(h) == \A i \in DOMAIN h : h[i].text # "env"

Clean == NoEnv(history) /\ NoEnv(cursor) /\ NoEnv(latest) /\ NoEnv(disk.path)

\* The locals of a round, as far as the types depend on them.
Locals(p) ==
    /\ p \in {"loop", "before", "llm", "stepped", "ended"} => k = 0
    /\ p = "stepped" /\ reply = "calls" => Len(calls) > 0
    /\ p \in {"gate", "started", "handler", "answered"} => k > 0

\* A generator runs inside a turn only; during a checkpoint it is suspended at its event.
Driven ==
    \A c \in Callers :
        /\ Locals(pc[c])
        /\ pc[c] \notin {"idle", "abandoned"} => turn \in {"running", "saving"}
        /\ turn = "saving" => pc[c] \in {"idle", "abandoned", "stepped", "started", "answered"}

\* A tree that is being saved is not empty, and its newest path is the active one.
Newest ==
    /\ turn \notin {"off", "idle"} => latest = cursor /\ latest # <<>>
    /\ disk # NoFile => disk.path # <<>> /\ disk.status \in Statuses
    /\ turn \in {"preparing", "running"} => disk.path = latest
    /\ turn \in {"opening", "preparing", "running", "saving"} => status = "active"

\* Where the engine's history has grown by nothing that was not mirrored.
InStep == {"loop", "before", "llm", "stepped", "started", "handler", "answered"}

\* _synced_history_count counts the messages of the engine's history that are the active
\* path, until a compaction rewrites that history.
Mirrored ==
    /\ turn \in {"opening", "preparing"} => ~streaming /\ ~compacted /\ synced = Len(cursor)
    /\ turn \in {"running", "saving"} =>
           /\ streaming
           /\ history # <<>>
           /\ ~compacted =>
                  /\ synced = Len(cursor) /\ synced <= Len(history)
                  /\ SubSeq(history, 1, synced) = cursor
                  /\ (\E c \in Callers : pc[c] \in InStep) => cursor = history
    /\ turn = "settling" /\ streaming => cursor = history

TurnInv == SessionTypeOK /\ SingleFlight /\ Clean /\ Driven /\ Newest /\ Mirrored

----------------------------------------------------------------------------
(* The inductive strengthenings of KeptSendable, for a session whose saves  *)
(* are protected, in which nothing raises or dies and no tool returns a     *)
(* picture, and of ResumeIsSendable, for a session that may die anywhere    *)
(* but makes one tool call at a time.                                       *)

Protected == Faults = {} /\ MaxCrashes = 0

OneCallRounds == Faults \subseteq {"image"} /\ MaxCalls <= 1

\* What was said before a user's text can be sent: rewinding there leaves a whole path.
Restartable(h) == \A i \in DOMAIN h : h[i].text = "turn" => Paired(SubSeq(h, 1, i - 1))

\* Between a call and its answer, given or to come, there are only answers.
Contiguous(h, open) ==
    \A i \in DOMAIN h :
        /\ \A j \in DOMAIN h : i < j /\ h[i].uses \cap h[j].answers # {} =>
               \A m \in (i + 1)..j : h[m].answers # {}
        /\ h[i].uses \cap open # {} => \A m \in (i + 1)..Len(h) : h[m].answers # {}

\* The calls of the round that a generator suspended at p still has to answer.
Unanswered(p) ==
    CASE p \in {"gate", "started", "handler"} -> Pending(k)
      [] p = "answered" -> Pending(k + 1)
      [] OTHER -> {}

\* A path that can be sent, and from every user's text on again, with the provider's next
\* ids still to come.
Whole(h) ==
    /\ Paired(h)
    /\ Restartable(h)
    /\ Contiguous(h, {})
    /\ \A id \in Uses(h) : id < nextId

Resting == turn \notin {"running", "saving"} => Whole(cursor)

Underway ==
    /\ turn \in {"running", "saving"} => Restartable(history)
    /\ \A c \in Callers :
           pc[c] \notin {"idle", "abandoned"} => Contiguous(history, Unanswered(pc[c]))

WholePaths == EngineInv /\ Resting /\ Underway

DiskWhole ==
    /\ turn = "off" => disk = NoFile
    /\ disk.status \in {"completed", "aborted"} => Paired(disk.path)

ProtectedInv == TurnInv /\ WholePaths /\ DiskWhole

\* The only call of a round that has not run yet is made by the last message, which is
\* where the recovery looks for it; and a checkpoint writes the history of a live run.
LoneCall ==
    /\ Len(calls) <= 1
    /\ turn \in {"running", "saving"} => \E c \in Callers : pc[c] \notin {"idle", "abandoned"}
    /\ turn = "saving" => ~compacted
    /\ \A c \in Callers : pc[c] \in {"gate", "started"} =>
           /\ history # <<>>
           /\ history[Len(history)].role = "assistant"
           /\ history[Len(history)].uses = Pending(k)

\* What a resume would make of the session file.
DiskResumes == Whole(IF disk.status = "active" THEN Recovered(disk.path) ELSE disk.path)

OneCallInv == TurnInv /\ WholePaths /\ LoneCall /\ DiskResumes
=============================================================================
