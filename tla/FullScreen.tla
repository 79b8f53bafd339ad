----------------------------- MODULE FullScreen -----------------------------
(***************************************************************************)
(* The full-screen front end (phoson_cli/fullscreen): the one operation it *)
(* runs at a time, the messages queued behind it, and the keys that submit,*)
(* cancel and quit.                                                        *)
(*                                                                         *)
(* Keys, the steps of the operation's task and its done-callback are       *)
(* callbacks of one event loop.  The callback is scheduled when the task   *)
(* ends and runs before any other task it leads to; a key that the loop    *)
(* polled together with the task's last step is handled between the two.   *)
(* Messages are numbered in the order they are typed; a text is a sequence *)
(* of them, because restoring the queue joins several into one.            *)
(***************************************************************************)
EXTENDS Naturals, SequencesExt

CONSTANTS
    MaxMessages,  \* bound: messages typed
    MaxOthers,    \* bound: operations that are no typed message
    UserQuits,    \* whether the user ever asks to quit
    LateKeys      \* whether a key may come between a task's end and its callback

ASSUME FullScreenAssumption ==
    /\ MaxMessages \in Nat
    /\ MaxOthers \in Nat
    /\ UserQuits \in BOOLEAN
    /\ LateKeys \in BOOLEAN

VARIABLES
    typed,        \* messages typed so far
    composer,     \* the text of the input line
    queue,        \* _pending_turns
    sent,         \* the messages handed to an operation, in order
    discarded,    \* the messages the user cleared from the input line
    others,       \* commands, shell lines and wakes started so far
    ops,          \* operations started; the last one is _run_task
    kind,         \* what _run_task runs
    task,         \* where _run_task is
    result,       \* how the last task ended
    callback,     \* the task whose _finish_operation is scheduled, 0 for none
    operation,    \* _operation
    cancelRequested,
    armed,        \* exit_armed: a first Ctrl+C waits for its second press
    exited,
    slips         \* history: how the operation and its callback came apart

texts == <<composer, queue, sent, discarded>>
vars == <<typed, composer, queue, sent, discarded, others, ops, kind, task, result,
          callback, operation, cancelRequested, armed, exited, slips>>

\* working     anything a cancellation may interrupt
\* checkpoint  a save in the middle of a turn
\* unwinding   cancelled, the exception is on its way
\* saving      the save that ends a turn
Saving == {"checkpoint", "saving"}
InFlight == {"working", "unwinding"} \cup Saving

\* _is_run_in_flight.
RunInFlight == task \in InFlight

\* "stranded"  a settled operation with a deferred exit was taken for cancelled, and left its
\*             queue to nobody
\* "replaced"  an operation was replaced before its callback ran
Slips == {"stranded", "replaced"}

NoOperation == [task |-> 0, required |-> FALSE, exit |-> FALSE]

FullScreenTypeOK ==
    /\ typed \in 0..MaxMessages
    /\ composer \in Seq(1..typed)
    /\ queue \in Seq(Seq(1..typed))
    /\ sent \in Seq(1..typed)
    /\ discarded \subseteq 1..typed
    /\ others \in 0..MaxOthers
    /\ ops \in Nat
    /\ kind \in {"turn", "command"}
    /\ task \in {"none", "done"} \cup InFlight
    /\ result \in {"ok", "error", "cancelled"}
    /\ callback \in 0..ops
    /\ operation \in [task : 0..ops, required : BOOLEAN, exit : BOOLEAN]
    /\ cancelRequested \in BOOLEAN
    /\ armed \in BOOLEAN
    /\ exited \in BOOLEAN
    /\ slips \subseteq Slips
    /\ RunInFlight => operation.task = ops
    /\ task \in Saving => operation.required

Init ==
    /\ typed = 0
    /\ composer = <<>>
    /\ queue = <<>>
    /\ sent = <<>>
    /\ discarded = {}
    /\ others = 0
    /\ ops = 0
    /\ kind = "turn"
    /\ task = "none"
    /\ result = "ok"
    /\ callback = 0
    /\ operation = NoOperation
    /\ cancelRequested = FALSE
    /\ armed = FALSE
    /\ exited = FALSE
    /\ slips = {}

----------------------------------------------------------------------------
(* Operations.                                                              *)

\* _start_operation, where no run is in flight.
StartOperation(what, text) ==
    /\ ops' = ops + 1
    /\ kind' = what
    /\ task' = "working"
    /\ cancelRequested' = FALSE
    /\ operation' = [NoOperation EXCEPT !.task = ops + 1]
    /\ sent' = sent \o text

\* Seeded fault: cancelling does not look at the save in flight.
CancelOperation_Unconditional(exits) ==
    /\ cancelRequested' = TRUE
    /\ task' = "unwinding"
    /\ UNCHANGED operation

\* A required save only takes note of the wish to exit; anything else is cancelled.
CancelOperation(exits) ==
    \/ /\ operation.required
       /\ operation' = [operation EXCEPT !.exit = @ \/ exits]
       /\ UNCHANGED <<task, cancelRequested>>
    \/ /\ ~operation.required
       /\ cancelRequested' = TRUE
       /\ task' = "unwinding"
       /\ UNCHANGED operation

RequestExit ==
    \/ RunInFlight /\ CancelOperation(TRUE) /\ UNCHANGED exited
    \/ ~RunInFlight /\ exited' = TRUE /\ UNCHANGED <<task, cancelRequested, operation>>

----------------------------------------------------------------------------
(* Keys, and the poll of the wake loop.                                     *)

\* History only: a new operation takes the place of one whose callback has not run.
NoteReplaced == slips' = IF callback # 0 THEN slips \cup {"replaced"} ELSE slips

LoopPolls == ~exited /\ (LateKeys \/ callback = 0)

Type ==
    /\ LoopPolls
    /\ typed < MaxMessages
    /\ typed' = typed + 1
    /\ composer' = Append(composer, typed')
    /\ UNCHANGED <<queue, sent, discarded, others, ops, kind, task, result, callback,
                   operation, cancelRequested, armed, exited, slips>>

\* Seeded fault: a queued message overtakes the ones that wait already.
SubmitWhileRunning_Front ==
    /\ RunInFlight
    /\ queue' = <<composer>> \o queue
    /\ UNCHANGED <<sent, ops, kind, task, operation, cancelRequested>>

SubmitWhileRunning ==
    /\ RunInFlight
    /\ queue' = Append(queue, composer)
    /\ UNCHANGED <<sent, ops, kind, task, operation, cancelRequested>>

\* Enter on a plain message.
Submit ==
    /\ LoopPolls
    /\ composer # <<>>
    /\ composer' = <<>>
    /\ \/ SubmitWhileRunning /\ UNCHANGED slips
       \/ ~RunInFlight /\ StartOperation("turn", composer) /\ UNCHANGED queue /\ NoteReplaced
    /\ UNCHANGED <<typed, discarded, others, result, callback, armed, exited>>

\* A slash command, a shell line, the palette, or the wake loop's own turn.  While a run is in
\* flight they are refused, or run beside it and leave all of this alone.
StartOther ==
    /\ LoopPolls
    /\ others < MaxOthers
    /\ ~RunInFlight
    /\ others' = others + 1
    /\ \E what \in {"turn", "command"} : StartOperation(what, <<>>)
    /\ NoteReplaced
    /\ UNCHANGED <<typed, composer, queue, discarded, result, callback, armed, exited>>

Escape ==
    /\ LoopPolls
    /\ RunInFlight
    /\ CancelOperation(FALSE)
    /\ UNCHANGED <<typed, texts, others, ops, kind, result, callback, armed, exited, slips>>

\* handle_interrupt: cancel the run or clear the draft, and on the second press quit.
Interrupt ==
    /\ LoopPolls
    /\ \/ /\ armed
          /\ UserQuits
          /\ RequestExit
          /\ UNCHANGED texts
       \/ /\ ~armed
          /\ RunInFlight
          /\ CancelOperation(FALSE)
          /\ UNCHANGED <<texts, exited>>
       \/ /\ ~armed
          /\ ~RunInFlight
          /\ discarded' = discarded \cup ToSet(composer)
          /\ composer' = <<>>
          /\ UNCHANGED <<queue, sent, task, operation, cancelRequested, exited>>
    /\ armed' = ~armed
    /\ UNCHANGED <<typed, others, ops, kind, result, callback, slips>>

\* EXIT_CONFIRM_WINDOW_SECONDS have passed.
Disarm ==
    /\ LoopPolls
    /\ armed
    /\ armed' = FALSE
    /\ UNCHANGED <<typed, texts, others, ops, kind, task, result, callback, operation,
                   cancelRequested, exited, slips>>

\* Ctrl+Q, or Ctrl+D on an empty line.
Quit ==
    /\ LoopPolls
    /\ UserQuits
    /\ RequestExit
    /\ UNCHANGED <<typed, texts, others, ops, kind, result, callback, armed, slips>>

----------------------------------------------------------------------------
(* The task.                                                                *)

Protect == operation' = [operation EXCEPT !.required = TRUE]

Release == operation' = [operation EXCEPT !.required = FALSE]

TaskRuns == ~exited /\ callback = 0

\* The task's last step schedules its callback.
Ends(how) ==
    /\ task' = "done"
    /\ result' = how
    /\ callback' = ops

\* _checkpoint: the turn saves what it has so far.
Checkpoint ==
    /\ TaskRuns
    /\ task = "working"
    /\ kind = "turn"
    /\ task' = "checkpoint"
    /\ Protect
    /\ UNCHANGED <<typed, texts, others, ops, kind, result, callback, cancelRequested,
                   armed, exited, slips>>

CheckpointLands ==
    /\ TaskRuns
    /\ task = "checkpoint"
    /\ task' = "working"
    /\ Release
    /\ UNCHANGED <<typed, texts, others, ops, kind, result, callback, cancelRequested,
                   armed, exited, slips>>

\* AgentDoneEvent or AgentErrorEvent reaches the sink, and the turn saves the session.
TerminalEvent ==
    /\ TaskRuns
    /\ task = "working"
    /\ kind = "turn"
    /\ task' = "saving"
    /\ Protect
    /\ UNCHANGED <<typed, texts, others, ops, kind, result, callback, cancelRequested,
                   armed, exited, slips>>

SaveLands ==
    /\ TaskRuns
    /\ task = "saving"
    /\ Ends("ok")
    /\ UNCHANGED <<typed, texts, others, ops, kind, operation, cancelRequested, armed,
                   exited, slips>>

SaveFails ==
    /\ TaskRuns
    /\ task \in Saving
    /\ Ends("error")
    /\ UNCHANGED <<typed, texts, others, ops, kind, operation, cancelRequested, armed,
                   exited, slips>>

\* A command returns (/exit leaves the application), a wake finds nothing to do, or the
\* operation raises.
WorkEnds ==
    /\ TaskRuns
    /\ task = "working"
    /\ \/ Ends("error") /\ UNCHANGED exited
       \/ Ends("ok") /\ UNCHANGED exited
       \/ Ends("ok") /\ kind = "command" /\ exited' = TRUE
    /\ UNCHANGED <<typed, texts, others, ops, kind, operation, cancelRequested, armed, slips>>

\* CancelledError: _abort_turn saves the session, a turn that had not appended its message
\* yet swallows it, anything else is cancelled.
Unwind ==
    /\ TaskRuns
    /\ task = "unwinding"
    /\ \/ kind = "turn" /\ task' = "saving" /\ Protect /\ UNCHANGED <<result, callback>>
       \/ kind = "turn" /\ Ends("ok") /\ UNCHANGED operation
       \/ Ends("cancelled") /\ UNCHANGED operation
    /\ UNCHANGED <<typed, texts, others, ops, kind, cancelRequested, armed, exited, slips>>

----------------------------------------------------------------------------
(* _finish_operation.                                                       *)

Settle ==
    /\ operation' = NoOperation
    /\ cancelRequested' = FALSE
    /\ UNCHANGED <<sent, ops, kind, task>>

\* Seeded fault: restoring forgets the draft.
Restore_Overwrites ==
    /\ composer' = IF queue = <<>> THEN composer ELSE FlattenSeq(queue)
    /\ queue' = <<>>

\* _restore_pending_turns: the queue goes back in front of the draft.
Restore ==
    /\ composer' = FlattenSeq(queue) \o composer
    /\ queue' = <<>>

Failed ==
    /\ result = "error"
    /\ Restore
    /\ Settle
    /\ UNCHANGED <<exited, slips>>

WasCancelled == cancelRequested \/ result = "cancelled"

\* The deferred exit.
Leave ==
    /\ result # "error"
    /\ operation.exit
    /\ exited' = ~WasCancelled
    /\ slips' = IF WasCancelled /\ queue # <<>> THEN slips \cup {"stranded"} ELSE slips
    /\ Settle
    /\ UNCHANGED <<composer, queue>>

Cancelled ==
    /\ result # "error"
    /\ ~operation.exit
    /\ WasCancelled
    /\ Restore
    /\ Settle
    /\ UNCHANGED <<exited, slips>>

\* Seeded fault: the next message waits for another one to be sent.
Dequeue_LeavesLast ==
    /\ result # "error"
    /\ ~operation.exit
    /\ ~WasCancelled
    /\ \/ Len(queue) <= 1 /\ Settle /\ UNCHANGED queue
       \/ /\ Len(queue) > 1
          /\ StartOperation("turn", Head(queue))
          /\ queue' = Tail(queue)
    /\ UNCHANGED <<composer, exited, slips>>

\* _dequeue_next_turn.
Dequeue ==
    /\ result # "error"
    /\ ~operation.exit
    /\ ~WasCancelled
    /\ \/ queue = <<>> /\ Settle /\ UNCHANGED queue
       \/ /\ queue # <<>>
          /\ StartOperation("turn", Head(queue))
          /\ queue' = Tail(queue)
    /\ UNCHANGED <<composer, exited, slips>>

\* The callback of a task that is not _operation's any more returns at once.
FinishOperation ==
    /\ ~exited
    /\ callback # 0
    /\ callback' = 0
    /\ \/ /\ operation.task # callback
          /\ UNCHANGED <<composer, queue, sent, ops, kind, task, operation, cancelRequested,
                         exited, slips>>
       \/ operation.task = callback /\ (Failed \/ Leave \/ Cancelled \/ Dequeue)
    /\ UNCHANGED <<typed, discarded, others, result, armed>>

----------------------------------------------------------------------------

TaskStep ==
    \/ Checkpoint \/ CheckpointLands \/ TerminalEvent \/ SaveLands \/ SaveFails
    \/ WorkEnds \/ Unwind

Next ==
    \/ Type \/ Submit \/ StartOther \/ Escape \/ Interrupt \/ Disarm \/ Quit
    \/ TaskStep \/ FinishOperation

Spec == Init /\ [][Next]_vars

\* The loop runs what is ready, and every run of the engine ends (RunEnds of AgentRun).
FairSpec ==
    /\ Spec
    /\ WF_vars(TaskStep)
    /\ WF_vars(FinishOperation)
    /\ SF_vars(TerminalEvent \/ WorkEnds)

----------------------------------------------------------------------------
(* Properties                                                               *)

Text == sent \o FlattenSeq(queue) \o composer

\* A message is on its way while it waits in the queue or stands on the input line.
Place(m) ==
    LET copies == Cardinality({i \in DOMAIN Text : Text[i] = m})
    IN  CASE m > typed -> "unsent"
          [] m \in discarded /\ copies = 0 -> "dropped"
          [] m \in 1..typed \ discarded /\ copies = 1 ->
                 IF m \in ToSet(sent) THEN "delivered" ELSE "queued"
          [] OTHER -> "lost or twice"

Box == INSTANCE Delivery WITH where <- [m \in 1..MaxMessages |-> Place(m)],
                              Messages <- 1..MaxMessages, MayDrop <- TRUE

\* No message disappears: each one is sent once, waits in the queue or on the input line, or
\* was cleared there by the user; what was sent or cleared does not come back.
NothingLost == Box!DeliverySpec

\* "sent in order as each turn settles" (app.py:360): a message never overtakes an earlier one,
\* whatever was cancelled, failed or was given back in between.
InOrder == \A i, j \in 1..Len(Text) : i < j => Text[i] < Text[j]

\* The same, until an operation is started between the end of a task and its callback, or a
\* cancelled operation settles with an exit that waited for it: it neither restores its queue
\* nor sends it, and what is typed next overtakes what is in there.
OrderKept == FullScreenTypeOK /\ (slips = {} => InOrder)

\* The callback of a task is its own: it is scheduled when the task is over, and where it has
\* run nothing waits that no operation will send.
Followed ==
    /\ RunInFlight => callback # ops /\ ~exited
    /\ task # "none" => ops > 0
    /\ slips = {} /\ callback # 0 => operation.task = callback /\ ~RunInFlight
    /\ slips = {} /\ callback = 0 /\ ~exited /\ ~RunInFlight => queue = <<>>

\* Every message typed has one place: sent, queued, on the input line, or cleared there.
EachOnce == IsInjective(Text) /\ ToSet(Text) = 1..typed \ discarded

\* The inductive strengthening of OrderKept, NothingLost and RequiredSavesLand.
FullScreenInv == OrderKept /\ Followed /\ EachOnce

\* "Cleared back into the composer when the turn is cancelled or fails" (app.py:361): every
\* queued message is sent or given back, unless a cancelled operation settled with an exit
\* that waited for it and left its queue behind.
QueueDrains == queue # <<>> ~> (queue = <<>> \/ exited \/ "stranded" \in slips)

\* No key interrupts a required save, the application does not leave one behind, and the
\* exit a user asked for during a save stays noted until the operation settles, whatever the
\* turn saves after it.
RequiredSavesLand ==
    [][/\ task \in Saving => task' \in {task, "working", "done"} /\ ~exited'
       /\ operation.exit /\ operation'.task = operation.task => operation'.exit]_vars

\* "Saving session before exit..." (lifecycle_controller.py:74): once the save has landed the
\* application exits; only a failing save keeps it open.
ExitHonoured ==
    [][operation.exit /\ operation'.task # operation.task => exited' \/ result = "error"]_vars
=============================================================================
