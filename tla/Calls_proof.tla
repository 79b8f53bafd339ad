---------------------------- MODULE Calls_proof ----------------------------
(***************************************************************************)
(* Proofs about the calls a step of a turn makes and waits for, or leaves  *)
(* behind: the call of the LLM with its retries, the batch of sub-agents   *)
(* and the MCP pool it shares, and the jobs in the background.             *)
(*                                                                         *)
(* The LLM call: for every number of attempts, nothing is said twice, the  *)
(* requests are bounded and the answer is booked.  The batch: for any set  *)
(* of tasks, any limit of parallel ones and any number of connections.     *)
(* The jobs: for any set of them and any number of restarts and rebuilds,  *)
(* a final state tells the truth about the processes and the end of a job  *)
(* is told once.  The three models have no variable in common.             *)
(***************************************************************************)
EXTENDS LlmCall, BgJobs, SubAgents, FiniteSetTheorems, TLAPS

-----------------------------------------------------------------------------
(* The LLM call *)

USE CallAssumption DEF CallTypeOK, Stages, Summarizing, Committed

LEMMA CallInvInit == CallInit => CallInv
  BY DEF CallInit, CallInv, OneVoice, Budget, Silent

\* A retry starts from a response of which nothing was shown.
LEMMA BackOffInv ==
  ASSUME CallInv, NEW error, Retryable(error), BackOff, net \in {"streaming", "counted"}
  PROVE  CallInv'
<1>1. CallTypeOK'
  BY SMTT(30) DEF CallInv, Budget, Retryable, BackOff
<1>2. Budget'
  BY SMTT(30) DEF CallInv, Budget, Retryable, BackOff
<1>3. OneVoice'
  BY SMTT(30) DEF CallInv, Budget, OneVoice, Silent, Retryable, BackOff
<1>4. Silent'
  BY SMTT(30) DEF CallInv, Budget, OneVoice, Silent, Retryable, BackOff
<1>5. QED
  BY <1>1, <1>2, <1>3, <1>4 DEF CallInv

\* An error that goes out ends its stream, and the next one is a later one.
LEMMA SurfaceInv ==
  ASSUME CallInv, NEW error, Surface(error), net \in {"streaming", "counted"},
         UNCHANGED <<requests, kept, shown, billed>>
  PROVE  CallInv'
<1>1. CallTypeOK'
  BY SMTT(30) DEF CallInv, Budget, Surface, Summarized, Forward, Over, Enter
<1>2. Budget'
  BY SMTT(30) DEF CallInv, Budget, Surface, Summarized, Forward, Over, Enter
<1>3. OneVoice'
  BY SMTT(30) DEF CallInv, Budget, OneVoice, Silent, Surface, Summarized, Forward, Over, Enter
<1>4. Silent'
  BY SMTT(30) DEF CallInv, Budget, OneVoice, Silent, Surface, Summarized, Forward, Over, Enter
<1>5. QED
  BY <1>1, <1>2, <1>3, <1>4 DEF CallInv

LEMMA CallInvStep == CallInv /\ [CallNext]_callVars => CallInv'
<1> SUFFICES ASSUME CallInv, [CallNext]_callVars PROVE CallInv'
  OBVIOUS
<1>1. CASE Gate
  <2>1. CallTypeOK'
    BY <1>1, SMTT(30) DEF CallInv, Budget, Gate, Enter
  <2>2. Budget'
    BY <1>1, SMTT(30) DEF CallInv, Budget, Gate, Enter
  <2>3. OneVoice'
    BY <1>1, SMTT(30) DEF CallInv, Budget, OneVoice, Silent, Gate, Enter
  <2>4. Silent'
    BY <1>1, SMTT(30) DEF CallInv, Budget, OneVoice, Silent, Gate, Enter
  <2>5. QED
    BY <2>1, <2>2, <2>3, <2>4 DEF CallInv
<1>2. CASE NothingToAsk
  <2>1. CallTypeOK'
    BY <1>2, SMTT(30) DEF CallInv, Budget, NothingToAsk, Over, Enter
  <2>2. Budget'
    BY <1>2, SMTT(30) DEF CallInv, Budget, NothingToAsk, Over, Enter
  <2>3. OneVoice'
    BY <1>2, SMTT(30) DEF CallInv, Budget, OneVoice, Silent, NothingToAsk, Over, Enter
  <2>4. Silent'
    BY <1>2, SMTT(30) DEF CallInv, Budget, OneVoice, Silent, NothingToAsk, Over, Enter
  <2>5. QED
    BY <2>1, <2>2, <2>3, <2>4 DEF CallInv
<1>3. CASE Request
  <2>1. CallTypeOK'
    BY <1>3, SMTT(30) DEF CallInv, Budget, Request
  <2>2. Budget'
    BY <1>3, SMTT(30) DEF CallInv, Budget, Request
  <2>3. OneVoice'
    BY <1>3, SMTT(30) DEF CallInv, Budget, OneVoice, Silent, Request
  <2>4. Silent'
    BY <1>3, SMTT(30) DEF CallInv, Budget, OneVoice, Silent, Request
  <2>5. QED
    BY <2>1, <2>2, <2>3, <2>4 DEF CallInv
<1>4. CASE Visible
  <2>1. shown' \subseteq {requests} /\ requests' = requests /\ requests \in 1..requests
    <3>1. shown' = shown \/ shown' = shown \cup {requests}
      BY <1>4 DEF Visible
    <3>2. shown' \subseteq {requests}
      BY <3>1 DEF CallInv, OneVoice
    <3>3. requests \in 1..requests
      BY <1>4 DEF CallInv, Budget, Visible
    <3>4. QED
      BY <1>4, <3>2, <3>3 DEF Visible
  <2>2. CallTypeOK' /\ OneVoice'
    <3>1. shown' \subseteq 1..requests'
      BY <2>1
    <3>2. (shown' \subseteq 1..requests') => CallTypeOK'
      BY <1>4, SMTT(30) DEF CallInv, Visible
    <3>3. QED
      BY <2>1, <3>1, <3>2 DEF OneVoice
  <2>3. Budget'
    BY <1>4, SMTT(30) DEF CallInv, Budget, Visible
  <2>4. Silent'
    BY <1>4, SMTT(30) DEF CallInv, Budget, Silent, Visible
  <2>5. QED
    BY <2>2, <2>3, <2>4 DEF CallInv
<1>5. CASE Usage
  <2>1. CallTypeOK'
    BY <1>5, SMTT(30) DEF CallInv, Budget, Usage
  <2>2. Budget'
    BY <1>5, SMTT(30) DEF CallInv, Budget, Usage
  <2>3. OneVoice'
    BY <1>5, SMTT(30) DEF CallInv, Budget, OneVoice, Silent, Usage
  <2>4. Silent'
    BY <1>5, SMTT(30) DEF CallInv, Budget, OneVoice, Silent, Usage
  <2>5. QED
    BY <2>1, <2>2, <2>3, <2>4 DEF CallInv
<1>6. CASE Complete
  <2>1. CallTypeOK'
    BY <1>6, SMTT(30) DEF CallInv, Budget, Complete, Summarized, Forward, Over, Enter
  <2>2. Budget'
    BY <1>6, SMTT(30) DEF CallInv, Budget, Complete, Summarized, Forward, Over, Enter
  <2>3. OneVoice'
    BY <1>6, SMTT(30) DEF CallInv, Budget, OneVoice, Silent, Complete, Summarized, Forward, Over, Enter
  <2>4. Silent'
    BY <1>6, SMTT(30) DEF CallInv, Budget, OneVoice, Silent, Complete, Summarized, Forward, Over, Enter
  <2>5. QED
    BY <2>1, <2>2, <2>3, <2>4 DEF CallInv
<1>7. CASE Fail
  <2>1. net \in {"streaming", "counted"}
    BY <1>7 DEF Fail
  <2>2. PICK error : \/ Retryable(error) /\ BackOff
                     \/ GiveUp(error)
    BY <1>7 DEF Fail
  <2>3. CASE Retryable(error) /\ BackOff
    BY <2>1, <2>3, BackOffInv
  <2>4. CASE GiveUp(error)
    BY <2>1, <2>4, SurfaceInv DEF GiveUp
  <2>5. QED
    BY <2>2, <2>3, <2>4
<1>8. CASE Throw
  <2>1. net \in {"streaming", "counted"}
    BY <1>8 DEF Throw
  <2>2. PICK error : \/ Retryable(error) /\ BackOff
                     \/ Retryable(error) /\ GiveUp(error)
                     \/ Over("raised") /\ UNCHANGED <<requests, kept, cuts, shown, billed, usage>>
    BY <1>8 DEF Throw
  <2>3. CASE Retryable(error) /\ BackOff
    BY <2>1, <2>3, BackOffInv
  <2>4. CASE GiveUp(error)
    BY <2>1, <2>4, SurfaceInv DEF GiveUp
  <2>5. CASE Over("raised") /\ UNCHANGED <<requests, kept, cuts, shown, billed, usage>>
    <3>1. CallTypeOK'
      BY <2>1, <2>5, SMTT(30) DEF CallInv, Budget, Over, Enter
    <3>2. Budget'
      BY <2>1, <2>5, SMTT(30) DEF CallInv, Budget, Over, Enter
    <3>3. OneVoice'
      BY <2>1, <2>5, SMTT(30) DEF CallInv, Budget, OneVoice, Silent, Over, Enter
    <3>4. Silent'
      BY <2>1, <2>5, SMTT(30) DEF CallInv, Budget, OneVoice, Silent, Over, Enter
    <3>5. QED
      BY <3>1, <3>2, <3>3, <3>4 DEF CallInv
  <2>6. QED
    BY <2>2, <2>3, <2>4, <2>5
<1>9. CASE UNCHANGED callVars
  BY <1>9 DEF callVars, CallInv, Budget, OneVoice, Silent
<1>10. QED
  BY <1>1, <1>2, <1>3, <1>4, <1>5, <1>6, <1>7, <1>8, <1>9 DEF CallNext

\* The invariant holds of every call.
THEOREM CallInvariant == CallSpec => []CallInv
<1>1. QED
  BY CallInvInit, CallInvStep, PTL DEF CallSpec

\* Once the user has seen some of a response, no other request is made.
THEOREM NothingSaidTwice == CallSpec => []OneVoice
<1>1. CallInv => OneVoice
  BY DEF CallInv
<1>2. QED
  BY <1>1, CallInvariant, PTL

\* Every stream of a call has its attempts once, and a call replaces the history at most
\* twice.
THEOREM RequestsBounded == CallSpec => []NoRetryLoop
<1>1. CallInv => NoRetryLoop
  BY DEF CallInv, Budget, NoRetryLoop
<1>2. QED
  BY <1>1, CallInvariant, PTL

\* What the engine has booked stays that of its own stream, whatever the step.
LEMMA BookedStep == CallInv /\ Booked /\ [CallNext]_callVars => Booked'
<1> SUFFICES ASSUME CallInv, Booked, [CallNext]_callVars PROVE Booked'
  OBVIOUS
<1>1. CASE Gate
  BY <1>1, SMTT(30) DEF CallInv, Booked, Gate, Enter
<1>2. CASE NothingToAsk
  BY <1>2, SMTT(30) DEF CallInv, Booked, NothingToAsk, Over, Enter
<1>3. CASE Request
  BY <1>3, SMTT(30) DEF CallInv, Booked, Request
<1>4. CASE Visible
  BY <1>4, SMTT(30) DEF CallInv, Booked, Visible
<1>5. CASE Usage
  BY <1>5, SMTT(30) DEF CallInv, Booked, Usage
<1>6. CASE Complete
  BY <1>6, SMTT(30) DEF CallInv, Booked, Complete, Summarized, Forward, Over, Enter
<1>7. ASSUME NEW error, BackOff, net \in {"streaming", "counted"}
      PROVE  Booked'
  BY <1>7, SMTT(30) DEF CallInv, Booked, BackOff
<1>8. ASSUME NEW error, Surface(error), UNCHANGED <<requests, kept, shown, billed>>,
             net \in {"streaming", "counted"}
      PROVE  Booked'
  BY <1>8, SMTT(30) DEF CallInv, Booked, Surface, Summarized, Forward, Over, Enter
<1>9. CASE Fail
  BY <1>7, <1>8, <1>9, SMTT(30) DEF Fail, GiveUp
<1>10. CASE Throw
  <2>1. CASE Over("raised") /\ UNCHANGED <<requests, kept, cuts, shown, billed, usage>>
    BY <2>1, SMTT(30) DEF CallInv, Booked, Over, Enter
  <2>2. QED
    BY <1>7, <1>8, <1>10, <2>1, SMTT(30) DEF Throw, GiveUp
<1>11. CASE UNCHANGED callVars
  BY <1>11, SMTT(30) DEF callVars, Booked
<1>12. QED
  BY <1>1, <1>2, <1>3, <1>4, <1>5, <1>6, <1>9, <1>10, <1>11 DEF CallNext

\* The cost the engine books for an answered call is that of the answer, however many
\* attempts, summaries and rescues came before it.
THEOREM AnswerBooked == CallSpec => []AnswerIsBooked
<1>1. CallInit => Booked
  BY DEF CallInit, Booked
<1>2. CallSpec => []Booked
  BY <1>1, BookedStep, CallInvariant, PTL DEF CallSpec
<1>3. CallInv /\ Booked => AnswerIsBooked
  BY DEF CallInv, Booked, AnswerIsBooked
<1>4. QED
  BY <1>2, <1>3, CallInvariant, PTL

HIDE CallAssumption DEF CallTypeOK, Stages, Summarizing, Committed

-----------------------------------------------------------------------------
(* Background jobs *)

USE JobAssumption DEF JobTypeOK, Files, Final, NoTasks, GroupAlive

LEMMA JobInvInit == JobInit => JobInv
  BY DEF JobInit, JobInv, FinalMeansOver, ToldOnce, WatchInv

LEMMA JobStepInv ==
  ASSUME JobInv, NEW j \in Jobs,
         \/ Exits(j) \/ TimesOut(j) \/ Run(j) \/ Stop(j) \/ Reap(j) \/ PollEnds(j)
         \/ KilledInRun(j) \/ KilledInFinalize(j)
  PROVE  JobInv'
<1>0. FinalMeansOver /\ ToldOnce /\ WatchInv
  BY DEF JobInv
<1>1. CASE Exits(j)
  <2>1. FinalMeansOver'
    BY <1>0, <1>1, SMTT(30) DEF FinalMeansOver, ToldOnce, WatchInv, Exits
  <2>2. ToldOnce'
    BY <1>0, <1>1, SMTT(30) DEF FinalMeansOver, ToldOnce, WatchInv, Exits
  <2>3. WatchInv'
    BY <1>0, <1>1, SMTT(30) DEF FinalMeansOver, WatchInv, Exits
  <2>4. QED
    BY <2>1, <2>2, <2>3 DEF JobInv
<1>2. CASE TimesOut(j)
  <2>1. FinalMeansOver'
    BY <1>0, <1>2, SMTT(30) DEF FinalMeansOver, ToldOnce, WatchInv, TimesOut
  <2>2. ToldOnce'
    BY <1>0, <1>2, SMTT(30) DEF FinalMeansOver, ToldOnce, WatchInv, TimesOut
  <2>3. WatchInv'
    BY <1>0, <1>2, SMTT(30) DEF FinalMeansOver, WatchInv, TimesOut
  <2>4. QED
    BY <2>1, <2>2, <2>3 DEF JobInv
<1>3. CASE Run(j)
  <2>1. FinalMeansOver'
    BY <1>0, <1>3, SMTT(30) DEF FinalMeansOver, ToldOnce, WatchInv, Run
  <2>2. ToldOnce'
    BY <1>0, <1>3, SMTT(30) DEF FinalMeansOver, ToldOnce, WatchInv, Run
  <2>3. WatchInv'
    BY <1>0, <1>3, SMTT(30) DEF FinalMeansOver, WatchInv, Run
  <2>4. QED
    BY <2>1, <2>2, <2>3 DEF JobInv
<1>4. CASE Stop(j)
  <2>1. FinalMeansOver'
    BY <1>0, <1>4, SMTT(30) DEF FinalMeansOver, ToldOnce, WatchInv, Stop
  <2>2. ToldOnce'
    BY <1>0, <1>4, SMTT(30) DEF FinalMeansOver, ToldOnce, WatchInv, Stop
  <2>3. WatchInv'
    BY <1>0, <1>4, SMTT(30) DEF FinalMeansOver, WatchInv, Stop
  <2>4. QED
    BY <2>1, <2>2, <2>3 DEF JobInv
<1>5. CASE Reap(j)
  <2>1. FinalMeansOver'
    BY <1>0, <1>5, SMTT(30) DEF FinalMeansOver, ToldOnce, WatchInv, Reap, Finalize
  <2>2. ToldOnce'
    BY <1>0, <1>5, SMTT(30) DEF FinalMeansOver, ToldOnce, WatchInv, Reap, Finalize
  <2>3. WatchInv'
    BY <1>0, <1>5, SMTT(30) DEF FinalMeansOver, WatchInv, Reap, Finalize
  <2>4. QED
    BY <2>1, <2>2, <2>3 DEF JobInv
<1>6. CASE PollEnds(j)
  <2>1. FinalMeansOver'
    BY <1>0, <1>6, SMTT(30) DEF FinalMeansOver, ToldOnce, WatchInv, PollEnds, Finalize
  <2>2. ToldOnce'
    BY <1>0, <1>6, SMTT(30) DEF FinalMeansOver, ToldOnce, WatchInv, PollEnds, Finalize
  <2>3. WatchInv'
    BY <1>0, <1>6, SMTT(30) DEF FinalMeansOver, WatchInv, PollEnds, Finalize
  <2>4. QED
    BY <2>1, <2>2, <2>3 DEF JobInv
<1>7. CASE KilledInRun(j)
  <2>1. FinalMeansOver'
    BY <1>0, <1>7, SMTT(30) DEF FinalMeansOver, ToldOnce, WatchInv, KilledInRun, Gone
  <2>2. ToldOnce'
    BY <1>0, <1>7, SMTT(30) DEF FinalMeansOver, ToldOnce, WatchInv, KilledInRun, Gone
  <2>3. WatchInv'
    BY <1>0, <1>7, SMTT(30) DEF FinalMeansOver, WatchInv, KilledInRun, Gone
  <2>4. QED
    BY <2>1, <2>2, <2>3 DEF JobInv
<1>8. CASE KilledInFinalize(j)
  <2>1. FinalMeansOver'
    BY <1>0, <1>8, SMTT(30) DEF FinalMeansOver, ToldOnce, WatchInv, KilledInFinalize, Gone
  <2>2. ToldOnce'
    BY <1>0, <1>8, SMTT(30) DEF FinalMeansOver, ToldOnce, WatchInv, KilledInFinalize, Gone
  <2>3. WatchInv'
    BY <1>0, <1>8, SMTT(30) DEF FinalMeansOver, WatchInv, KilledInFinalize, Gone
  <2>4. QED
    BY <2>1, <2>2, <2>3 DEF JobInv
<1>9. QED
  BY <1>1, <1>2, <1>3, <1>4, <1>5, <1>6, <1>7, <1>8

LEMMA JobInvStep == JobInv /\ [JobNext]_jobVars => JobInv'
<1> SUFFICES ASSUME JobInv, [JobNext]_jobVars PROVE JobInv'
  OBVIOUS
<1>0. FinalMeansOver /\ ToldOnce /\ WatchInv
  BY DEF JobInv
<1>1. CASE StopAnswers
  <2>1. FinalMeansOver'
    BY <1>0, <1>1, SMTT(30) DEF FinalMeansOver, ToldOnce, WatchInv, StopAnswers
  <2>2. ToldOnce'
    BY <1>0, <1>1, SMTT(30) DEF FinalMeansOver, ToldOnce, WatchInv, StopAnswers
  <2>3. WatchInv'
    BY <1>0, <1>1, SMTT(30) DEF FinalMeansOver, WatchInv, StopAnswers
  <2>4. QED
    BY <2>1, <2>2, <2>3 DEF JobInv
<1>2. CASE CancelStop
  <2>1. FinalMeansOver'
    BY <1>0, <1>2, SMTT(30) DEF FinalMeansOver, ToldOnce, WatchInv, CancelStop
  <2>2. ToldOnce'
    BY <1>0, <1>2, SMTT(30) DEF FinalMeansOver, ToldOnce, WatchInv, CancelStop
  <2>3. WatchInv'
    BY <1>0, <1>2, SMTT(30) DEF FinalMeansOver, WatchInv, CancelStop
  <2>4. QED
    BY <2>1, <2>2, <2>3 DEF JobInv
<1>3. CASE Deliver
  <2>1. FinalMeansOver'
    BY <1>0, <1>3, SMTT(30) DEF FinalMeansOver, ToldOnce, WatchInv, Deliver
  <2>2. ToldOnce'
    BY <1>0, <1>3, SMTT(30) DEF FinalMeansOver, ToldOnce, WatchInv, Deliver
  <2>3. WatchInv'
    BY <1>0, <1>3, SMTT(30) DEF FinalMeansOver, WatchInv, Deliver
  <2>4. QED
    BY <2>1, <2>2, <2>3 DEF JobInv
<1>4. CASE StartHost
  <2>1. FinalMeansOver'
    BY <1>0, <1>4, SMTT(30) DEF FinalMeansOver, ToldOnce, WatchInv, StartHost, Load, Reconciled, Inherited
  <2>2. ToldOnce'
    BY <1>0, <1>4, SMTT(30) DEF FinalMeansOver, ToldOnce, WatchInv, StartHost, Load, Reconciled, Inherited
  <2>3. WatchInv'
    BY <1>0, <1>4, SMTT(30) DEF FinalMeansOver, WatchInv, StartHost, Load, Reconciled, Inherited
  <2>4. QED
    BY <2>1, <2>2, <2>3 DEF JobInv
<1>5. CASE Rebuild
  <2>1. FinalMeansOver'
    BY <1>0, <1>5, SMTT(30) DEF FinalMeansOver, ToldOnce, WatchInv, Rebuild, Load, Reconciled, Inherited
  <2>2. ToldOnce'
    BY <1>0, <1>5, SMTT(30) DEF FinalMeansOver, ToldOnce, WatchInv, Rebuild, Load, Reconciled, Inherited
  <2>3. WatchInv'
    BY <1>0, <1>5, SMTT(30) DEF FinalMeansOver, WatchInv, Rebuild, Load, Reconciled, Inherited
  <2>4. QED
    BY <2>1, <2>2, <2>3 DEF JobInv
<1>6. CASE HostEnds
  <2>1. FinalMeansOver'
    BY <1>0, <1>6, SMTT(30) DEF FinalMeansOver, ToldOnce, WatchInv, HostEnds, Gone
  <2>2. ToldOnce'
    BY <1>0, <1>6, SMTT(30) DEF FinalMeansOver, ToldOnce, WatchInv, HostEnds, Gone
  <2>3. WatchInv'
    BY <1>0, <1>6, SMTT(30) DEF FinalMeansOver, WatchInv, HostEnds, Gone
  <2>4. QED
    BY <2>1, <2>2, <2>3 DEF JobInv
<1>7. CASE UNCHANGED jobVars
  BY <1>7 DEF JobInv, FinalMeansOver, ToldOnce, WatchInv, jobVars
<1>8. QED
  BY <1>1, <1>2, <1>3, <1>4, <1>5, <1>6, <1>7, JobStepInv DEF JobNext

\* Every state a program with background jobs can be in satisfies JobInv.
THEOREM JobInvariant == JobSpec => []JobInv
  BY JobInvInit, JobInvStep, PTL DEF JobSpec

\* What _reap and _mark_orphaned record as ended is over, and what stop_bg_job says it
\* stopped is dead unless a cancellation took its poller along (FinalMeansOver).
THEOREM FinalIsTrue == JobSpec => []FinalMeansOver
<1>1. JobInv => FinalMeansOver
  BY DEF JobInv
<1>2. QED
  BY <1>1, JobInvariant, PTL

\* No end of a job is told twice, and none is forgotten over restarts and rebuilds
\* (ToldOnce: _fire_wake and drain_pending_wakes).
THEOREM EndToldOnce == JobSpec => []ToldOnce
<1>1. JobInv => ToldOnce
  BY DEF JobInv
<1>2. QED
  BY <1>1, JobInvariant, PTL

HIDE JobAssumption DEF JobTypeOK, Files, Final, NoTasks, GroupAlive

-----------------------------------------------------------------------------
(* Sub-agents *)

USE PoolAssumption, BatchAssumption DEF PoolTypeOK, ConnStates, Conns

----------------------------------------------------------------------------
(* The pool, one caller's step at a time                                    *)

\* A caller takes the pooled session, or queues for the lock.
LEMMA EnterPoolInv ==
  ASSUME PoolInv, NEW c \in Callers, EnterPool(c)
  PROVE  PoolInv'
<1>1. PoolTypeOK'
  BY SMTT(30) DEF PoolInv, PoolKept, Connecting, Held, Numbered, EnterPool, Proceed
<1>2. \A d \in Callers : Connecting(d)' <=> lock' = d
  BY SMTT(30) DEF PoolInv, PoolKept, Connecting, Held, Numbered, EnterPool, Proceed
<1>3. (lock # "none" => pool = 0)'
  BY SMTT(30) DEF PoolInv, PoolKept, Connecting, Held, Numbered, EnterPool, Proceed
<1>4. (pool # 0 => conn[pool] \in {"up", "broken"} /\ pool \notin failed)'
  BY SMTT(30) DEF PoolInv, PoolKept, Connecting, Held, Numbered, EnterPool, Proceed
<1>5. Held'
  BY SMTT(30) DEF PoolInv, PoolKept, Connecting, Held, Numbered, EnterPool, Proceed
<1>6. Numbered'
  BY SMTT(30) DEF PoolInv, PoolKept, Connecting, Held, Numbered, EnterPool, Proceed
<1>7. QED
  BY <1>1, <1>2, <1>3, <1>4, <1>5, <1>6 DEF PoolInv, PoolKept

\* A connection is opened only where none is pooled.
LEMMA GetLockInv ==
  ASSUME PoolInv, NEW c \in Callers, GetLock(c)
  PROVE  PoolInv'
<1>1. PoolTypeOK'
  BY SMTT(30) DEF PoolInv, PoolKept, Connecting, Held, Numbered, GetLock, Proceed
<1>2. \A d \in Callers : Connecting(d)' <=> lock' = d
  BY SMTT(30) DEF PoolInv, PoolKept, Connecting, Held, Numbered, GetLock, Proceed
<1>3. (lock # "none" => pool = 0)'
  BY SMTT(30) DEF PoolInv, PoolKept, Connecting, Held, Numbered, GetLock, Proceed
<1>4. (pool # 0 => conn[pool] \in {"up", "broken"} /\ pool \notin failed)'
  BY SMTT(30) DEF PoolInv, PoolKept, Connecting, Held, Numbered, GetLock, Proceed
<1>5. Held'
  BY SMTT(30) DEF PoolInv, PoolKept, Connecting, Held, Numbered, GetLock, Proceed
<1>6. Numbered'
  BY SMTT(30) DEF PoolInv, PoolKept, Connecting, Held, Numbered, GetLock, Proceed
<1>7. QED
  BY <1>1, <1>2, <1>3, <1>4, <1>5, <1>6 DEF PoolInv, PoolKept

LEMMA OpenedInv ==
  ASSUME PoolInv, NEW c \in Callers, Opened(c)
  PROVE  PoolInv'
<1>1. PoolTypeOK'
  BY SMTT(30) DEF PoolInv, PoolKept, Connecting, Held, Numbered, Opened
<1>2. \A d \in Callers : Connecting(d)' <=> lock' = d
  BY SMTT(30) DEF PoolInv, PoolKept, Connecting, Held, Numbered, Opened
<1>3. (lock # "none" => pool = 0)'
  BY SMTT(30) DEF PoolInv, PoolKept, Connecting, Held, Numbered, Opened
<1>4. (pool # 0 => conn[pool] \in {"up", "broken"} /\ pool \notin failed)'
  BY SMTT(30) DEF PoolInv, PoolKept, Connecting, Held, Numbered, Opened
<1>5. Held'
  BY SMTT(30) DEF PoolInv, PoolKept, Connecting, Held, Numbered, Opened
<1>6. Numbered'
  BY SMTT(30) DEF PoolInv, PoolKept, Connecting, Held, Numbered, Opened
<1>7. QED
  BY <1>1, <1>2, <1>3, <1>4, <1>5, <1>6 DEF PoolInv, PoolKept

\* What is pooled has just shaken hands, and no call can have failed on it.
LEMMA ShakenInv ==
  ASSUME PoolInv, NEW c \in Callers, Shaken(c)
  PROVE  PoolInv'
<1>1. PoolTypeOK'
  BY SMTT(30) DEF PoolInv, PoolKept, Connecting, Held, Numbered, Shaken, Proceed
<1>2. \A d \in Callers : Connecting(d)' <=> lock' = d
  BY SMTT(30) DEF PoolInv, PoolKept, Connecting, Held, Numbered, Shaken, Proceed
<1>3. (lock # "none" => pool = 0)'
  BY SMTT(30) DEF PoolInv, PoolKept, Connecting, Held, Numbered, Shaken, Proceed
<1>4. (pool # 0 => conn[pool] \in {"up", "broken"} /\ pool \notin failed)'
  BY SMTT(30) DEF PoolInv, PoolKept, Connecting, Held, Numbered, Shaken, Proceed
<1>5. Held'
  BY SMTT(30) DEF PoolInv, PoolKept, Connecting, Held, Numbered, Shaken, Proceed
<1>6. Numbered'
  BY SMTT(30) DEF PoolInv, PoolKept, Connecting, Held, Numbered, Shaken, Proceed
<1>7. QED
  BY <1>1, <1>2, <1>3, <1>4, <1>5, <1>6 DEF PoolInv, PoolKept

LEMMA ListedInv ==
  ASSUME PoolInv, NEW c \in Callers, Listed(c)
  PROVE  PoolInv'
<1>1. PoolTypeOK'
  BY SMTT(30) DEF PoolInv, PoolKept, Connecting, Held, Numbered, Listed
<1>2. \A d \in Callers : Connecting(d)' <=> lock' = d
  BY SMTT(30) DEF PoolInv, PoolKept, Connecting, Held, Numbered, Listed
<1>3. (lock # "none" => pool = 0)'
  BY SMTT(30) DEF PoolInv, PoolKept, Connecting, Held, Numbered, Listed
<1>4. (pool # 0 => conn[pool] \in {"up", "broken"} /\ pool \notin failed)'
  BY SMTT(30) DEF PoolInv, PoolKept, Connecting, Held, Numbered, Listed
<1>5. Held'
  BY SMTT(30) DEF PoolInv, PoolKept, Connecting, Held, Numbered, Listed
<1>6. Numbered'
  BY SMTT(30) DEF PoolInv, PoolKept, Connecting, Held, Numbered, Listed
<1>7. QED
  BY <1>1, <1>2, <1>3, <1>4, <1>5, <1>6 DEF PoolInv, PoolKept

LEMMA CalledInv ==
  ASSUME PoolInv, NEW c \in Callers, Called(c)
  PROVE  PoolInv'
<1>1. PoolTypeOK'
  BY SMTT(30) DEF PoolInv, PoolKept, Connecting, Held, Numbered, Called, Leave
<1>2. \A d \in Callers : Connecting(d)' <=> lock' = d
  BY SMTT(30) DEF PoolInv, PoolKept, Connecting, Held, Numbered, Called, Leave
<1>3. (lock # "none" => pool = 0)'
  BY SMTT(30) DEF PoolInv, PoolKept, Connecting, Held, Numbered, Called, Leave
<1>4. (pool # 0 => conn[pool] \in {"up", "broken"} /\ pool \notin failed)'
  BY SMTT(30) DEF PoolInv, PoolKept, Connecting, Held, Numbered, Called, Leave
<1>5. Held'
  BY SMTT(30) DEF PoolInv, PoolKept, Connecting, Held, Numbered, Called, Leave
<1>6. Numbered'
  BY SMTT(30) DEF PoolInv, PoolKept, Connecting, Held, Numbered, Called, Leave
<1>7. QED
  BY <1>1, <1>2, <1>3, <1>4, <1>5, <1>6 DEF PoolInv, PoolKept

\* A failed call takes the pooled session with it.
LEMMA CallFailsInv ==
  ASSUME PoolInv, NEW c \in Callers, CallFails(c)
  PROVE  PoolInv'
<1>1. PoolTypeOK'
  BY SMTT(30) DEF PoolInv, PoolKept, Connecting, Held, Numbered, CallFails, Leave
<1>2. \A d \in Callers : Connecting(d)' <=> lock' = d
  BY SMTT(30) DEF PoolInv, PoolKept, Connecting, Held, Numbered, CallFails, Leave
<1>3. (lock # "none" => pool = 0)'
  BY SMTT(30) DEF PoolInv, PoolKept, Connecting, Held, Numbered, CallFails, Leave
<1>4. (pool # 0 => conn[pool] \in {"up", "broken"} /\ pool \notin failed)'
  BY SMTT(30) DEF PoolInv, PoolKept, Connecting, Held, Numbered, CallFails, Leave
<1>5. Held'
  BY SMTT(30) DEF PoolInv, PoolKept, Connecting, Held, Numbered, CallFails, Leave
<1>6. Numbered'
  BY SMTT(30) DEF PoolInv, PoolKept, Connecting, Held, Numbered, CallFails, Leave
<1>7. QED
  BY <1>1, <1>2, <1>3, <1>4, <1>5, <1>6 DEF PoolInv, PoolKept

\* A cancelled caller frees the lock.
LEMMA InterruptedInv ==
  ASSUME PoolInv, NEW c \in Callers, Interrupted(c)
  PROVE  PoolInv'
<1>1. PoolTypeOK'
  BY SMTT(30) DEF PoolInv, PoolKept, Connecting, Held, Numbered, Interrupted, Leave
<1>2. \A d \in Callers : Connecting(d)' <=> lock' = d
  BY SMTT(30) DEF PoolInv, PoolKept, Connecting, Held, Numbered, Interrupted, Leave
<1>3. (lock # "none" => pool = 0)'
  BY SMTT(30) DEF PoolInv, PoolKept, Connecting, Held, Numbered, Interrupted, Leave
<1>4. (pool # 0 => conn[pool] \in {"up", "broken"} /\ pool \notin failed)'
  BY SMTT(30) DEF PoolInv, PoolKept, Connecting, Held, Numbered, Interrupted, Leave
<1>5. Held'
  BY SMTT(30) DEF PoolInv, PoolKept, Connecting, Held, Numbered, Interrupted, Leave
<1>6. Numbered'
  BY SMTT(30) DEF PoolInv, PoolKept, Connecting, Held, Numbered, Interrupted, Leave
<1>7. QED
  BY <1>1, <1>2, <1>3, <1>4, <1>5, <1>6 DEF PoolInv, PoolKept

LEMMA BreaksInv ==
  ASSUME PoolInv, NEW k \in Conns, Breaks(k)
  PROVE  PoolInv'
  BY SMTT(30) DEF PoolInv, PoolKept, Connecting, Held, Numbered, Breaks

LEMMA PoolUnchanged == PoolInv /\ UNCHANGED poolVars => PoolInv'
  BY SMTT(30) DEF poolVars, PoolInv, PoolKept, Connecting, Held, Numbered

----------------------------------------------------------------------------
(* The batch                                                                *)

LEMMA BatchInitInv == BatchInit => BatchInv
<1> SUFFICES ASSUME BatchInit PROVE BatchInv
  OBVIOUS
<1>1. Running = {}
  BY DEF BatchInit, Running
<1>2. IsFiniteSet(Running) /\ Cardinality(Running) <= MaxParallel
  BY <1>1, FS_EmptySet
<1>3. BatchTypeOK /\ Cancelled /\ \A t \in Callers : at[t] = "out"
  BY DEF BatchInit, PoolInit, BatchTypeOK, Cancelled
<1>4. PoolInv
  BY SMTT(30) DEF BatchInit, PoolInit, PoolInv, PoolKept, Connecting, Held, Numbered
<1>5. QED
  BY <1>2, <1>3, <1>4 DEF BatchInv

\* Where no task starts, the limit of parallel ones holds on.
LEMMA FewerRunning ==
  ASSUME BatchInv, Running' \subseteq Running
  PROVE  IsFiniteSet(Running)' /\ (Cardinality(Running) <= MaxParallel)'
<1>1. IsFiniteSet(Running') /\ Cardinality(Running') <= Cardinality(Running)
  BY FS_Subset DEF BatchInv
<1>2. Cardinality(Running) \in Nat /\ Cardinality(Running') \in Nat
  BY <1>1, FS_CardinalityType DEF BatchInv
<1>3. QED
  BY <1>1, <1>2 DEF BatchInv

\* A task takes a slot only where one is free.
LEMMA StartTaskInv ==
  ASSUME BatchInv, NEW t \in Callers, StartTask(t)
  PROVE  BatchInv'
<1>1. BatchTypeOK' /\ Cancelled' /\ \A u \in Callers : (at[u] # "out" => task[u] = "running")'
  BY SMTT(30) DEF BatchInv, BatchTypeOK, Cancelled, StartTask, poolVars
<1>2. PoolInv'
  BY PoolUnchanged DEF BatchInv, StartTask
<1>3. IsFiniteSet(Running)' /\ (Cardinality(Running) <= MaxParallel)'
  <2>1. Running' = Running \cup {t} /\ t \notin Running
    BY DEF BatchInv, BatchTypeOK, StartTask, Running
  <2>2. IsFiniteSet(Running') /\ Cardinality(Running') = Cardinality(Running) + 1
    BY <2>1, FS_AddElement DEF BatchInv
  <2>3. Cardinality(Running) \in Nat
    BY FS_CardinalityType DEF BatchInv
  <2>4. QED
    BY <2>2, <2>3 DEF StartTask
<1>4. QED
  BY <1>1, <1>2, <1>3 DEF BatchInv

\* A step in which a task moves through the pool, or out of it.
LEMMA PoolStepInv ==
  ASSUME BatchInv, NEW t \in Callers, UseTool(t) \/ PoolStep(t)
  PROVE  BatchInv'
<1>1. task[t] = "running"
  BY DEF BatchInv, UseTool, PoolStep, GetLock, Opened, Shaken, Listed, Called, CallFails
<1>2. PoolInv'
  BY EnterPoolInv, GetLockInv, OpenedInv, ShakenInv, ListedInv, CalledInv, CallFailsInv
  DEF BatchInv, UseTool, PoolStep
<1>3. UNCHANGED <<task, doomed, batch>> /\ BatchTypeOK'
  BY DEF BatchInv, BatchTypeOK, UseTool, PoolStep, taskVars
<1>4. \A u \in Callers : u # t => at'[u] = at[u]
  BY SMTT(30) DEF BatchInv, PoolInv, PoolKept, UseTool, PoolStep, EnterPool, GetLock, Opened, Shaken,
                  Listed, Called, CallFails, Leave, Proceed
<1>5. Running' = Running
  BY <1>3 DEF Running
<1>6. Cancelled' /\ \A u \in Callers : (at[u] # "out" => task[u] = "running")'
  BY <1>1, <1>3, <1>4 DEF BatchInv, Cancelled
<1>7. QED
  BY <1>2, <1>3, <1>5, <1>6, FewerRunning DEF BatchInv

\* A step that leaves the pool alone and starts no task.
LEMMA ControlInv ==
  ASSUME BatchInv,
         \/ \E t \in Callers : RunEnds(t) \/ Expire(t)
         \/ CancelBatch \/ BatchCancelled \/ BatchAnswered \/ UNCHANGED batchVars
  PROVE  BatchInv'
<1>1. UNCHANGED poolVars
  BY DEF RunEnds, Expire, CancelBatch, BatchCancelled, BatchAnswered, batchVars
<1>2. PoolInv'
  BY <1>1, PoolUnchanged DEF BatchInv
<1>3. BatchTypeOK'
  BY SMTT(30) DEF BatchInv, BatchTypeOK, RunEnds, Expire, CancelBatch, BatchCancelled,
                  BatchAnswered, batchVars, taskVars
<1>4. Cancelled'
  BY SMTT(30) DEF BatchInv, BatchTypeOK, Cancelled, RunEnds, Expire, CancelBatch, BatchCancelled,
                  BatchAnswered, batchVars, taskVars
<1>5. \A u \in Callers : (at[u] # "out" => task[u] = "running")'
  BY SMTT(30) DEF BatchInv, BatchTypeOK, RunEnds, Expire, CancelBatch, BatchCancelled,
                  BatchAnswered, batchVars, taskVars, poolVars
<1>6. Running' \subseteq Running
  BY SMTT(30) DEF BatchInv, BatchTypeOK, Running, RunEnds, Expire, CancelBatch, BatchCancelled,
                  BatchAnswered, batchVars, taskVars
<1>7. QED
  BY <1>2, <1>3, <1>4, <1>5, <1>6, FewerRunning DEF BatchInv

\* A cancelled task leaves the pool on its way out.
LEMMA UnwindInv ==
  ASSUME BatchInv, NEW t \in Callers, Unwind(t)
  PROVE  BatchInv'
<1>1. PoolInv'
  BY InterruptedInv DEF BatchInv, Unwind
<1>2. BatchTypeOK' /\ Cancelled'
  BY SMTT(30) DEF BatchInv, BatchTypeOK, Cancelled, Unwind
<1>3. \A u \in Callers : (at[u] # "out" => task[u] = "running")'
  BY SMTT(30) DEF BatchInv, BatchTypeOK, PoolInv, PoolKept, Unwind, Interrupted, Leave
<1>4. Running' \subseteq Running
  BY SMTT(30) DEF BatchInv, BatchTypeOK, Running, Unwind
<1>5. QED
  BY <1>1, <1>2, <1>3, <1>4, FewerRunning DEF BatchInv

LEMMA BreaksBatchInv ==
  ASSUME BatchInv, NEW k \in Conns, Breaks(k), UNCHANGED taskVars
  PROVE  BatchInv'
<1>1. PoolInv'
  BY BreaksInv DEF BatchInv
<1>2. UNCHANGED <<task, model, doomed, batch, uses, at>>
  BY DEF taskVars, Breaks
<1>3. Running' = Running
  BY <1>2 DEF Running
<1>4. QED
  BY <1>1, <1>2, <1>3, FewerRunning DEF BatchInv, BatchTypeOK, Cancelled

\* The invariant holds of every batch.
THEOREM BatchInvariant == BatchSpec => []BatchInv
<1>1. BatchInv /\ [BatchNext]_batchVars => BatchInv'
  BY StartTaskInv, PoolStepInv, ControlInv, UnwindInv, BreaksBatchInv DEF BatchNext
<1>2. QED
  BY <1>1, BatchInitInv, PTL DEF BatchSpec

\* However the tasks of a batch fail, time out, fail over and are cancelled: the pool stays
\* sound, the limit of parallel tasks holds, no task keeps the lock past its answer, and
\* only the tasks of a cancelled batch outlive it.
THEOREM PoolShared == BatchSpec => []SharedPoolKept
<1>1. BatchInv => SharedPoolKept
  <2> SUFFICES ASSUME BatchInv PROVE SharedPoolKept
    OBVIOUS
  <2>1. batch = "answered" => lock = "none"
    BY DEF BatchInv, PoolInv, PoolKept, Connecting, Cancelled
  <2>2. batch = "cancelled" => \A t \in Running : doomed[t] = "batch"
    BY DEF BatchInv, Cancelled, Running
  <2>3. QED
    BY <2>1, <2>2 DEF BatchInv, PoolInv, SharedPoolKept
<1>2. QED
  BY <1>1, BatchInvariant, PTL
=============================================================================
