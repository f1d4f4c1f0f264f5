-------------------------- MODULE WorkflowRunProofs --------------------------
(***************************************************************************)
(* Theorems about WorkflowRun, for every number of calls, keys, steps,     *)
(* targets and attempts, and about WorkflowInference, for every number of  *)
(* deployments, places and other calls as well.                            *)
(***************************************************************************)
EXTENDS WorkflowInference, FiniteSetTheorems, TLAPS

-----------------------------------------------------------------------------
(***************************************************************************)
(* Typing.  TypeOK is not inductive alone: an action that indexes a        *)
(* function by a local variable needs to know that it is in the domain.    *)
(***************************************************************************)

\* Where the execute goroutine works on the step Cur(r).
StepPcs == {"starting", "target", "attempt", "retrying", "backoff", "exec",
            "succeeded", "completed", "failed", "stepfailed", "failing"}

WellPlaced ==
  /\ \A c \in Requests : caller[c].pc # "idle" => caller[c].payload \in Payloads
  /\ \A c \in Requests : caller[c].pc \in {"check", "record"} => caller[c].key \in Keys
  /\ \A r \in Requests : runner[r].pc \in StepPcs => runner[r].idx \in Steps
  /\ \A x \in Cancels : canceller[x].pc \in {"fire", "emit"} => canceller[x].run \in Requests

TypeInv == TypeOK /\ WellPlaced

\* The initial state has the types declared and no goroutine is placed yet.
LEMMA TypingInit == Init => TypeInv
  BY ConstantsAssumption DEF Init, TypeInv, TypeOK, WellPlaced, CallerPc, RunnerPc, CancelPc,
     RunStatus, StepStatus, StepPcs, Steps, Events, CallerRecord, RunnerRecord, CancelRecord, IdemEntry, Outcomes

\* The steps of a StartRun call and the expiry of keys keep the types.
LEMMA TypingCaller ==
  ASSUME TypeInv,
         \/ \E c \in Requests : StartRun(c) \/ CallerStep(c)
         \/ \E k \in Keys : IdemExpire(k)
  PROVE  TypeInv'
<1>caller. caller \in [Requests -> CallerRecord]
  BY DEF TypeInv, TypeOK
<1>idem. idem \in [Keys -> IdemEntry]
  BY DEF TypeInv, TypeOK
<1>sem. sem \in Int
  BY DEF TypeInv, TypeOK
<1>status. status \in [Requests -> RunStatus]
  BY DEF TypeInv, TypeOK
<1>events. events \in [Requests -> Seq(Events)]
  BY DEF TypeInv, TypeOK
<1>runner. runner \in [Requests -> RunnerRecord]
  BY DEF TypeInv, TypeOK
<1>wp. WellPlaced
  BY DEF TypeInv
<1>1. ASSUME NEW c \in Requests, StartRun(c) PROVE TypeInv'
  <2>1. PICK k \in Keys \cup {NoKey}, p \in Payloads :
          caller' = [caller EXCEPT ![c] = [@ EXCEPT !.pc = IF k = NoKey THEN "acquire" ELSE "check",
                                                    !.key = k, !.payload = p]]
    BY <1>1 DEF StartRun
  <2>2. caller' \in [Requests -> CallerRecord]
    BY <2>1, <1>caller, ZenonT(60) DEF CallerRecord, CallerPc
  <2>3. UNCHANGED <<idem, sem, runVars, signalVars, ctxVars, runner, canceller>>
    BY <1>1 DEF StartRun
  <2>4. WellPlaced'
    BY <2>1, <2>3, <1>wp, <1>caller DEF WellPlaced, CallerRecord, CallerPc
  <2> QED BY <2>2, <2>3, <2>4 DEF TypeInv, TypeOK, runVars, stepVars, signalVars, ctxVars
<1>2. ASSUME NEW c \in Requests, IdemCheck(c) PROVE TypeInv'
  <2>1. caller[c].key \in Keys
    BY <1>2, <1>wp DEF IdemCheck, WellPlaced
  <2>2. idem[caller[c].key] # None => idem[caller[c].key].run \in Requests
    BY <2>1, <1>idem DEF IdemEntry
  <2>3. \E a \in Requests \cup Errors : Call(c, "acquire") \/ Answer(c, a)
    BY <1>2, <2>2 DEF IdemCheck, Errors
  <2>4. caller' \in [Requests -> CallerRecord]
    BY <2>3, <1>caller DEF Call, Answer, CallerRecord, CallerPc
  <2>5. UNCHANGED <<idem, sem, runVars, signalVars, ctxVars, runner, canceller>>
    BY <1>2 DEF IdemCheck
  <2>6. caller[c].pc = "check"
    BY <1>2 DEF IdemCheck
  <2>7. WellPlaced'
    BY <2>3, <2>5, <2>6, <1>wp, <1>caller DEF WellPlaced, Call, Answer, CallerRecord, CallerPc
  <2> QED BY <2>4, <2>5, <2>7 DEF TypeInv, TypeOK, runVars, stepVars, signalVars, ctxVars
<1>3. ASSUME NEW c \in Requests, AcquireSlot(c) PROVE TypeInv'
  <2>1. caller' \in [Requests -> CallerRecord]
    BY <1>3, <1>caller DEF AcquireSlot, Call, Answer, Errors, CallerRecord, CallerPc
  <2>2. sem' \in Int
    BY <1>3, <1>sem DEF AcquireSlot
  <2>3. WellPlaced'
    BY <1>3, <1>wp, <1>caller DEF AcquireSlot, WellPlaced, startVars, Call, Answer, CallerRecord, CallerPc
  <2> QED BY <1>3, <2>1, <2>2, <2>3 DEF AcquireSlot, TypeInv, TypeOK, runVars, stepVars, signalVars, ctxVars, startVars
<1>4. ASSUME NEW c \in Requests, Create(c) PROVE TypeInv'
  <2>1. caller' \in [Requests -> CallerRecord]
    BY <1>4, <1>caller DEF Create, Call, CallerRecord, CallerPc
  <2>2. status' \in [Requests -> RunStatus]
    BY <1>4, <1>status DEF Create, RunStatus
  <2>3. WellPlaced'
    BY <1>4, <1>wp, <1>caller DEF Create, WellPlaced, startVars, Call, CallerRecord, CallerPc
  <2> QED BY <1>4, <2>1, <2>2, <2>3 DEF Create, TypeInv, TypeOK, runVars, stepVars, signalVars, ctxVars, startVars
<1>5. ASSUME NEW c \in Requests, CreateFails(c) PROVE TypeInv'
  <2>1. caller' \in [Requests -> CallerRecord]
    BY <1>5, <1>caller, ZenonT(60) DEF CreateFails, Answer, Errors, CallerRecord, CallerPc
  <2>2. sem' \in Int
    BY <1>5, <1>sem DEF CreateFails
  <2>3. status' \in [Requests -> RunStatus]
    BY <1>5, <1>status DEF CreateFails, RunStatus
  <2>4. WellPlaced'
    BY <1>5, <1>wp, <1>caller DEF CreateFails, WellPlaced, startVars, Answer, CallerRecord, CallerPc
  <2> QED BY <1>5, <2>1, <2>2, <2>3, <2>4 DEF CreateFails, TypeInv, TypeOK, runVars, stepVars, signalVars, ctxVars, startVars
<1>6. ASSUME NEW c \in Requests, IdemRecord(c) PROVE TypeInv'
  <2>1. caller' \in [Requests -> CallerRecord]
    BY <1>6, <1>caller DEF IdemRecord, Call, CallerRecord, CallerPc
  <2>2. idem' \in [Keys -> IdemEntry]
    BY <1>6, <1>idem, <1>wp, <1>caller DEF IdemRecord, WellPlaced, CallerRecord, CallerPc, IdemEntry
  <2>3. WellPlaced'
    BY <1>6, <1>wp, <1>caller DEF IdemRecord, WellPlaced, startVars, Call, CallerRecord, CallerPc
  <2> QED BY <1>6, <2>1, <2>2, <2>3 DEF IdemRecord, TypeInv, TypeOK, runVars, stepVars, signalVars, ctxVars, startVars
<1>7. ASSUME NEW c \in Requests, Spawn(c) PROVE TypeInv'
  <2>1. caller' \in [Requests -> CallerRecord]
    BY <1>7, <1>caller DEF Spawn, Answer, CallerRecord, CallerPc
  <2>2. events' \in [Requests -> Seq(Events)]
    BY <1>7, <1>events DEF Spawn, Emit, Events
  <2>3. runner' \in [Requests -> RunnerRecord]
    BY <1>7, <1>runner DEF Spawn, Goto, RunnerRecord, RunnerPc
  <2>4. WellPlaced'
    BY <1>7, <1>wp, <1>caller, <1>runner DEF Spawn, WellPlaced, startVars, Answer, Goto, StepPcs, CallerRecord, CallerPc, RunnerRecord, RunnerPc
  <2> QED BY <1>7, <2>1, <2>2, <2>3, <2>4 DEF Spawn, TypeInv, TypeOK, runVars, stepVars, signalVars, ctxVars, startVars
<1>8. ASSUME NEW k \in Keys, IdemExpire(k) PROVE TypeInv'
  <2>1. idem' \in [Keys -> IdemEntry]
    BY <1>8, <1>idem DEF IdemExpire, IdemEntry
  <2>2. WellPlaced'
    BY <1>8, <1>wp DEF IdemExpire, WellPlaced, startVars
  <2> QED BY <1>8, <2>1, <2>2 DEF IdemExpire, TypeInv, TypeOK, runVars, stepVars, signalVars, ctxVars, startVars
<1> QED BY <1>1, <1>2, <1>3, <1>4, <1>5, <1>6, <1>7, <1>8 DEF CallerStep

\* A step of the goroutine that emits an event keeps the types.
LEMMA TypingEmit ==
  ASSUME TypeInv, NEW r \in Requests, NEW from, NEW e \in Events, NEW to \in RunnerPc,
         to \in StepPcs => from \in StepPcs,
         EmitAndGo(r, from, e, to)
  PROVE  TypeInv'
<1>events. events \in [Requests -> Seq(Events)]
  BY DEF TypeInv, TypeOK
<1>runner. runner \in [Requests -> RunnerRecord]
  BY DEF TypeInv, TypeOK
<1>wp. WellPlaced
  BY DEF TypeInv
<1>1. events' \in [Requests -> Seq(Events)]
  BY <1>events DEF EmitAndGo, Emit, Events
<1>2. runner' \in [Requests -> RunnerRecord]
  BY <1>runner DEF EmitAndGo, Goto, RunnerRecord, RunnerPc
<1>3. WellPlaced'
  BY <1>wp, <1>runner DEF EmitAndGo, WellPlaced, startVars, Goto, At, RunnerRecord
<1> QED BY <1>1, <1>2, <1>3 DEF EmitAndGo, TypeInv, TypeOK, runVars, stepVars, signalVars, ctxVars, startVars

\* failRun keeps the types.
LEMMA TypingFailRun ==
  ASSUME TypeInv, NEW r \in Requests, NEW next \in Int, FailRun(r, next)
  PROVE  TypeInv'
<1>status. status \in [Requests -> RunStatus]
  BY DEF TypeInv, TypeOK
<1>step. step \in [Requests -> [Steps -> StepStatus]]
  BY DEF TypeInv, TypeOK
<1>used. used \in [Requests -> Nat]
  BY DEF TypeInv, TypeOK
<1>total. total \in [Requests -> Nat]
  BY DEF TypeInv, TypeOK
<1>runner. runner \in [Requests -> RunnerRecord]
  BY DEF TypeInv, TypeOK
<1>wp. WellPlaced
  BY DEF TypeInv
<1>1. status' \in [Requests -> RunStatus]
  BY <1>status DEF FailRun, RunStatus
<1>2. step' \in [Requests -> [Steps -> StepStatus]]
  BY <1>step DEF FailRun, SkipFrom, Steps, StepStatus
<1>3. total' \in [Requests -> Nat]
  BY <1>total, <1>used DEF FailRun, UsageOfSteps
<1>4. runner' \in [Requests -> RunnerRecord]
  BY <1>runner DEF FailRun, Goto, RunnerRecord, RunnerPc
<1>5. WellPlaced'
  BY <1>wp, <1>runner DEF FailRun, WellPlaced, startVars, Goto, StepPcs, RunnerRecord, RunnerPc
<1> QED BY <1>1, <1>2, <1>3, <1>4, <1>5 DEF FailRun, TypeInv, TypeOK, runVars, stepVars, signalVars, ctxVars, startVars

\* The edits of the goroutine's locals keep their types.
LEMMA RunnerEdits ==
  ASSUME runner \in [Requests -> RunnerRecord], NEW r \in Requests, NEW pc \in RunnerPc
  PROVE  /\ \A t \in 1..NTargets, a \in 1..MaxAttempts :
              /\ [runner EXCEPT ![r].pc = pc, ![r].target = t, ![r].attempt = a] \in [Requests -> RunnerRecord]
              /\ [runner EXCEPT ![r].pc = pc, ![r].attempt = a, ![r].target = t] \in [Requests -> RunnerRecord]
              /\ [runner EXCEPT ![r].pc = pc, ![r].attempt = a] \in [Requests -> RunnerRecord]
         /\ \A i \in 1..(NSteps + 1) : [runner EXCEPT ![r].pc = pc, ![r].idx = i] \in [Requests -> RunnerRecord]
         /\ \A n \in Nat : /\ [runner EXCEPT ![r].pc = pc, ![r].spent = n] \in [Requests -> RunnerRecord]
                           /\ [runner EXCEPT ![r].pc = pc, ![r].stepUse = n] \in [Requests -> RunnerRecord]
         /\ \A v \in {"CANCELLED", "TIMED_OUT"} :
              [runner EXCEPT ![r].pc = pc, ![r].verdict = v] \in [Requests -> RunnerRecord]
<1>1. ASSUME NEW t \in 1..NTargets, NEW a \in 1..MaxAttempts
      PROVE  /\ [runner EXCEPT ![r].pc = pc, ![r].target = t, ![r].attempt = a] \in [Requests -> RunnerRecord]
             /\ [runner EXCEPT ![r].pc = pc, ![r].attempt = a, ![r].target = t] \in [Requests -> RunnerRecord]
             /\ [runner EXCEPT ![r].pc = pc, ![r].attempt = a] \in [Requests -> RunnerRecord]
  BY DEF RunnerRecord
<1>2. ASSUME NEW i \in 1..(NSteps + 1)
      PROVE  [runner EXCEPT ![r].pc = pc, ![r].idx = i] \in [Requests -> RunnerRecord]
  BY DEF RunnerRecord
<1>3. ASSUME NEW n \in Nat
      PROVE  /\ [runner EXCEPT ![r].pc = pc, ![r].spent = n] \in [Requests -> RunnerRecord]
             /\ [runner EXCEPT ![r].pc = pc, ![r].stepUse = n] \in [Requests -> RunnerRecord]
  BY DEF RunnerRecord
<1>4. ASSUME NEW v \in {"CANCELLED", "TIMED_OUT"}
      PROVE  [runner EXCEPT ![r].pc = pc, ![r].verdict = v] \in [Requests -> RunnerRecord]
  BY DEF RunnerRecord
<1> QED BY <1>1, <1>2, <1>3, <1>4, Zenon

\* So do those that follow an attempt, and they stay at the same step.
LEMMA TypingAttempt ==
  ASSUME runner \in [Requests -> RunnerRecord], NEW r \in Requests,
         NEW outcome \in Outcomes, NEW tokens \in Usage, AfterAttempt(r, outcome, tokens)
  PROVE  /\ runner' \in [Requests -> RunnerRecord]
         /\ \A q \in Requests : q # r => runner'[q] = runner[q]
         /\ runner'[r].idx = runner[r].idx
<1>1. {"succeeded", "attempt", "target", "failed"} \subseteq RunnerPc
  BY DEF RunnerPc
<1>2. runner[r] \in RunnerRecord
  OBVIOUS
<1>3. runner' \in [Requests -> RunnerRecord]
  <2>1. CASE /\ outcome = "ok"
             /\ runner' = [runner EXCEPT ![r].pc = "succeeded", ![r].stepUse = tokens]
    BY <1>1, <2>1, ConstantsAssumption, RunnerEdits
  <2>2. CASE /\ runner[r].attempt # MaxAttempts
             /\ runner' = [runner EXCEPT ![r].pc = "attempt", ![r].attempt = runner[r].attempt + 1]
    <3>1. runner[r].attempt + 1 \in 1..MaxAttempts /\ 1 \in 1..NTargets
      BY <1>2, <2>2, ConstantsAssumption DEF RunnerRecord
    <3> QED BY <1>1, <2>2, <3>1, RunnerEdits, Zenon
  <2>3. CASE /\ runner[r].target < NTargets
             /\ runner' = [runner EXCEPT ![r].pc = "target", ![r].attempt = 1, ![r].target = runner[r].target + 1]
    <3>1. 1 \in 1..MaxAttempts /\ runner[r].target + 1 \in 1..NTargets
      BY <1>2, <2>3, ConstantsAssumption DEF RunnerRecord
    <3> QED BY <1>1, <2>3, <3>1, RunnerEdits, Zenon
  <2>4. CASE Goto(r, "failed")
    BY <1>1, <2>4 DEF Goto, RunnerRecord
  <2> QED BY <2>1, <2>2, <2>3, <2>4, Zenon DEF AfterAttempt, HasNextTarget, ToNextTarget
<1>4. \E w : runner' = [runner EXCEPT ![r] = w] /\ w.idx = runner[r].idx
  BY <1>2 DEF AfterAttempt, ToNextTarget, Goto, RunnerRecord
<1> QED BY <1>3, <1>4

\* The steps of the execute goroutine keep the types.
LEMMA TypingRunner ==
  ASSUME TypeInv, NEW r \in Requests, RunnerStep(r)
  PROVE  TypeInv'
<1>status. status \in [Requests -> RunStatus]
  BY DEF TypeInv, TypeOK
<1>step. step \in [Requests -> [Steps -> StepStatus]]
  BY DEF TypeInv, TypeOK
<1>tries. tries \in [Requests -> [Steps -> Seq(Outcomes)]]
  BY DEF TypeInv, TypeOK
<1>used. used \in [Requests -> Nat]
  BY DEF TypeInv, TypeOK
<1>total. total \in [Requests -> Nat]
  BY DEF TypeInv, TypeOK
<1>events. events \in [Requests -> Seq(Events)]
  BY DEF TypeInv, TypeOK
<1>sem. sem \in Int
  BY DEF TypeInv, TypeOK
<1>done. done \in [Requests -> BOOLEAN]
  BY DEF TypeInv, TypeOK
<1>ctx. ctx \in [Requests -> {"live", "canceled", "deadline"}]
  BY DEF TypeInv, TypeOK
<1>cancelFn. cancelFn \in [Requests -> BOOLEAN]
  BY DEF TypeInv, TypeOK
<1>runner. runner \in [Requests -> RunnerRecord]
  BY DEF TypeInv, TypeOK
<1>wp. WellPlaced
  BY DEF TypeInv
<1>w. runner[r] \in RunnerRecord
  BY <1>runner
<1>1. CASE ExecuteBegin(r)
  <2>1. status' \in [Requests -> RunStatus]
    BY <1>1, <1>status DEF ExecuteBegin, RunStatus
  <2>2. cancelFn' \in [Requests -> BOOLEAN]
    BY <1>1, <1>cancelFn DEF ExecuteBegin
  <2>3. runner' \in [Requests -> RunnerRecord]
    BY <1>1, <1>runner DEF ExecuteBegin, Goto, RunnerRecord, RunnerPc
  <2>4. WellPlaced'
    BY <1>1, <1>wp, <1>runner DEF ExecuteBegin, WellPlaced, startVars, Goto, StepPcs, RunnerRecord, RunnerPc
  <2> QED BY <1>1, <2>1, <2>2, <2>3, <2>4 DEF ExecuteBegin, TypeInv, TypeOK, runVars, stepVars, signalVars, ctxVars, startVars
<1>2. CASE EmitStarted(r)
  <2>1. EmitAndGo(r, "started", "started", "loop")
    BY <1>2 DEF EmitStarted
  <2> QED BY <2>1, TypingEmit DEF Events, TerminalEvents, RunnerPc, StepPcs
<1>3. CASE BudgetExceeded(r) \/ RenderTooLarge(r)
  <2>1. FailRun(r, Cur(r)) /\ Cur(r) \in Int
    BY <1>3, <1>runner DEF BudgetExceeded, RenderTooLarge, Cur, RunnerRecord
  <2> QED BY <2>1, TypingFailRun
<1>4. CASE BeginStep(r)
  <2>1. step' \in [Requests -> [Steps -> StepStatus]]
    BY <1>4, <1>step DEF BeginStep, SetStep, StepStatus
  <2>2. runner' \in [Requests -> RunnerRecord]
    BY <1>4, <1>runner DEF BeginStep, Goto, RunnerRecord, RunnerPc
  <2>3. WellPlaced'
    BY <1>4, <1>wp, <1>runner DEF BeginStep, WellPlaced, startVars, Goto, Cur, StepPcs, RunnerRecord, RunnerPc
  <2> QED BY <1>4, <2>1, <2>2, <2>3 DEF BeginStep, TypeInv, TypeOK, runVars, stepVars, signalVars, ctxVars, startVars
<1>5. CASE EmitStepStarted(r)
  <2>e. runner' = [runner EXCEPT ![r].pc = "attempt", ![r].target = 1, ![r].attempt = 1]
    BY <1>5, Zenon DEF EmitStepStarted
  <2>p. 1 \in 1..NTargets /\ 1 \in 1..MaxAttempts /\ "attempt" \in RunnerPc
    BY <1>w, ConstantsAssumption DEF RunnerRecord, RunnerPc
  <2>r. runner' \in [Requests -> RunnerRecord]
    BY <2>e, <2>p, <1>runner, RunnerEdits, Zenon
  <2>1. events' \in [Requests -> Seq(Events)]
    BY <1>5, <1>events DEF EmitStepStarted, Emit, Events
  <2>2. WellPlaced'
    BY <1>5, <1>wp, <1>runner DEF EmitStepStarted, WellPlaced, startVars, At, StepPcs, RunnerRecord, RunnerPc
  <2> QED BY <2>r, <1>5, <2>1, <2>2 DEF EmitStepStarted, TypeInv, TypeOK, runVars, stepVars, signalVars, ctxVars, startVars
<1>6. CASE EmitFallback(r)
  <2>1. EmitAndGo(r, "target", "fallback.selected", "attempt")
    BY <1>6 DEF EmitFallback
  <2> QED BY <2>1, TypingEmit DEF Events, TerminalEvents, RunnerPc, StepPcs
<1>7. CASE AbortAttempts(r)
  <2>1. runner' \in [Requests -> RunnerRecord]
    BY <1>7, <1>runner DEF AbortAttempts, Goto, RunnerRecord, RunnerPc
  <2>2. WellPlaced'
    BY <1>7, <1>wp, <1>runner DEF AbortAttempts, WellPlaced, startVars, Goto, StepPcs, RunnerRecord, RunnerPc
  <2> QED BY <1>7, <2>1, <2>2 DEF AbortAttempts, TypeInv, TypeOK, runVars, stepVars, signalVars, ctxVars, startVars
<1>8. CASE FirstAttempt(r)
  <2>1. runner' \in [Requests -> RunnerRecord]
    BY <1>8, <1>runner, ZenonT(60) DEF FirstAttempt, Goto, RunnerRecord, RunnerPc
  <2>2. WellPlaced'
    BY <1>8, <1>wp, <1>runner DEF FirstAttempt, WellPlaced, startVars, Goto, At, StepPcs, RunnerRecord, RunnerPc
  <2> QED BY <1>8, <2>1, <2>2 DEF FirstAttempt, TypeInv, TypeOK, runVars, stepVars, signalVars, ctxVars, startVars
<1>9. CASE Retry(r)
  <2>1. step' \in [Requests -> [Steps -> StepStatus]]
    BY <1>9, <1>step DEF Retry, SetStep, StepStatus
  <2>2. runner' \in [Requests -> RunnerRecord]
    BY <1>9, <1>runner, SMTT(40) DEF Retry, Goto, RunnerRecord, RunnerPc
  <2>3. WellPlaced'
    BY <1>9, <1>wp, <1>runner DEF Retry, WellPlaced, startVars, Goto, At, StepPcs, RunnerRecord, RunnerPc
  <2> QED BY <1>9, <2>1, <2>2, <2>3 DEF Retry, TypeInv, TypeOK, runVars, stepVars, signalVars, ctxVars, startVars
<1>10. CASE EmitRetrying(r)
  <2>1. EmitAndGo(r, "retrying", "step.retrying", "backoff")
    BY <1>10 DEF EmitRetrying
  <2> QED BY <2>1, TypingEmit DEF Events, TerminalEvents, RunnerPc, StepPcs
<1>11. CASE BackoffOver(r)
  <2>1. runner' \in [Requests -> RunnerRecord]
    BY <1>11, <1>runner DEF BackoffOver, Goto, RunnerRecord, RunnerPc
  <2>2. WellPlaced'
    BY <1>11, <1>wp, <1>runner DEF BackoffOver, WellPlaced, startVars, Goto, At, StepPcs, RunnerRecord, RunnerPc
  <2> QED BY <1>11, <2>1, <2>2 DEF BackoffOver, TypeInv, TypeOK, runVars, stepVars, signalVars, ctxVars, startVars
<1>12. ASSUME NEW outcome \in Outcomes, NEW tokens \in Usage, ExecReturns(r, outcome, tokens) PROVE TypeInv'
  <2>0. runner[r].idx \in Steps
    BY <1>12, <1>wp DEF ExecReturns, WellPlaced, At, StepPcs
  <2>1. tries' \in [Requests -> [Steps -> Seq(Outcomes)]]
    BY <1>12, <1>tries, <2>0 DEF ExecReturns, Cur
  <2>2. used' \in [Requests -> Nat]
    BY <1>12, <1>used, ConstantsAssumption DEF ExecReturns
  <2>3. AfterAttempt(r, outcome, tokens)
    BY <1>12 DEF ExecReturns
  <2>4. /\ runner' \in [Requests -> RunnerRecord]
        /\ \A q \in Requests : q # r => runner'[q] = runner[q]
        /\ runner'[r].idx = runner[r].idx
    BY <2>3, <1>runner, TypingAttempt
  <2>7. WellPlaced'
    BY <1>12, <2>0, <2>4, <1>wp DEF WellPlaced, ExecReturns, startVars
  <2> QED BY <1>12, <2>1, <2>2, <2>4, <2>7 DEF ExecReturns, TypeInv, TypeOK, startVars, signalVars, ctxVars
<1>13. CASE CompleteStep(r)
  <2>e. runner' = [runner EXCEPT ![r].pc = "completed", ![r].spent = runner[r].spent + runner[r].stepUse]
    BY <1>13, Zenon DEF CompleteStep
  <2>p. runner[r].spent + runner[r].stepUse \in Nat /\ "completed" \in RunnerPc
    BY <1>w, ConstantsAssumption DEF RunnerRecord, RunnerPc
  <2>r. runner' \in [Requests -> RunnerRecord]
    BY <2>e, <2>p, <1>runner, RunnerEdits, Zenon
  <2>1. step' \in [Requests -> [Steps -> StepStatus]]
    BY <1>13, <1>step DEF CompleteStep, SetStep, StepStatus
  <2>2. WellPlaced'
    BY <1>13, <1>wp, <1>runner DEF CompleteStep, WellPlaced, startVars, At, StepPcs, RunnerRecord, RunnerPc
  <2> QED BY <2>r, <1>13, <2>1, <2>2 DEF CompleteStep, TypeInv, TypeOK, runVars, stepVars, signalVars, ctxVars, startVars
<1>14. CASE EmitStepCompleted(r)
  <2>1. events' \in [Requests -> Seq(Events)]
    BY <1>14, <1>events DEF EmitStepCompleted, Emit, Events
  <2>2. runner[r].idx \in 1..NSteps
    BY <1>14, <1>wp DEF EmitStepCompleted, At, WellPlaced, StepPcs, Steps
  <2>e. runner' = [runner EXCEPT ![r].pc = "loop", ![r].idx = runner[r].idx + 1]
    BY <1>14, Zenon DEF EmitStepCompleted
  <2>p. runner[r].idx + 1 \in 1..(NSteps + 1) /\ "loop" \in RunnerPc
    BY <1>w, ConstantsAssumption, <2>2 DEF RunnerRecord, RunnerPc
  <2>r. runner' \in [Requests -> RunnerRecord]
    BY <2>e, <2>p, <1>runner, RunnerEdits, Zenon
  <2>4. WellPlaced'
    BY <1>14, <1>wp, <1>runner DEF EmitStepCompleted, WellPlaced, StepPcs, RunnerRecord, RunnerPc, startVars
  <2> QED BY <1>14, <2>1, <2>r, <2>4 DEF EmitStepCompleted, TypeInv, TypeOK, startVars, runVars, stepVars, ctxVars
<1>15. CASE FailStep(r)
  <2>1. step' \in [Requests -> [Steps -> StepStatus]]
    BY <1>15, <1>step DEF FailStep, SetStep, StepStatus
  <2>2. runner' \in [Requests -> RunnerRecord]
    BY <1>15, <1>runner DEF FailStep, Goto, RunnerRecord, RunnerPc
  <2>3. WellPlaced'
    BY <1>15, <1>wp, <1>runner DEF FailStep, WellPlaced, startVars, Goto, At, StepPcs, RunnerRecord, RunnerPc
  <2> QED BY <1>15, <2>1, <2>2, <2>3 DEF FailStep, TypeInv, TypeOK, runVars, stepVars, signalVars, ctxVars, startVars
<1>16. CASE EmitStepFailed(r)
  <2>1. EmitAndGo(r, "stepfailed", "step.failed", "failing")
    BY <1>16 DEF EmitStepFailed
  <2> QED BY <2>1, TypingEmit DEF Events, TerminalEvents, RunnerPc, StepPcs
<1>17. CASE StopAfterFailure(r)
  <2>1. FailRun(r, Cur(r) + 1) /\ Cur(r) + 1 \in Int
    BY <1>17, <1>runner DEF StopAfterFailure, Cur, RunnerRecord
  <2> QED BY <2>1, TypingFailRun
<1>18. CASE Interrupt(r)
  <2>e. runner' = [runner EXCEPT ![r].pc = "interrupted",
       ![r].verdict = IF status[r] = "CANCELLING" \/ ctx[r] = "canceled"
                      THEN "CANCELLED" ELSE "TIMED_OUT"]
    BY <1>18, Zenon DEF Interrupt, Verdict
  <2>p. TRUE /\ "interrupted" \in RunnerPc
    BY <1>w, ConstantsAssumption DEF RunnerRecord, RunnerPc
  <2>r. runner' \in [Requests -> RunnerRecord]
    BY <2>e, <2>p, <1>runner, RunnerEdits, Zenon
  <2>1. WellPlaced'
    BY <1>18, <1>wp, <1>runner DEF Interrupt, AtInterruptPoint, WellPlaced, startVars, At, StepPcs, RunnerRecord, RunnerPc
  <2> QED BY <2>r, <1>18, <2>1 DEF Interrupt, TypeInv, TypeOK, runVars, stepVars, signalVars, ctxVars, startVars
<1>19. CASE FinishInterrupted(r)
  <2>1. status' \in [Requests -> RunStatus]
    BY <1>19, <1>status, <1>runner DEF FinishInterrupted, RunnerRecord, RunStatus
  <2>2. step' \in [Requests -> [Steps -> StepStatus]]
    BY <1>19, <1>step DEF FinishInterrupted, Steps, StepStatus
  <2>3. runner' \in [Requests -> RunnerRecord]
    BY <1>19, <1>runner DEF FinishInterrupted, Goto, RunnerRecord, RunnerPc
  <2>4. WellPlaced'
    BY <1>19, <1>wp, <1>runner DEF FinishInterrupted, WellPlaced, startVars, Goto, StepPcs, RunnerRecord, RunnerPc
  <2> QED BY <1>19, <2>1, <2>2, <2>3, <2>4 DEF FinishInterrupted, TypeInv, TypeOK, runVars, stepVars, signalVars, ctxVars, startVars
<1>20. CASE CompleteRun(r)
  <2>1. status' \in [Requests -> RunStatus]
    BY <1>20, <1>status DEF CompleteRun, RunStatus
  <2>2. total' \in [Requests -> Nat]
    BY <1>20, <1>total, <1>runner DEF CompleteRun, RunnerRecord
  <2>3. runner' \in [Requests -> RunnerRecord]
    BY <1>20, <1>runner DEF CompleteRun, Goto, RunnerRecord, RunnerPc
  <2>4. WellPlaced'
    BY <1>20, <1>wp, <1>runner DEF CompleteRun, WellPlaced, startVars, Goto, StepPcs, RunnerRecord, RunnerPc
  <2> QED BY <1>20, <2>1, <2>2, <2>3, <2>4 DEF CompleteRun, TypeInv, TypeOK, runVars, stepVars, signalVars, ctxVars, startVars
<1>21. CASE EmitTerminal(r)
  <2>1. TerminalEvent(status[r]) \in Events
    BY DEF TerminalEvent, Events, TerminalEvents
  <2>2. EmitAndGo(r, "settled", TerminalEvent(status[r]), "announced")
    BY <1>21 DEF EmitTerminal
  <2> QED BY <2>1, <2>2, TypingEmit DEF RunnerPc, StepPcs
<1>22. CASE CloseDone(r)
  <2>1. done' \in [Requests -> BOOLEAN]
    BY <1>22, <1>done DEF CloseDone
  <2>2. runner' \in [Requests -> RunnerRecord]
    BY <1>22, <1>runner DEF CloseDone, Goto, RunnerRecord, RunnerPc
  <2>3. WellPlaced'
    BY <1>22, <1>wp, <1>runner DEF CloseDone, WellPlaced, startVars, Goto, StepPcs, RunnerRecord, RunnerPc
  <2> QED BY <1>22, <2>1, <2>2, <2>3 DEF CloseDone, TypeInv, TypeOK, runVars, stepVars, signalVars, ctxVars, startVars
<1>23. CASE ReleaseSlot(r)
  <2>1. sem' \in Int
    BY <1>23, <1>sem DEF ReleaseSlot
  <2>2. runner' \in [Requests -> RunnerRecord]
    BY <1>23, <1>runner DEF ReleaseSlot, Goto, RunnerRecord, RunnerPc
  <2>3. WellPlaced'
    BY <1>23, <1>wp, <1>runner DEF ReleaseSlot, WellPlaced, startVars, Goto, StepPcs, RunnerRecord, RunnerPc
  <2> QED BY <1>23, <2>1, <2>2, <2>3 DEF ReleaseSlot, TypeInv, TypeOK, runVars, stepVars, signalVars, ctxVars, startVars
<1> QED BY RunnerStep(r), <1>1, <1>2, <1>3, <1>4, <1>5, <1>6, <1>7, <1>8, <1>9, <1>10, <1>11, <1>12, <1>13, <1>14, <1>15, <1>16, <1>17, <1>18, <1>19, <1>20, <1>21, <1>22, <1>23 DEF RunnerStep

\* Deadlines and CancelRun calls keep the types.
LEMMA TypingSignals ==
  ASSUME TypeInv,
         \/ \E r \in Requests : Deadline(r)
         \/ \E x \in Cancels, r \in Requests : CancelRun(x, r)
         \/ \E x \in Cancels : CancelStep(x)
  PROVE  TypeInv'
<1>status. status \in [Requests -> RunStatus]
  BY DEF TypeInv, TypeOK
<1>events. events \in [Requests -> Seq(Events)]
  BY DEF TypeInv, TypeOK
<1>ctx. ctx \in [Requests -> {"live", "canceled", "deadline"}]
  BY DEF TypeInv, TypeOK
<1>canceller. canceller \in [Cancels -> CancelRecord]
  BY DEF TypeInv, TypeOK
<1>cancelFn. cancelFn \in [Requests -> BOOLEAN]
  BY DEF TypeInv, TypeOK
<1>wp. WellPlaced
  BY DEF TypeInv
<1>1. ASSUME NEW r \in Requests, Deadline(r) PROVE TypeInv'
  <2>1. ctx' \in [Requests -> {"live", "canceled", "deadline"}]
    BY <1>1, <1>ctx DEF Deadline
  <2>2. WellPlaced'
    BY <1>1, <1>wp DEF Deadline, WellPlaced, startVars
  <2> QED BY <1>1, <2>1, <2>2 DEF Deadline, TypeInv, TypeOK, runVars, stepVars, signalVars, ctxVars, startVars
<1>2. ASSUME NEW x \in Cancels, NEW r \in Requests, CancelRun(x, r) PROVE TypeInv'
  <2>1. CASE Terminal(status[r])
    <3>1. canceller' = [canceller EXCEPT ![x].pc = "returned"] /\ UNCHANGED status
      BY <1>2, <2>1 DEF CancelRun, CancelIsLate
    <3>2. canceller' \in [Cancels -> CancelRecord]
      BY <3>1, <1>canceller DEF CancelRecord, CancelPc
    <3>3. WellPlaced'
      BY <1>2, <3>1, <1>wp, <1>canceller DEF CancelRun, WellPlaced, CancelRecord, CancelPc, startVars
    <3> QED BY <1>2, <3>1, <3>2, <3>3 DEF CancelRun, TypeInv, TypeOK, startVars, stepVars, signalVars, ctxVars
  <2>2. CASE ~Terminal(status[r])
    <3>1. /\ canceller' = [canceller EXCEPT ![x] = [pc |-> "fire", run |-> r, fn |-> cancelFn[r]]]
          /\ status' = [status EXCEPT ![r] = "CANCELLING"]
      BY <1>2, <2>2 DEF CancelRun, CancelIsLate
    <3>2. canceller' \in [Cancels -> CancelRecord]
      BY <3>1, <1>canceller, <1>cancelFn DEF CancelRecord, CancelPc
    <3>3. status' \in [Requests -> RunStatus]
      BY <3>1, <1>status DEF RunStatus
    <3>4. WellPlaced'
      BY <1>2, <3>1, <1>wp, <1>canceller DEF CancelRun, WellPlaced, CancelRecord, CancelPc, startVars
    <3> QED BY <1>2, <3>2, <3>3, <3>4 DEF CancelRun, TypeInv, TypeOK, startVars, stepVars, signalVars, ctxVars
  <2> QED BY <2>1, <2>2
<1>3. ASSUME NEW x \in Cancels, CancelFire(x) PROVE TypeInv'
  <2>1. ctx' \in [Requests -> {"live", "canceled", "deadline"}]
    BY <1>3, <1>ctx DEF CancelFire
  <2>2. canceller' \in [Cancels -> CancelRecord]
    BY <1>3, <1>canceller DEF CancelFire, CancelRecord, CancelPc
  <2>3. WellPlaced'
    BY <1>3, <1>wp, <1>canceller DEF CancelFire, WellPlaced, startVars, CancelRecord, CancelPc
  <2> QED BY <1>3, <2>1, <2>2, <2>3 DEF CancelFire, TypeInv, TypeOK, runVars, stepVars, signalVars, ctxVars, startVars
<1>4. ASSUME NEW x \in Cancels, CancelEmit(x) PROVE TypeInv'
  <2>1. events' \in [Requests -> Seq(Events)]
    BY <1>4, <1>events, <1>wp DEF CancelEmit, Emit, WellPlaced, Events
  <2>2. canceller' \in [Cancels -> CancelRecord]
    BY <1>4, <1>canceller DEF CancelEmit, CancelRecord, CancelPc
  <2>3. WellPlaced'
    BY <1>4, <1>wp, <1>canceller DEF CancelEmit, WellPlaced, startVars, CancelRecord, CancelPc
  <2> QED BY <1>4, <2>1, <2>2, <2>3 DEF CancelEmit, TypeInv, TypeOK, runVars, stepVars, signalVars, ctxVars, startVars
<1> QED BY <1>1, <1>2, <1>3, <1>4 DEF CancelStep

\* Every step keeps the types.
LEMMA TypingStep == TypeInv /\ [Next]_vars => TypeInv'
<1> SUFFICES ASSUME TypeInv, [Next]_vars PROVE TypeInv'
  OBVIOUS
<1>1. CASE UNCHANGED vars
  BY <1>1 DEF TypeInv, TypeOK, WellPlaced, vars, startVars, runVars, stepVars, signalVars, ctxVars
<1>2. CASE Next
  BY <1>2, TypingCaller, TypingRunner, TypingSignals DEF Next
<1> QED BY <1>1, <1>2

\* Every variable of the Service stays within its declared type: the program
\* counters of the three kinds of goroutine, the statuses, the indices.
THEOREM Typing == Spec => []TypeInv
<1> QED BY TypingInit, TypingStep, PTL DEF Spec

\* What any step of Spec may assume and keep: the declared types.
THEOREM TypeCorrect == Spec => []TypeOK
  BY Typing, PTL DEF TypeInv

-----------------------------------------------------------------------------
(***************************************************************************)
(* The life of a run: what one step of its goroutine can do to the status, *)
(* the steps and the slot.                                                 *)
(***************************************************************************)

Finished == {"settled", "announced", "closed", "ended"}

\* A goroutine exists only for an answered call, and a run has a final status
\* only when its goroutine is done with it.
Lifecycle ==
  /\ \A c \in Requests : caller[c].pc # "answered" => runner[c].pc = "none"
  /\ \A r \in Requests : Terminal(status[r]) => runner[r].pc \in Finished

\* A step of the goroutine of r touches nothing of the other runs and, once it
\* has settled the run, nothing of that run but its announcement.
RunnerFrame(r) ==
  /\ runner[r].pc \notin {"none", "ended"}
  /\ runner'[r].pc # "none"
  /\ \A q \in Requests \ {r} : UNCHANGED <<runner[q], status[q], step[q], tries[q], total[q]>>
  /\ UNCHANGED <<caller, idem>>
  /\ \/ runner'[r].pc # "ended" /\ sem' = sem
     \/ runner'[r].pc = "ended" /\ sem' = sem - 1
  /\ runner[r].pc \in Finished =>
       runner'[r].pc \in Finished /\ UNCHANGED <<status[r], step[r], tries[r], total[r]>>
  /\ runner[r].pc \notin Finished =>
       \/ status'[r] = status[r] \/ status'[r] = "RUNNING"
       \/ runner'[r].pc = "settled"

\* What every action of the goroutine has in common.
LEMMA RunnerStepFrame ==
  ASSUME TypeInv, NEW r \in Requests, RunnerStep(r)
  PROVE  RunnerFrame(r)
<1>0. /\ runner \in [Requests -> RunnerRecord]
      /\ status \in [Requests -> RunStatus]
  BY DEF TypeInv, TypeOK
<1>1. /\ step \in [Requests -> [Steps -> StepStatus]]
      /\ tries \in [Requests -> [Steps -> Seq(Outcomes)]]
      /\ total \in [Requests -> Nat]
  BY DEF TypeInv, TypeOK
<1> USE DEF RunnerFrame, Finished, Goto, At, startVars, runVars, stepVars, signalVars, RunnerRecord
<1>2. CASE ExecuteBegin(r)
  BY <1>2, <1>0, <1>1 DEF ExecuteBegin
<1>3. CASE EmitStarted(r)
  BY <1>3, <1>0, <1>1 DEF EmitAndGo, EmitStarted
<1>4. CASE BudgetExceeded(r)
  BY <1>4, <1>0, <1>1 DEF FailRun, BudgetExceeded
<1>5. CASE RenderTooLarge(r)
  BY <1>5, <1>0, <1>1 DEF FailRun, RenderTooLarge
<1>6. CASE BeginStep(r)
  BY <1>6, <1>0, <1>1 DEF SetStep, BeginStep
<1>7. CASE EmitStepStarted(r)
  BY <1>7, <1>0, <1>1 DEF EmitStepStarted
<1>8. CASE EmitFallback(r)
  BY <1>8, <1>0, <1>1 DEF EmitAndGo, EmitFallback
<1>9. CASE AbortAttempts(r)
  BY <1>9, <1>0, <1>1 DEF AbortAttempts
<1>10. CASE FirstAttempt(r)
  BY <1>10, <1>0, <1>1 DEF FirstAttempt
<1>11. CASE Retry(r)
  BY <1>11, <1>0, <1>1 DEF SetStep, Retry
<1>12. CASE EmitRetrying(r)
  BY <1>12, <1>0, <1>1 DEF EmitAndGo, EmitRetrying
<1>13. CASE BackoffOver(r)
  BY <1>13, <1>0, <1>1 DEF BackoffOver
<1>14. CASE CompleteStep(r)
  BY <1>14, <1>0, <1>1 DEF SetStep, CompleteStep
<1>15. CASE EmitStepCompleted(r)
  BY <1>15, <1>0, <1>1 DEF EmitStepCompleted
<1>16. CASE FailStep(r)
  BY <1>16, <1>0, <1>1 DEF SetStep, FailStep
<1>17. CASE EmitStepFailed(r)
  BY <1>17, <1>0, <1>1 DEF EmitAndGo, EmitStepFailed
<1>18. CASE StopAfterFailure(r)
  BY <1>18, <1>0, <1>1 DEF FailRun, StopAfterFailure
<1>19. CASE Interrupt(r)
  BY <1>19, <1>0, <1>1 DEF Interrupt, AtInterruptPoint
<1>20. CASE FinishInterrupted(r)
  BY <1>20, <1>0, <1>1 DEF FinishInterrupted
<1>21. CASE CompleteRun(r)
  BY <1>21, <1>0, <1>1 DEF CompleteRun
<1>22. CASE EmitTerminal(r)
  BY <1>22, <1>0, <1>1 DEF EmitAndGo, EmitTerminal
<1>23. CASE CloseDone(r)
  BY <1>23, <1>0, <1>1 DEF CloseDone
<1>24. CASE ReleaseSlot(r)
  BY <1>24, <1>0, <1>1 DEF ReleaseSlot
<1>25. ASSUME NEW outcome \in Outcomes, NEW tokens \in Usage, ExecReturns(r, outcome, tokens)
      PROVE  RunnerFrame(r)
  BY <1>25, <1>0, <1>1 DEF ExecReturns, AfterAttempt, ToNextTarget
<1> QED BY RunnerStep(r), <1>2, <1>3, <1>4, <1>5, <1>6, <1>7, <1>8, <1>9, <1>10, <1>11, <1>12, <1>13, <1>14, <1>15, <1>16, <1>17, <1>18, <1>19, <1>20, <1>21, <1>22, <1>23, <1>24, <1>25 DEF RunnerStep

\* The steps outside the goroutines of the runs leave the settled ones alone.
LEMMA LifecycleStep ==
  ASSUME TypeInv, Lifecycle, [Next]_vars
  PROVE  Lifecycle'
<1>0. /\ runner \in [Requests -> RunnerRecord]
      /\ status \in [Requests -> RunStatus]
  BY DEF TypeInv, TypeOK
<1>1. caller \in [Requests -> CallerRecord]
  BY DEF TypeInv, TypeOK
<1>2. ASSUME NEW c \in Requests, StartRun(c) \/ IdemCheck(c) \/ AcquireSlot(c) \/ IdemRecord(c)
      PROVE  Lifecycle'
  <2>1. UNCHANGED <<runner, status>>
    BY <1>2 DEF StartRun, IdemCheck, AcquireSlot, IdemRecord, runVars
  <2>2. \A d \in Requests : caller'[d].pc # "answered" => caller[d].pc # "answered"
    BY <1>2, <1>1 DEF StartRun, IdemCheck, AcquireSlot, IdemRecord, Call, Answer, CallerRecord
  <2> QED BY <2>1, <2>2 DEF Lifecycle
<1>3. ASSUME NEW c \in Requests, Create(c) \/ CreateFails(c) PROVE Lifecycle'
  <2>1. UNCHANGED runner /\ status' = [status EXCEPT ![c] = "QUEUED"]
    BY <1>3 DEF Create, CreateFails
  <2>2. \A d \in Requests : caller'[d].pc # "answered" => caller[d].pc # "answered"
    BY <1>3, <1>1 DEF Create, CreateFails, Call, Answer, CallerRecord
  <2> QED BY <2>1, <2>2, <1>0 DEF Lifecycle, Terminal
<1>4. ASSUME NEW c \in Requests, Spawn(c) PROVE Lifecycle'
  <2>1. /\ runner' = [runner EXCEPT ![c].pc = "begin"]
        /\ UNCHANGED status
        /\ caller[c].pc = "queue"
    BY <1>4 DEF Spawn, Goto, runVars
  <2>2. \A d \in Requests : caller'[d].pc # "answered" => caller[d].pc # "answered" /\ d # c
    BY <1>4, <1>1 DEF Spawn, Answer, CallerRecord
  <2> QED BY <2>1, <2>2, <1>0 DEF Lifecycle, Finished, RunnerRecord
<1>5. ASSUME NEW r \in Requests, RunnerStep(r) PROVE Lifecycle'
  <2>1. RunnerFrame(r)
    BY <1>5, RunnerStepFrame
  <2>2. \A q \in Requests : Terminal(status'[q]) => runner'[q].pc \in Finished
    <3>1. ASSUME NEW q \in Requests, q # r, Terminal(status'[q]) PROVE runner'[q].pc \in Finished
      BY <2>1, <3>1 DEF RunnerFrame, Lifecycle
    <3>2. ASSUME Terminal(status'[r]) PROVE runner'[r].pc \in Finished
      BY <2>1, <3>2 DEF RunnerFrame, Lifecycle, Terminal, Finished
    <3> QED BY <3>1, <3>2
  <2>3. \A c \in Requests : caller'[c].pc # "answered" => runner'[c].pc = "none"
    BY <2>1 DEF RunnerFrame, Lifecycle
  <2> QED BY <2>2, <2>3 DEF Lifecycle, Terminal, Finished
<1>6. ASSUME NEW x \in Cancels, NEW r \in Requests, CancelRun(x, r) PROVE Lifecycle'
  <2>1. UNCHANGED <<caller, runner>>
    BY <1>6 DEF CancelRun, startVars
  <2>2. UNCHANGED status \/ status' = [status EXCEPT ![r] = "CANCELLING"]
    BY <1>6 DEF CancelRun
  <2> QED BY <2>1, <2>2, <1>0 DEF Lifecycle, Terminal
<1>7. CASE \/ \E k \in Keys : IdemExpire(k)
           \/ \E r \in Requests : Deadline(r)
           \/ \E x \in Cancels : CancelStep(x)
           \/ UNCHANGED vars
  <2>1. UNCHANGED <<caller, runner, status>>
    BY <1>7 DEF IdemExpire, Deadline, CancelStep, CancelFire, CancelEmit, vars, startVars, runVars
  <2> QED BY <2>1 DEF Lifecycle, Terminal
<1> QED BY <1>2, <1>3, <1>4, <1>5, <1>6, <1>7 DEF Next, CallerStep

\* The typing and the life cycle together are inductive.
LEMMA LifecycleInvariant == Spec => [](TypeInv /\ Lifecycle)
<1>1. Init => Lifecycle
  BY DEF Init, Lifecycle, Terminal
<1> QED BY <1>1, TypingInit, TypingStep, LifecycleStep, PTL DEF Spec

-----------------------------------------------------------------------------
(***************************************************************************)
(* A settled run is never touched again.                                   *)
(***************************************************************************)

\* service.go 281-309, 354-470, 626-674: no path of the goroutine, no StartRun
\* and no late CancelRun changes the status, the steps, the recorded attempts
\* or the usage of a run that is COMPLETED, FAILED, CANCELLED or TIMED_OUT.
THEOREM SettledForGood == Spec => TerminalIsFinal
<1>1. ASSUME TypeInv, Lifecycle, [Next]_vars, NEW r \in Requests, Terminal(status[r])
      PROVE  UNCHANGED <<status[r], step[r], tries[r], total[r]>>
  <2>0. status \in [Requests -> RunStatus] /\ runner[r].pc \in Finished
    BY <1>1 DEF TypeInv, TypeOK, Lifecycle
  <2>1. ASSUME NEW c \in Requests, StartRun(c) \/ IdemCheck(c) \/ AcquireSlot(c) \/ IdemRecord(c) \/ Spawn(c)
        PROVE  UNCHANGED <<status[r], step[r], tries[r], total[r]>>
    BY <2>1 DEF StartRun, IdemCheck, AcquireSlot, IdemRecord, Spawn, runVars, stepVars
  <2>2. ASSUME NEW c \in Requests, Create(c) \/ CreateFails(c)
        PROVE  UNCHANGED <<status[r], step[r], tries[r], total[r]>>
    <3>1. caller[c].pc = "create"
      BY <2>2 DEF Create, CreateFails
    <3>2. c # r
      BY <1>1, <2>0, <3>1 DEF Lifecycle, Finished
    <3> QED BY <2>0, <2>2, <3>2 DEF Create, CreateFails, stepVars
  <2>3. ASSUME NEW q \in Requests, RunnerStep(q)
        PROVE  UNCHANGED <<status[r], step[r], tries[r], total[r]>>
    BY <1>1, <2>0, <2>3, RunnerStepFrame DEF RunnerFrame
  <2>4. ASSUME NEW x \in Cancels, NEW q \in Requests, CancelRun(x, q)
        PROVE  UNCHANGED <<status[r], step[r], tries[r], total[r]>>
    BY <1>1, <2>0, <2>4 DEF CancelRun, CancelIsLate, stepVars
  <2>5. CASE \/ \E k \in Keys : IdemExpire(k)
             \/ \E q \in Requests : Deadline(q)
             \/ \E x \in Cancels : CancelStep(x)
             \/ UNCHANGED vars
    BY <2>5 DEF IdemExpire, Deadline, CancelStep, CancelFire, CancelEmit, vars, runVars, stepVars
  <2> QED BY <1>1, <2>1, <2>2, <2>3, <2>4, <2>5 DEF Next, CallerStep
<1>2. TypeInv /\ Lifecycle /\ [Next]_vars =>
        [\A r \in Requests : Terminal(status[r]) =>
           UNCHANGED <<status[r], step[r], tries[r], total[r]>>]_vars
  BY <1>1
<1> QED BY <1>2, LifecycleInvariant, PTL DEF Spec, TerminalIsFinal

-----------------------------------------------------------------------------
(***************************************************************************)
(* The semaphore.                                                          *)
(***************************************************************************)

\* A call holds its slot from acquire until it is answered, the goroutine from
\* its start until its end; only AcquireSlot adds a holder.
LEMMA HoldersFinite == IsFiniteSet(SlotHolders) /\ IsFiniteSet(SlotHolders')
<1>1. SlotHolders \subseteq Requests /\ SlotHolders' \subseteq Requests
  BY DEF SlotHolders
<1> QED BY <1>1, ConstantsAssumption, FS_Subset

\* Every step adds, removes or keeps the holders as it fills, frees or keeps
\* the semaphore.
LEMMA SlotStep ==
  ASSUME TypeInv, Lifecycle, SlotAccounting, [Next]_vars
  PROVE  SlotAccounting'
<1>0. /\ runner \in [Requests -> RunnerRecord]
      /\ caller \in [Requests -> CallerRecord]
      /\ sem \in Int
  BY DEF TypeInv, TypeOK
<1>f. IsFiniteSet(SlotHolders) /\ Cardinality(SlotHolders) \in Nat
  BY HoldersFinite, FS_CardinalityType
<1>m. MaxConcurrentRuns \in Nat
  BY ConstantsAssumption
<1>1. ASSUME SlotHolders' = SlotHolders, sem' = sem PROVE SlotAccounting'
  BY <1>1 DEF SlotAccounting
<1>2. ASSUME NEW c \in SlotHolders, SlotHolders' = SlotHolders \ {c}, sem' = sem - 1
      PROVE  SlotAccounting'
  <2>1. Cardinality(SlotHolders') = Cardinality(SlotHolders) - 1
    BY <1>2, <1>f, FS_RemoveElement
  <2> QED BY <2>1, <1>2, <1>0, <1>m DEF SlotAccounting
<1>3. ASSUME NEW c \in Requests, AcquireSlot(c) PROVE SlotAccounting'
  <2>1. UNCHANGED runner /\ caller[c].pc = "acquire"
    BY <1>3 DEF AcquireSlot
  <2>2. c \notin SlotHolders
    BY <2>1 DEF SlotHolders, Lifecycle
  <2>3. CASE sem < MaxConcurrentRuns /\ sem' = sem + 1 /\ Call(c, "create")
    <3>1. SlotHolders' = SlotHolders \cup {c}
      BY <2>1, <2>3, <1>0 DEF SlotHolders, Call, CallerRecord
    <3>2. Cardinality(SlotHolders') = Cardinality(SlotHolders) + 1
      BY <3>1, <2>2, <1>f, FS_AddElement
    <3> QED BY <3>2, <2>3, <1>0, <1>m DEF SlotAccounting
  <2>4. CASE Answer(c, "workflow_capacity_exhausted") /\ UNCHANGED sem
    <3>1. SlotHolders' = SlotHolders
      BY <2>1, <2>4, <1>0 DEF SlotHolders, Answer, CallerRecord
    <3> QED BY <3>1, <2>4, <1>1
  <2> QED BY <1>3, <2>3, <2>4 DEF AcquireSlot
<1>4. ASSUME NEW c \in Requests, StartRun(c) \/ IdemCheck(c) PROVE SlotAccounting'
  <2>1. UNCHANGED <<runner, sem>>
    BY <1>4 DEF StartRun, IdemCheck
  <2>2. CASE IdemCheck(c)
    BY <2>1, <2>2, <1>0, <1>1 DEF SlotHolders, IdemCheck, Call, Answer, CallerRecord
  <2>3. CASE StartRun(c)
    <3>1. PICK k \in Keys \cup {NoKey}, p \in Payloads :
            caller' = [caller EXCEPT ![c] = [@ EXCEPT !.pc = IF k = NoKey THEN "acquire" ELSE "check",
                                                      !.key = k, !.payload = p]]
      BY <2>3 DEF StartRun
    <3>2. caller[c].pc = "idle" /\ caller'[c].pc \in {"acquire", "check"}
      BY <2>3, <3>1, <1>0 DEF StartRun, CallerRecord
    <3>3. \A d \in Requests : d # c => caller'[d] = caller[d]
      BY <3>1, <1>0
    <3>4. SlotHolders' = SlotHolders
      BY <2>1, <3>2, <3>3 DEF SlotHolders
    <3> QED BY <2>1, <3>4, <1>1
  <2> QED BY <1>4, <2>2, <2>3
<1>5. ASSUME NEW c \in Requests, Create(c) \/ IdemRecord(c) PROVE SlotAccounting'
  <2>1. UNCHANGED <<runner, sem>>
    BY <1>5 DEF Create, IdemRecord
  <2>2. SlotHolders' = SlotHolders
    BY <1>5, <2>1, <1>0 DEF SlotHolders, Create, IdemRecord, Call, CallerRecord
  <2> QED BY <2>1, <2>2, <1>1
<1>6. ASSUME NEW c \in Requests, CreateFails(c) PROVE SlotAccounting'
  <2>1. UNCHANGED runner /\ sem' = sem - 1 /\ caller[c].pc = "create"
    BY <1>6 DEF CreateFails
  <2>2. c \in SlotHolders
    BY <2>1 DEF SlotHolders
  <2>3. SlotHolders' = SlotHolders \ {c}
    BY <1>6, <2>1, <1>0 DEF SlotHolders, CreateFails, Answer, CallerRecord, Lifecycle
  <2> QED BY <2>1, <2>2, <2>3, <1>2
<1>7. ASSUME NEW c \in Requests, Spawn(c) PROVE SlotAccounting'
  <2>1. SlotHolders' = SlotHolders /\ sem' = sem
    BY <1>7, <1>0 DEF SlotHolders, Spawn, Goto, Answer, CallerRecord, RunnerRecord
  <2> QED BY <2>1, <1>1
<1>8. ASSUME NEW r \in Requests, RunnerStep(r) PROVE SlotAccounting'
  <2>1. RunnerFrame(r)
    BY <1>8, RunnerStepFrame
  <2>2. UNCHANGED caller /\ caller[r].pc = "answered" /\ r \in SlotHolders
    BY <2>1 DEF RunnerFrame, Lifecycle, SlotHolders
  <2>3. CASE runner'[r].pc # "ended" /\ sem' = sem
    <3>1. SlotHolders' = SlotHolders
      BY <2>1, <2>2, <2>3 DEF RunnerFrame, SlotHolders
    <3> QED BY <3>1, <2>3, <1>1
  <2>4. CASE runner'[r].pc = "ended" /\ sem' = sem - 1
    <3>1. SlotHolders' = SlotHolders \ {r}
      BY <2>1, <2>2, <2>4 DEF RunnerFrame, SlotHolders
    <3> QED BY <3>1, <2>2, <2>4, <1>2
  <2> QED BY <2>1, <2>3, <2>4 DEF RunnerFrame
<1>9. CASE \/ \E k \in Keys : IdemExpire(k)
           \/ \E r \in Requests : Deadline(r)
           \/ \E x \in Cancels, r \in Requests : CancelRun(x, r)
           \/ \E x \in Cancels : CancelStep(x)
           \/ UNCHANGED vars
  <2>1. UNCHANGED <<caller, runner, sem>>
    BY <1>9 DEF IdemExpire, Deadline, CancelRun, CancelStep, CancelFire, CancelEmit, vars, startVars
  <2>2. SlotHolders' = SlotHolders
    BY <2>1 DEF SlotHolders
  <2> QED BY <2>1, <2>2, <1>1
<1> QED BY <1>3, <1>4, <1>5, <1>6, <1>7, <1>8, <1>9 DEF Next, CallerStep

\* service.go 252-270, 355: on every path of StartRun and execute the filled
\* slots are exactly the calls and goroutines that hold one, and they are never
\* more than max_concurrent_runs.
THEOREM SlotsAreAccounted == Spec => []SlotAccounting
<1>1. Init => SlotAccounting
  <2>1. ASSUME Init PROVE SlotHolders = {} /\ sem = 0
    BY <2>1 DEF Init, SlotHolders
  <2>2. ASSUME Init PROVE SlotAccounting
    BY <2>1, <2>2, FS_EmptySet, ConstantsAssumption DEF SlotAccounting
  <2> QED BY <2>2
<1> QED BY <1>1, LifecycleInvariant, SlotStep, PTL DEF Spec

-----------------------------------------------------------------------------
(***************************************************************************)
(* The shape of the step list of a run: COMPLETED up to the current step,  *)
(* PENDING after it, and the current step as the program counter says.     *)
(***************************************************************************)

OpenStep == {"PENDING", "RUNNING", "RETRYING"}
Working  == {"starting", "target", "attempt", "retrying", "backoff", "exec", "succeeded", "failed"}

Shape(r) ==
  LET w == runner[r] IN
  /\ \A i \in Steps : i < w.idx => step[r][i] = "COMPLETED"
  /\ \A i \in Steps : i > w.idx => tries[r][i] = <<>>
  /\ w.pc \notin Finished => \A i \in Steps : i > w.idx => step[r][i] = "PENDING"
  /\ w.pc \in {"none", "begin", "started", "loop"} /\ w.idx \in Steps => step[r][w.idx] = "PENDING"
  /\ w.pc \in Working => step[r][w.idx] \in {"RUNNING", "RETRYING"}
  /\ w.pc = "completed" => step[r][w.idx] = "COMPLETED"
  /\ w.pc \in {"stepfailed", "failing"} => step[r][w.idx] \in {"FAILED", "TIMED_OUT"}
  /\ w.pc \in Finished => \A i \in Steps : step[r][i] \notin OpenStep

StepShape == \A r \in Requests : Shape(r)

\* Every action of the goroutine keeps the shape of its run.
LEMMA ShapeRunner ==
  ASSUME TypeInv, NEW r \in Requests, Shape(r), RunnerStep(r)
  PROVE  Shape(r)'
<1>0. /\ runner \in [Requests -> RunnerRecord]
      /\ step \in [Requests -> [Steps -> StepStatus]]
      /\ tries \in [Requests -> [Steps -> Seq(Outcomes)]]
  BY DEF TypeInv, TypeOK
<1>1. /\ runner[r].idx \in Int /\ NSteps \in Nat
      /\ runner[r].pc \in StepPcs => runner[r].idx \in Steps
      /\ runner[r].idx \in 1..(NSteps + 1)
  BY <1>0, ConstantsAssumption DEF TypeInv, WellPlaced, RunnerRecord
<1> USE DEF Shape, Finished, Working, OpenStep, StepPcs, Steps, At, Goto, Cur, RunnerRecord
<1>f. ASSUME NEW next \in {runner[r].idx, runner[r].idx + 1}, FailRun(r, next),
             runner[r].pc \notin Finished,
             \A i \in Steps : i < next => step[r][i] \notin OpenStep,
             next \in Steps /\ next = runner[r].idx => step[r][next] = "PENDING"
      PROVE  Shape(r)'
  <2>1. /\ step' = [step EXCEPT ![r] = [i \in Steps |->
                     IF i >= next /\ step[r][i] = "PENDING" THEN "SKIPPED" ELSE step[r][i]]]
        /\ runner' = [runner EXCEPT ![r].pc = "settled"]
        /\ UNCHANGED tries
    BY <1>f DEF FailRun, SkipFrom
  <2>2. \A i \in Steps : step'[r][i] = IF i >= next /\ step[r][i] = "PENDING" THEN "SKIPPED" ELSE step[r][i]
    BY <2>1, <1>0
  <2>3. runner'[r].pc = "settled" /\ runner'[r].idx = runner[r].idx
    BY <2>1, <1>0
  <2>4. \A i \in Steps : i < runner[r].idx => step'[r][i] = "COMPLETED"
    BY <2>2, <1>1
  <2>5. \A i \in Steps : step'[r][i] \notin OpenStep
    <3> TAKE i \in Steps
    <3>1. CASE i < next
      BY <3>1, <2>2, <1>f
    <3>2. CASE i >= next
      BY <3>2, <2>2, <1>f, <1>1
    <3> QED BY <3>1, <3>2, <1>1
  <2> QED BY <2>1, <2>3, <2>4, <2>5
<1>2. CASE ExecuteBegin(r)
  BY <1>2, <1>0, <1>1 DEF ExecuteBegin, runVars, stepVars
<1>3. CASE EmitStarted(r)
  BY <1>3, <1>0, <1>1 DEF EmitAndGo, EmitStarted, runVars, stepVars
<1>4. CASE BudgetExceeded(r)
  BY <1>4, <1>1, <1>f DEF BudgetExceeded
<1>5. CASE RenderTooLarge(r)
  BY <1>5, <1>1, <1>f DEF RenderTooLarge
<1>6. CASE BeginStep(r)
  BY <1>6, <1>0, <1>1 DEF SetStep, BeginStep
<1>7. CASE EmitStepStarted(r)
  BY <1>7, <1>0, <1>1 DEF EmitStepStarted, runVars, stepVars
<1>8. CASE EmitFallback(r)
  BY <1>8, <1>0, <1>1 DEF EmitAndGo, EmitFallback, runVars, stepVars
<1>9. CASE AbortAttempts(r)
  BY <1>9, <1>0, <1>1 DEF AbortAttempts, runVars, stepVars
<1>10. CASE FirstAttempt(r)
  BY <1>10, <1>0, <1>1 DEF FirstAttempt, runVars, stepVars
<1>11. CASE Retry(r)
  BY <1>11, <1>0, <1>1 DEF SetStep, Retry
<1>12. CASE EmitRetrying(r)
  BY <1>12, <1>0, <1>1 DEF EmitAndGo, EmitRetrying, runVars, stepVars
<1>13. CASE BackoffOver(r)
  BY <1>13, <1>0, <1>1 DEF BackoffOver, runVars, stepVars
<1>14. CASE CompleteStep(r)
  BY <1>14, <1>0, <1>1 DEF SetStep, CompleteStep
<1>15. CASE EmitStepCompleted(r)
  BY <1>15, <1>0, <1>1, SMTT(40) DEF EmitStepCompleted, runVars, stepVars
<1>16. CASE FailStep(r)
  BY <1>16, <1>0, <1>1 DEF SetStep, FailStep
<1>17. CASE EmitStepFailed(r)
  BY <1>17, <1>0, <1>1 DEF EmitAndGo, EmitStepFailed, runVars, stepVars
<1>18. CASE StopAfterFailure(r)
  <2>1. step[r][runner[r].idx] \in {"FAILED", "TIMED_OUT"}
    BY <1>18 DEF StopAfterFailure
  <2>2. runner[r].pc = "failing"
    BY <1>18 DEF StopAfterFailure
  <2> QED BY <1>18, <1>1, <2>1, <2>2, <1>f DEF StopAfterFailure
<1>19. CASE Interrupt(r)
  BY <1>19, <1>0, <1>1 DEF Interrupt, AtInterruptPoint, runVars, stepVars
<1>20. CASE FinishInterrupted(r)
  BY <1>20, <1>0, <1>1 DEF FinishInterrupted
<1>21. CASE CompleteRun(r)
  <2>1. /\ runner[r].idx = NSteps + 1
        /\ runner' = [runner EXCEPT ![r].pc = "settled"]
        /\ UNCHANGED <<step, tries>>
    BY <1>21 DEF CompleteRun, stepVars
  <2>2. \A i \in Steps : step[r][i] = "COMPLETED"
    BY <2>1, <1>1
  <2>3. runner'[r].pc = "settled" /\ runner'[r].idx = NSteps + 1
    BY <2>1, <1>0
  <2> QED BY <2>1, <2>2, <2>3, <1>1
<1>22. CASE EmitTerminal(r)
  BY <1>22, <1>0, <1>1 DEF EmitAndGo, EmitTerminal, runVars, stepVars
<1>23. CASE CloseDone(r)
  BY <1>23, <1>0, <1>1 DEF CloseDone, runVars, stepVars
<1>24. CASE ReleaseSlot(r)
  BY <1>24, <1>0, <1>1 DEF ReleaseSlot, runVars, stepVars
<1>25. ASSUME NEW outcome \in Outcomes, NEW tokens \in Usage, ExecReturns(r, outcome, tokens)
      PROVE  Shape(r)'
  BY <1>25, <1>0, <1>1, SMTT(40) DEF ExecReturns, AfterAttempt, ToNextTarget
<1> QED BY RunnerStep(r), <1>2, <1>3, <1>4, <1>5, <1>6, <1>7, <1>8, <1>9, <1>10, <1>11, <1>12, <1>13, <1>14, <1>15, <1>16, <1>17, <1>18, <1>19, <1>20, <1>21, <1>22, <1>23, <1>24, <1>25 DEF RunnerStep

\* Every other action leaves the step lists alone; Spawn starts a goroutine
\* whose list is still PENDING.
LEMMA ShapeStep ==
  ASSUME TypeInv, Lifecycle, StepShape, [Next]_vars
  PROVE  StepShape'
<1>0. /\ runner \in [Requests -> RunnerRecord]
      /\ step \in [Requests -> [Steps -> StepStatus]]
  BY DEF TypeInv, TypeOK
<1>1. ASSUME NEW r \in Requests, RunnerStep(r) PROVE StepShape'
  <2>1. RunnerFrame(r)
    BY <1>1, RunnerStepFrame
  <2>2. Shape(r)'
    BY <1>1, ShapeRunner DEF StepShape
  <2>3. ASSUME NEW q \in Requests, q # r PROVE Shape(q)'
    BY <2>1, <2>3 DEF RunnerFrame, StepShape, Shape
  <2> QED BY <2>2, <2>3 DEF StepShape
<1>2. ASSUME NEW c \in Requests, Spawn(c) PROVE StepShape'
  <2>1. /\ runner' = [runner EXCEPT ![c].pc = "begin"]
        /\ UNCHANGED <<step, tries>>
        /\ runner[c].pc = "none"
    BY <1>2 DEF Spawn, Goto, runVars, stepVars, Lifecycle
  <2>2. runner'[c].pc = "begin" /\ runner'[c].idx = runner[c].idx
    BY <2>1, <1>0 DEF RunnerRecord
  <2>4. Shape(c)'
    BY <2>1, <2>2 DEF StepShape, Shape, Finished, Working
  <2>3. ASSUME NEW q \in Requests, q # c PROVE Shape(q)'
    BY <2>1, <2>3, <1>0 DEF StepShape, Shape
  <2> QED BY <2>3, <2>4 DEF StepShape
<1>3. ASSUME NEW c \in Requests,
             StartRun(c) \/ IdemCheck(c) \/ AcquireSlot(c) \/ Create(c) \/ CreateFails(c) \/ IdemRecord(c)
      PROVE  StepShape'
  <2>1. UNCHANGED <<runner, step, tries>>
    BY <1>3 DEF StartRun, IdemCheck, AcquireSlot, Create, CreateFails, IdemRecord, runVars, stepVars
  <2> QED BY <2>1 DEF StepShape, Shape
<1>4. CASE \/ \E k \in Keys : IdemExpire(k)
           \/ \E r \in Requests : Deadline(r)
           \/ \E x \in Cancels, r \in Requests : CancelRun(x, r)
           \/ \E x \in Cancels : CancelStep(x)
           \/ UNCHANGED vars
  <2>1. UNCHANGED <<runner, step, tries>>
    BY <1>4 DEF IdemExpire, Deadline, CancelRun, CancelStep, CancelFire, CancelEmit, vars, runVars, stepVars
  <2> QED BY <2>1 DEF StepShape, Shape
<1> QED BY <1>1, <1>2, <1>3, <1>4 DEF Next, CallerStep

\* The typing, the life cycle and the shape are inductive.
LEMMA ShapeInvariant == Spec => [](TypeInv /\ Lifecycle /\ StepShape)
<1>1. Init => StepShape
  BY ConstantsAssumption DEF Init, StepShape, Shape, Finished, Working, Steps
<1> QED BY <1>1, LifecycleInvariant, ShapeStep, PTL DEF Spec

\* service.go 626-674: whichever path settled a run, no step of it is left
\* PENDING, RUNNING or RETRYING.
THEOREM SettledIsClosed == Spec => []SettledRunIsClosed
<1>1. Lifecycle /\ StepShape => SettledRunIsClosed
  BY DEF Lifecycle, StepShape, Shape, OpenStep, SettledRunIsClosed
<1> QED BY <1>1, ShapeInvariant, PTL

\* service.go 386-449: a step reaches a runtime only when all the steps before
\* it COMPLETED.
THEOREM InOrder == Spec => []StepsInOrder
<1>1. TypeInv /\ StepShape => StepsInOrder
  <2> SUFFICES ASSUME TypeInv, StepShape, NEW r \in Requests, NEW i \in Steps, NEW j \in Steps,
                      i < j, tries[r][j] # <<>>
               PROVE  step[r][i] = "COMPLETED"
    BY DEF StepsInOrder
  <2>1. runner \in [Requests -> RunnerRecord] /\ NSteps \in Nat
    BY ConstantsAssumption DEF TypeInv, TypeOK
  <2>2. runner[r].idx \in Int /\ i \in Int /\ j \in Int
    BY <2>1 DEF RunnerRecord, Steps
  <2>3. ~(j > runner[r].idx)
    BY DEF StepShape, Shape
  <2> QED BY <2>2, <2>3 DEF StepShape, Shape
<1> QED BY <1>1, ShapeInvariant, PTL

-----------------------------------------------------------------------------
(***************************************************************************)
(* The attempts recorded for a step: those with the code for an            *)
(* unavailable model, then at most one of another outcome.                 *)
(***************************************************************************)

\* What the recorded attempts of a run say, by where its goroutine is.
Trying   == {"target", "attempt", "retrying", "backoff", "exec"}
Untried  == {"none", "begin", "started", "loop", "starting"}
Achieved == {"succeeded", "completed"}

Attempts(r) ==
  LET w == runner[r] IN
  /\ \A i \in Steps : \A n \in 1..Len(tries[r][i]) :
       n < Len(tries[r][i]) => tries[r][i][n] = "unavailable"
  /\ \A i \in Steps : i < w.idx =>
       \A n \in 1..Len(tries[r][i]) : tries[r][i][n] \in {"unavailable", "ok"}
  /\ w.pc \in Untried /\ w.idx \in Steps => tries[r][w.idx] = <<>>
  /\ w.pc \in Trying => \A n \in 1..Len(tries[r][w.idx]) : tries[r][w.idx][n] = "unavailable"
  /\ w.pc \in Achieved => \A n \in 1..Len(tries[r][w.idx]) : tries[r][w.idx][n] \in {"unavailable", "ok"}

AttemptsRecorded == \A r \in Requests : Attempts(r)

\* A step of the goroutine that records no attempt and starts no other step
\* stays in its phase of the step or leaves it.
AttemptsFrame(r) ==
  /\ tries'[r] = tries[r]
  /\ runner'[r].idx = runner[r].idx
  /\ runner'[r].pc \in Untried => runner[r].pc \in Untried
  /\ runner'[r].pc \in Trying => runner[r].pc \in Trying \/ At(r, "starting")
  /\ runner'[r].pc \in Achieved => runner[r].pc \in Achieved

\* Only ExecReturns records an attempt, only EmitStepCompleted starts another step.
LEMMA AttemptsUntouched ==
  ASSUME TypeInv, NEW r \in Requests, RunnerStep(r)
  PROVE  \/ AttemptsFrame(r)
         \/ EmitStepCompleted(r)
         \/ \E outcome \in Outcomes, tokens \in Usage : ExecReturns(r, outcome, tokens)
<1>0. runner \in [Requests -> RunnerRecord]
  BY DEF TypeInv, TypeOK
<1> USE <1>0 DEF AttemptsFrame, Untried, Trying, Achieved, At, Goto, runVars, stepVars, RunnerRecord
<1>1. CASE ExecuteBegin(r) \/ EmitStarted(r) \/ BeginStep(r)
  BY <1>1 DEF ExecuteBegin, EmitStarted, EmitAndGo, BeginStep
<1>2. CASE BudgetExceeded(r) \/ RenderTooLarge(r) \/ StopAfterFailure(r)
  BY <1>2 DEF BudgetExceeded, RenderTooLarge, StopAfterFailure, FailRun
<1>3. CASE EmitStepStarted(r)
  BY <1>3 DEF EmitStepStarted
<1>4. CASE EmitFallback(r) \/ EmitRetrying(r) \/ EmitStepFailed(r) \/ EmitTerminal(r)
  BY <1>4 DEF EmitFallback, EmitRetrying, EmitStepFailed, EmitTerminal, EmitAndGo
<1>5. CASE AbortAttempts(r) \/ FirstAttempt(r) \/ Retry(r) \/ BackoffOver(r)
  BY <1>5 DEF AbortAttempts, FirstAttempt, Retry, BackoffOver
<1>6. CASE CompleteStep(r) \/ FailStep(r)
  BY <1>6 DEF CompleteStep, FailStep
<1>7. CASE Interrupt(r)
  BY <1>7 DEF Interrupt
<1>8. CASE FinishInterrupted(r) \/ CompleteRun(r) \/ CloseDone(r) \/ ReleaseSlot(r)
  BY <1>8 DEF FinishInterrupted, CompleteRun, CloseDone, ReleaseSlot
<1> QED BY <1>1, <1>2, <1>3, <1>4, <1>5, <1>6, <1>7, <1>8, RunnerStep(r) DEF RunnerStep

\* What Append does to the length and the elements of a sequence.
LEMMA AppendFacts ==
  ASSUME NEW S, NEW h \in Seq(S), NEW e \in S
  PROVE  /\ Len(Append(h, e)) = Len(h) + 1
         /\ \A n \in 1..Len(h) : Append(h, e)[n] = h[n]
         /\ Append(h, e)[Len(h) + 1] = e
<1>1. Len(h) \in Nat
  OBVIOUS
<1>2. ASSUME NEW n \in 1..Len(h) PROVE Append(h, e)[n] = h[n]
  BY <1>1
<1> QED BY <1>2

\* Every action of the goroutine keeps what its attempts say.
LEMMA AttemptsRunner ==
  ASSUME TypeInv, NEW r \in Requests, Shape(r), Attempts(r), RunnerStep(r)
  PROVE  Attempts(r)'
<1>0. /\ runner \in [Requests -> RunnerRecord]
      /\ tries \in [Requests -> [Steps -> Seq(Outcomes)]]
  BY DEF TypeInv, TypeOK
<1>p. runner[r].idx \in Int /\ (runner[r].pc \in StepPcs => runner[r].idx \in Steps)
  BY <1>0 DEF TypeInv, WellPlaced, RunnerRecord
<1>1. CASE AttemptsFrame(r)
  BY <1>1, <1>p DEF AttemptsFrame, Attempts, Untried, Trying, At, StepPcs
<1>2. CASE EmitStepCompleted(r)
  <2>1. tries' = tries /\ runner[r].pc = "completed"
    BY <1>2 DEF EmitStepCompleted, runVars, stepVars, At
  <2>2. runner'[r].idx = runner[r].idx + 1 /\ runner'[r].pc = "loop"
    BY <1>2, <1>0 DEF EmitStepCompleted, RunnerRecord
  <2>3. \A i \in Steps : i < runner[r].idx + 1 =>
          \A n \in 1..Len(tries[r][i]) : tries[r][i][n] \in {"unavailable", "ok"}
    BY <2>1, <1>p DEF Attempts, Achieved, Steps
  <2>4. runner[r].idx + 1 \in Steps => tries[r][runner[r].idx + 1] = <<>>
    BY <1>p DEF Shape
  <2> QED BY <2>1, <2>2, <2>3, <2>4 DEF Attempts, Untried, Trying, Achieved
<1>3. ASSUME NEW outcome \in Outcomes, NEW tokens \in Usage, ExecReturns(r, outcome, tokens)
      PROVE  Attempts(r)'
  <2> DEFINE i0 == runner[r].idx
  <2>1. i0 \in Steps /\ runner[r].pc = "exec"
    BY <1>3, <1>p DEF ExecReturns, At, StepPcs
  <2>2. /\ tries'[r][i0] = Append(tries[r][i0], outcome)
        /\ \A i \in Steps : i # i0 => tries'[r][i] = tries[r][i]
    BY <1>3, <1>0, <2>1 DEF ExecReturns, Cur
  <2>3. /\ runner'[r].idx = i0
        /\ runner'[r].pc \in {"succeeded", "attempt", "target", "failed"}
        /\ runner'[r].pc = "succeeded" => outcome = "ok"
        /\ runner'[r].pc \in {"attempt", "target"} => outcome = "unavailable"
    BY <1>3, <1>0 DEF ExecReturns, AfterAttempt, ToNextTarget, Goto, RunnerRecord, retryable
  <2>4. tries[r][i0] \in Seq(Outcomes)
    BY <1>0, <2>1
  <2>5. \A n \in 1..Len(tries[r][i0]) : tries[r][i0][n] = "unavailable"
    BY <2>1 DEF Attempts, Trying
  <2>6. /\ Len(tries'[r][i0]) = Len(tries[r][i0]) + 1
        /\ \A n \in 1..Len(tries[r][i0]) : tries'[r][i0][n] = "unavailable"
        /\ tries'[r][i0][Len(tries[r][i0]) + 1] = outcome
    <3>1. PICK h \in Seq(Outcomes) : h = tries[r][i0]
      BY <2>4
    <3>2. /\ Len(Append(h, outcome)) = Len(h) + 1
          /\ \A n \in 1..Len(h) : Append(h, outcome)[n] = h[n]
          /\ Append(h, outcome)[Len(h) + 1] = outcome
      BY AppendFacts
    <3>3. tries'[r][i0] = Append(h, outcome)
      BY <2>2, <3>1
    <3>4. \A n \in 1..Len(h) : h[n] = "unavailable"
      BY <2>5, <3>1
    <3>5. Len(tries'[r][i0]) = Len(tries[r][i0]) + 1
      BY <3>1, <3>2, <3>3
    <3>6. tries'[r][i0][Len(tries[r][i0]) + 1] = outcome
      BY <3>1, <3>2, <3>3
    <3>7. \A n \in 1..Len(tries[r][i0]) : tries'[r][i0][n] = "unavailable"
      BY <3>1, <3>2, <3>3, <3>4
    <3> HIDE DEF i0
    <3> QED BY <3>5, <3>6, <3>7
  <2>l. Len(tries[r][i0]) \in Nat
    BY <2>4
  <2>m. \A n \in 1..Len(tries'[r][i0]) : n \in 1..Len(tries[r][i0]) \/ n = Len(tries[r][i0]) + 1
    BY <2>6, <2>l
  <2>7. \A n \in 1..Len(tries'[r][i0]) : n < Len(tries'[r][i0]) => tries'[r][i0][n] = "unavailable"
    BY <2>6, <2>l
  <2>8. \A n \in 1..Len(tries'[r][i0]) : tries'[r][i0][n] \in {"unavailable", outcome}
    BY <2>6, <2>m
  <2>9. \A i \in Steps : \A n \in 1..Len(tries'[r][i]) :
          n < Len(tries'[r][i]) => tries'[r][i][n] = "unavailable"
    <3> TAKE i \in Steps
    <3>1. CASE i = i0
      BY <3>1, <2>7
    <3>2. CASE i # i0
      BY <3>2, <2>2 DEF Attempts
    <3> QED BY <3>1, <3>2
  <2>10. \A i \in Steps : i < runner'[r].idx =>
           \A n \in 1..Len(tries'[r][i]) : tries'[r][i][n] \in {"unavailable", "ok"}
    BY <2>2, <2>3, <1>p DEF Attempts
  <2>11. runner'[r].pc \in Trying => \A n \in 1..Len(tries'[r][i0]) : tries'[r][i0][n] = "unavailable"
    BY <2>3, <2>8 DEF Trying
  <2>12. runner'[r].pc \in Achieved => \A n \in 1..Len(tries'[r][i0]) : tries'[r][i0][n] \in {"unavailable", "ok"}
    BY <2>3, <2>8 DEF Achieved
  <2>13. runner'[r].pc \notin Untried
    BY <2>3 DEF Untried
  <2> QED BY <2>3, <2>9, <2>10, <2>11, <2>12, <2>13 DEF Attempts
<1> QED BY <1>1, <1>2, <1>3, AttemptsUntouched

\* The attempts of a run depend on its own goroutine alone.
LEMMA AttemptsSame ==
  ASSUME NEW q \in Requests, Attempts(q), runner'[q] = runner[q], tries'[q] = tries[q]
  PROVE  Attempts(q)'
BY SMT DEF Attempts

\* Nothing else touches the attempts; Spawn starts a goroutine before its first step.
LEMMA AttemptsStep ==
  ASSUME TypeInv, Lifecycle, StepShape, AttemptsRecorded, [Next]_vars
  PROVE  AttemptsRecorded'
<1>0. runner \in [Requests -> RunnerRecord]
  BY DEF TypeInv, TypeOK
<1>1. ASSUME NEW r \in Requests, RunnerStep(r) PROVE AttemptsRecorded'
  <2>1. RunnerFrame(r)
    BY <1>1, RunnerStepFrame
  <2>2. Attempts(r)'
    BY <1>1, AttemptsRunner DEF StepShape, AttemptsRecorded
  <2>3. ASSUME NEW q \in Requests, q # r PROVE Attempts(q)'
    <3>1. Attempts(q) /\ runner'[q] = runner[q] /\ tries'[q] = tries[q]
      BY <2>1, <2>3 DEF RunnerFrame, AttemptsRecorded
    <3> QED BY <3>1, AttemptsSame
  <2> QED BY <2>2, <2>3 DEF AttemptsRecorded
<1>2. ASSUME NEW c \in Requests, Spawn(c) PROVE AttemptsRecorded'
  <2>1. /\ runner' = [runner EXCEPT ![c].pc = "begin"]
        /\ UNCHANGED tries
        /\ runner[c].pc = "none"
    BY <1>2 DEF Spawn, Goto, runVars, stepVars, Lifecycle
  <2>2. runner'[c].pc = "begin" /\ runner'[c].idx = runner[c].idx
    BY <2>1, <1>0 DEF RunnerRecord
  <2>3. Attempts(c)'
    BY <2>1, <2>2 DEF AttemptsRecorded, Attempts, Untried, Trying, Achieved
  <2>4. ASSUME NEW q \in Requests, q # c PROVE Attempts(q)'
    <3>1. Attempts(q) /\ runner'[q] = runner[q] /\ tries'[q] = tries[q]
      BY <2>1, <2>4, <1>0 DEF AttemptsRecorded
    <3> QED BY <3>1, AttemptsSame
  <2> QED BY <2>3, <2>4 DEF AttemptsRecorded
<1>3. ASSUME NEW c \in Requests,
             StartRun(c) \/ IdemCheck(c) \/ AcquireSlot(c) \/ Create(c) \/ CreateFails(c) \/ IdemRecord(c)
      PROVE  AttemptsRecorded'
  <2>1. UNCHANGED <<runner, tries>>
    BY <1>3 DEF StartRun, IdemCheck, AcquireSlot, Create, CreateFails, IdemRecord, runVars, stepVars
  <2> QED BY <2>1 DEF AttemptsRecorded, Attempts
<1>4. CASE \/ \E k \in Keys : IdemExpire(k)
           \/ \E r \in Requests : Deadline(r)
           \/ \E x \in Cancels, r \in Requests : CancelRun(x, r)
           \/ \E x \in Cancels : CancelStep(x)
           \/ UNCHANGED vars
  <2>1. UNCHANGED <<runner, tries>>
    BY <1>4 DEF IdemExpire, Deadline, CancelRun, CancelStep, CancelFire, CancelEmit, vars, runVars, stepVars
  <2> QED BY <2>1 DEF AttemptsRecorded, Attempts
<1> QED BY <1>1, <1>2, <1>3, <1>4 DEF Next, CallerStep

\* service.go 483-553, README "Step Timeout では二重推論防止のため再試行しません": a step is
\* sent again only after an attempt with the code for an unavailable model, and
\* nothing is sent after a timeout or another error, for every number of steps,
\* targets and attempts.
THEOREM SentOnce == Spec => []NoSecondInference
<1>1. Init => AttemptsRecorded
  BY ConstantsAssumption DEF Init, AttemptsRecorded, Attempts, Untried, Trying, Achieved, Steps
<1>2. TypeInv /\ StepShape /\ AttemptsRecorded => NoSecondInference
  <2> SUFFICES ASSUME TypeInv, StepShape, AttemptsRecorded,
                      NEW r \in Requests, NEW i \in Steps, NEW n \in 1..Len(tries[r][i])
               PROVE  /\ n < Len(tries[r][i]) => tries[r][i][n] = "unavailable"
                      /\ tries[r][i][n] \in {"timeout", "rejected"} =>
                           \A j \in (i + 1)..NSteps : tries[r][j] = <<>>
    BY DEF NoSecondInference
  <2>1. runner[r].idx \in Int /\ i \in Int /\ NSteps \in Nat /\ i >= 1
    BY ConstantsAssumption DEF TypeInv, TypeOK, RunnerRecord, Steps
  <2>2. Attempts(r) /\ Shape(r)
    BY DEF AttemptsRecorded, StepShape
  <2>3. n < Len(tries[r][i]) => tries[r][i][n] = "unavailable"
    BY <2>2 DEF Attempts
  <2>4. ASSUME tries[r][i][n] \in {"timeout", "rejected"}, NEW j \in (i + 1)..NSteps
        PROVE  tries[r][j] = <<>>
    <3>1. ~(i < runner[r].idx)
      BY <2>2, <2>4 DEF Attempts
    <3>2. j \in Steps /\ j > runner[r].idx
      BY <3>1, <2>1 DEF Steps
    <3> QED BY <3>2, <2>2 DEF Shape
  <2> QED BY <2>3, <2>4
<1> QED BY <1>1, <1>2, AttemptsStep, ShapeInvariant, PTL DEF Spec

-----------------------------------------------------------------------------
(***************************************************************************)
(* Who is answered for a verdict: a run ends CANCELLED because a CancelRun *)
(* call addressed it, TIMED_OUT because its deadline passed.               *)
(***************************************************************************)

Addressed(r) == \E x \in Cancels : canceller[x].run = r

Justified(r) ==
  /\ status[r] \in {"CANCELLING", "CANCELLED"} \/ ctx[r] = "canceled" => Addressed(r)
  /\ status[r] = "TIMED_OUT" => ctx[r] = "deadline"
  /\ At(r, "interrupted") => IF runner[r].verdict = "CANCELLED" THEN Addressed(r) ELSE ctx[r] = "deadline"

VerdictInv ==
  /\ \A r \in Requests : Justified(r)
  /\ \A x \in Cancels : canceller[x].pc = "idle" => canceller[x].run = None

\* The statuses a step of the goroutine can write, and the context it reads.
VerdictFrame(r) ==
  /\ UNCHANGED <<ctx, canceller>>
  /\ \/ status'[r] = status[r] \/ status'[r] \in {"RUNNING", "FAILED", "COMPLETED"}
     \/ At(r, "interrupted") /\ status'[r] = runner[r].verdict
  /\ runner'[r].pc = "interrupted" => ctx[r] # "live" /\ runner'[r].verdict = Verdict(r)

\* Every action of the goroutine stays in this frame.
LEMMA RunnerVerdict ==
  ASSUME TypeInv, NEW r \in Requests, RunnerStep(r)
  PROVE  VerdictFrame(r)
<1>0. /\ runner \in [Requests -> RunnerRecord]
      /\ status \in [Requests -> RunStatus]
  BY DEF TypeInv, TypeOK
<1> USE <1>0 DEF VerdictFrame, At, Goto, runVars, ctxVars, RunnerRecord
<1>1. CASE ExecuteBegin(r) \/ EmitStarted(r) \/ BeginStep(r)
  BY <1>1 DEF ExecuteBegin, EmitStarted, EmitAndGo, BeginStep
<1>2. CASE BudgetExceeded(r) \/ RenderTooLarge(r) \/ StopAfterFailure(r)
  BY <1>2 DEF BudgetExceeded, RenderTooLarge, StopAfterFailure, FailRun
<1>3. CASE EmitStepStarted(r) \/ EmitStepCompleted(r)
  BY <1>3 DEF EmitStepStarted, EmitStepCompleted
<1>4. CASE EmitFallback(r) \/ EmitRetrying(r) \/ EmitStepFailed(r) \/ EmitTerminal(r)
  BY <1>4 DEF EmitFallback, EmitRetrying, EmitStepFailed, EmitTerminal, EmitAndGo
<1>5. CASE AbortAttempts(r) \/ FirstAttempt(r) \/ Retry(r) \/ BackoffOver(r)
  BY <1>5 DEF AbortAttempts, FirstAttempt, Retry, BackoffOver
<1>6. CASE CompleteStep(r) \/ FailStep(r)
  BY <1>6 DEF CompleteStep, FailStep
<1>7. CASE Interrupt(r)
  BY <1>7 DEF Interrupt
<1>8. CASE FinishInterrupted(r) \/ CompleteRun(r) \/ CloseDone(r) \/ ReleaseSlot(r)
  BY <1>8 DEF FinishInterrupted, CompleteRun, CloseDone, ReleaseSlot
<1>9. CASE \E outcome \in Outcomes, tokens \in Usage : ExecReturns(r, outcome, tokens)
  BY <1>9 DEF ExecReturns, AfterAttempt, ToNextTarget
<1> QED BY <1>1, <1>2, <1>3, <1>4, <1>5, <1>6, <1>7, <1>8, <1>9, RunnerStep(r) DEF RunnerStep

\* Every step of the Service keeps the verdicts justified.
LEMMA VerdictStep ==
  ASSUME TypeInv, Lifecycle, VerdictInv, [Next]_vars
  PROVE  VerdictInv'
<1>0. /\ runner \in [Requests -> RunnerRecord]
      /\ status \in [Requests -> RunStatus]
      /\ ctx \in [Requests -> {"live", "canceled", "deadline"}]
      /\ canceller \in [Cancels -> CancelRecord]
  BY DEF TypeInv, TypeOK
<1>1. ASSUME NEW r \in Requests, RunnerStep(r) PROVE VerdictInv'
  <2>1. RunnerFrame(r) /\ VerdictFrame(r)
    BY <1>1, RunnerStepFrame, RunnerVerdict
  <2>2. \A q \in Requests : Addressed(q)' <=> Addressed(q)
    BY <2>1 DEF VerdictFrame, Addressed
  <2>3. Justified(r)'
    <3>1. /\ ctx[r] \in {"live", "canceled", "deadline"}
          /\ runner[r].verdict \in {"CANCELLED", "TIMED_OUT"}
          /\ Justified(r)
      BY <1>0 DEF RunnerRecord, VerdictInv
    <3>2. status'[r] \in {"CANCELLING", "CANCELLED"} => Addressed(r)
      BY <2>1, <3>1 DEF VerdictFrame, Justified
    <3>3. status'[r] = "TIMED_OUT" => ctx[r] = "deadline"
      BY <2>1, <3>1 DEF VerdictFrame, Justified
    <3>4. runner'[r].pc = "interrupted" =>
            IF runner'[r].verdict = "CANCELLED" THEN Addressed(r) ELSE ctx[r] = "deadline"
      BY <2>1, <3>1 DEF VerdictFrame, Justified, Verdict
    <3> QED BY <2>1, <2>2, <3>1, <3>2, <3>3, <3>4 DEF Justified, VerdictFrame, At
  <2>4. ASSUME NEW q \in Requests, q # r PROVE Justified(q)'
    BY <2>1, <2>2, <2>4 DEF RunnerFrame, VerdictFrame, VerdictInv, Justified, At
  <2> QED BY <2>1, <2>3, <2>4 DEF VerdictInv, VerdictFrame
<1>2. ASSUME NEW c \in Requests,
             StartRun(c) \/ IdemCheck(c) \/ AcquireSlot(c) \/ Create(c) \/ CreateFails(c) \/ IdemRecord(c) \/ Spawn(c)
      PROVE  VerdictInv'
  <2>1. /\ UNCHANGED <<ctx, canceller>>
        /\ UNCHANGED runner \/ Goto(c, "begin")
        /\ UNCHANGED status \/ status' = [status EXCEPT ![c] = "QUEUED"]
    BY <1>2 DEF StartRun, IdemCheck, AcquireSlot, Create, CreateFails, IdemRecord, Spawn, runVars, ctxVars
  <2>2. ASSUME NEW q \in Requests PROVE Justified(q)'
    <3>1. Justified(q)
      BY DEF VerdictInv
    <3>2. status'[q] = status[q] \/ status'[q] = "QUEUED"
      BY <2>1, <1>0
    <3>3. runner'[q] = runner[q] \/ runner'[q].pc = "begin"
      BY <2>1, <1>0 DEF Goto, RunnerRecord
    <3>4. Addressed(q)' <=> Addressed(q)
      BY <2>1 DEF Addressed
    <3> QED BY <2>1, <3>1, <3>2, <3>3, <3>4 DEF Justified, At
  <2> QED BY <2>1, <2>2 DEF VerdictInv
<1>3. ASSUME NEW x \in Cancels, NEW r \in Requests, CancelRun(x, r) PROVE VerdictInv'
  <2>1. UNCHANGED <<ctx, runner>> /\ canceller[x].pc = "idle" /\ canceller[x].run = None
    BY <1>3 DEF CancelRun, ctxVars, VerdictInv
  <2>2. CASE canceller' = [canceller EXCEPT ![x].pc = "returned"] /\ UNCHANGED status
    <3>1. \A q \in Requests : Addressed(q)' <=> Addressed(q)
      BY <2>2, <1>0 DEF Addressed, CancelRecord
    <3>2. \A q \in Requests : Justified(q)'
      BY <2>1, <2>2, <3>1 DEF VerdictInv, Justified, At
    <3> QED BY <2>2, <3>2, <1>0 DEF VerdictInv, CancelRecord
  <2>3. CASE /\ canceller' = [canceller EXCEPT ![x] = [pc |-> "fire", run |-> r, fn |-> cancelFn[r]]]
             /\ status' = [status EXCEPT ![r] = "CANCELLING"]
    <3>1. \A q \in Requests : Addressed(q) => Addressed(q)'
      <4> SUFFICES ASSUME NEW q \in Requests, NEW y \in Cancels, canceller[y].run = q PROVE Addressed(q)'
        BY DEF Addressed
      <4>1. y # x
        BY <2>1, ConstantsAssumption
      <4>2. canceller'[y].run = q
        BY <4>1, <2>3, <1>0
      <4> QED BY <4>2 DEF Addressed
    <3>2. Addressed(r)'
      <4>1. canceller'[x].run = r
        BY <2>3, <1>0
      <4> QED BY <4>1 DEF Addressed
    <3>3. \A q \in Requests : Justified(q)'
      <4> TAKE q \in Requests
      <4>1. Justified(q)
        BY DEF VerdictInv
      <4>2. CASE q = r
        BY <4>1, <4>2, <2>1, <2>3, <3>1, <3>2, <1>0 DEF Justified, At
      <4>3. CASE q # r
        BY <4>1, <4>3, <2>1, <2>3, <3>1, <1>0 DEF Justified, At
      <4> QED BY <4>2, <4>3
    <3> QED BY <2>3, <3>3, <1>0 DEF VerdictInv
  <2> QED BY <1>3, <2>2, <2>3 DEF CancelRun
<1>4. ASSUME NEW x \in Cancels, CancelStep(x) PROVE VerdictInv'
  <2>1. /\ UNCHANGED <<status, runner>>
        /\ \E pc \in {"emit", "returned"} : canceller' = [canceller EXCEPT ![x].pc = pc]
    BY <1>4 DEF CancelStep, CancelFire, CancelEmit, runVars
  <2>2. /\ \A y \in Cancels : canceller'[y].run = canceller[y].run
        /\ \A y \in Cancels : canceller'[y].pc = "idle" => canceller[y].pc = "idle"
    BY <2>1, <1>0 DEF CancelRecord
  <2>3. ASSUME NEW q \in Requests PROVE Justified(q)'
    <3>1. Addressed(q)' <=> Addressed(q)
      BY <2>2 DEF Addressed
    <3>2. ctx'[q] = ctx[q] \/ (ctx[q] = "live" /\ ctx'[q] = "canceled" /\ canceller[x].run = q)
      BY <1>4, <1>0 DEF CancelStep, CancelFire, CancelEmit, ctxVars
    <3>3. canceller[x].run = q => Addressed(q)
      BY DEF Addressed
    <3> QED BY <2>1, <3>1, <3>2, <3>3 DEF VerdictInv, Justified, At
  <2> QED BY <2>2, <2>3 DEF VerdictInv
<1>5. ASSUME NEW r \in Requests, Deadline(r) PROVE VerdictInv'
  <2>1. UNCHANGED <<status, runner, canceller>> /\ ctx[r] = "live" /\ ctx' = [ctx EXCEPT ![r] = "deadline"]
    BY <1>5 DEF Deadline, runVars
  <2>2. \A q \in Requests : ctx'[q] = ctx[q] \/ (ctx[q] = "live" /\ ctx'[q] = "deadline")
    BY <2>1, <1>0
  <2> QED BY <2>1, <2>2 DEF VerdictInv, Justified, At, Addressed
<1>6. CASE (\E k \in Keys : IdemExpire(k)) \/ UNCHANGED vars
  <2>1. UNCHANGED <<status, runner, canceller, ctx>>
    BY <1>6 DEF IdemExpire, vars, runVars, ctxVars
  <2> QED BY <2>1 DEF VerdictInv, Justified, At, Addressed
<1> QED BY <1>1, <1>2, <1>3, <1>4, <1>5, <1>6 DEF Next, CallerStep

\* service.go 281-309, 626-657: whatever order CancelRun calls, deadlines and
\* the goroutine's own ends meet in, CANCELLED blames a call that was made for
\* this run and TIMED_OUT a deadline that passed.
THEOREM JustVerdict == Spec => []VerdictIsJustified
<1>1. Init => VerdictInv
  BY DEF Init, VerdictInv, Justified, At
<1>2. VerdictInv => VerdictIsJustified
  BY DEF VerdictInv, Justified, Addressed, VerdictIsJustified
<1> QED BY <1>1, <1>2, VerdictStep, LifecycleInvariant, PTL DEF Spec

-----------------------------------------------------------------------------
(***************************************************************************)
(* Idempotency: what a remembered key and an answer say of their run.      *)
(***************************************************************************)

Made(r, k, p) == caller[r].key = k /\ caller[r].payload = p /\ status[r] # "ABSENT"

IdemInv ==
  /\ \A c \in Requests : caller[c].pc = "idle" => status[c] = "ABSENT" /\ caller[c].answer = None
  /\ \A c \in Requests : caller[c].pc \in {"record", "queue"} => status[c] # "ABSENT"
  /\ \A k \in Keys : idem[k] # None => Made(idem[k].run, k, idem[k].payload)
  /\ AnswerMatchesRequest

\* A call keeps the key and the payload it was made with.
LEMMA CallKeeps ==
  ASSUME TypeInv, [Next]_vars, NEW r \in Requests, caller[r].pc # "idle"
  PROVE  caller'[r].key = caller[r].key /\ caller'[r].payload = caller[r].payload
<1>0. caller \in [Requests -> CallerRecord]
  BY DEF TypeInv, TypeOK
<1>1. ASSUME NEW c \in Requests, StartRun(c)
      PROVE  caller'[r] = caller[r]
  BY <1>1, <1>0 DEF StartRun
<1>2. ASSUME NEW c \in Requests, CallerStep(c)
      PROVE  caller'[r].key = caller[r].key /\ caller'[r].payload = caller[r].payload
  <2>1. \/ \E pc \in CallerPc : Call(c, pc)
        \/ \E a \in Requests \cup Errors \cup {None, idem[caller[c].key].run} : Answer(c, a)
    BY <1>2 DEF CallerStep, IdemCheck, AcquireSlot, Create, CreateFails, IdemRecord, Spawn, CallerPc, Errors
  <2> QED BY <2>1, <1>0 DEF Call, Answer, CallerRecord
<1>3. ASSUME NEW q \in Requests, RunnerStep(q)
      PROVE  UNCHANGED caller
  BY <1>3, RunnerStepFrame DEF RunnerFrame
<1>4. CASE \/ \E k \in Keys : IdemExpire(k)
           \/ \E q \in Requests : Deadline(q)
           \/ \E x \in Cancels, q \in Requests : CancelRun(x, q)
           \/ \E x \in Cancels : CancelStep(x)
           \/ UNCHANGED vars
  BY <1>4 DEF IdemExpire, Deadline, CancelRun, CancelStep, CancelFire, CancelEmit, vars, startVars
<1> QED BY <1>1, <1>2, <1>3, <1>4 DEF Next

\* Nobody forgets a run.
LEMMA MadeStays ==
  ASSUME TypeInv, Lifecycle, IdemInv, [Next]_vars, NEW r \in Requests, status[r] # "ABSENT"
  PROVE  status'[r] # "ABSENT" /\ caller'[r].key = caller[r].key /\ caller'[r].payload = caller[r].payload
<1>0. /\ status \in [Requests -> RunStatus]
      /\ runner \in [Requests -> RunnerRecord]
  BY DEF TypeInv, TypeOK
<1>1. caller'[r].key = caller[r].key /\ caller'[r].payload = caller[r].payload
  BY CallKeeps DEF IdemInv
<1>2. ASSUME NEW c \in Requests, StartRun(c) \/ CallerStep(c)
      PROVE  status'[r] # "ABSENT"
  BY <1>2, <1>0 DEF StartRun, CallerStep, IdemCheck, AcquireSlot, Create, CreateFails, IdemRecord, Spawn, runVars
<1>3. ASSUME NEW q \in Requests, RunnerStep(q)
      PROVE  status'[r] # "ABSENT"
  <2>1. RunnerFrame(q) /\ VerdictFrame(q)
    BY <1>3, RunnerStepFrame, RunnerVerdict
  <2>2. runner[q].verdict \in {"CANCELLED", "TIMED_OUT"}
    BY <1>0 DEF RunnerRecord
  <2> QED BY <2>1, <2>2 DEF RunnerFrame, VerdictFrame
<1>4. ASSUME NEW x \in Cancels, NEW q \in Requests, CancelRun(x, q)
      PROVE  status'[r] # "ABSENT"
  BY <1>4, <1>0 DEF CancelRun
<1>5. CASE \/ \E k \in Keys : IdemExpire(k)
           \/ \E q \in Requests : Deadline(q)
           \/ \E x \in Cancels : CancelStep(x)
           \/ UNCHANGED vars
  <2>1. UNCHANGED runVars
    BY <1>5 DEF IdemExpire, Deadline, CancelStep, CancelFire, CancelEmit, vars
  <2> QED BY <1>1, <2>1 DEF runVars
<1> QED BY <1>1, <1>2, <1>3, <1>4, <1>5 DEF Next

\* How a step moves the call of c: the answers it can give, and what has
\* become of the run by then.
LEMMA CallerMoves ==
  ASSUME TypeInv, Lifecycle, IdemInv, [Next]_vars, NEW c \in Requests
  PROVE  /\ caller'[c].pc = "idle" => caller'[c] = caller[c] /\ status'[c] = status[c]
         /\ caller'[c].pc \in {"record", "queue"} => status'[c] # "ABSENT"
         /\ \/ caller'[c].answer = caller[c].answer
            \/ caller'[c].answer \in Errors
            \/ /\ caller[c].pc = "check" /\ idem[caller[c].key] # None /\ ~Conflict(c)
               /\ caller'[c].answer = idem[caller[c].key].run
            \/ caller[c].pc = "queue" /\ caller'[c].answer = c
<1>0. /\ caller \in [Requests -> CallerRecord]
      /\ status \in [Requests -> RunStatus]
      /\ runner \in [Requests -> RunnerRecord]
  BY DEF TypeInv, TypeOK
<1>s. status[c] # "ABSENT" => status'[c] # "ABSENT"
  BY MadeStays
<1>r. caller[c].pc \in {"record", "queue"} => status[c] # "ABSENT"
  BY DEF IdemInv
<1>1. ASSUME NEW d \in Requests, d # c, StartRun(d) \/ CallerStep(d)
      PROVE  caller'[c] = caller[c] /\ status'[c] = status[c]
  BY <1>1, <1>0 DEF StartRun, CallerStep, IdemCheck, AcquireSlot, Create, CreateFails, IdemRecord, Spawn,
                    Call, Answer, runVars
<1>2. CASE StartRun(c)
  <2>1. caller'[c].answer = caller[c].answer /\ caller'[c].pc \in {"acquire", "check"}
    BY <1>2, <1>0 DEF StartRun, CallerRecord
  <2> QED BY <2>1
<1>3. CASE IdemCheck(c)
  <2>1. caller[c].pc = "check"
    BY <1>3 DEF IdemCheck
  <2>2. CASE Call(c, "acquire")
    BY <2>2, <1>0 DEF Call, CallerRecord
  <2>3. CASE Answer(c, "idempotency_conflict")
    BY <2>3, <1>0 DEF Answer, CallerRecord, Errors
  <2>4. CASE idem[caller[c].key] # None /\ ~Conflict(c) /\ Answer(c, idem[caller[c].key].run)
    BY <2>1, <2>4, <1>0 DEF Answer, CallerRecord
  <2> QED BY <1>3, <2>2, <2>3, <2>4 DEF IdemCheck
<1>4. CASE AcquireSlot(c)
  BY <1>4, <1>0 DEF AcquireSlot, Call, Answer, CallerRecord, Errors
<1>5. CASE Create(c)
  BY <1>5, <1>0 DEF Create, Call, CallerRecord
<1>6. CASE CreateFails(c)
  BY <1>6, <1>0 DEF CreateFails, Answer, CallerRecord, Errors
<1>7. CASE IdemRecord(c)
  BY <1>7, <1>0, <1>s, <1>r DEF IdemRecord, Call, CallerRecord
<1>8. CASE Spawn(c)
  BY <1>8, <1>0 DEF Spawn, Answer, CallerRecord
<1>9. ASSUME UNCHANGED caller, caller[c].pc = "idle" => status'[c] = status[c]
      PROVE  /\ caller'[c].pc = "idle" => caller'[c] = caller[c] /\ status'[c] = status[c]
             /\ caller'[c].pc \in {"record", "queue"} => status'[c] # "ABSENT"
             /\ caller'[c].answer = caller[c].answer
  BY <1>9, <1>s, <1>r
<1>10. ASSUME NEW q \in Requests, RunnerStep(q)
       PROVE  UNCHANGED caller /\ (caller[c].pc = "idle" => status'[c] = status[c])
  BY <1>10, RunnerStepFrame DEF RunnerFrame, Lifecycle
<1>11. ASSUME NEW x \in Cancels, NEW q \in Requests, CancelRun(x, q)
       PROVE  UNCHANGED caller /\ (caller[c].pc = "idle" => status'[c] = status[c])
  BY <1>11, <1>0 DEF CancelRun, startVars, IdemInv
<1>12. CASE \/ \E k \in Keys : IdemExpire(k)
            \/ \E q \in Requests : Deadline(q)
            \/ \E x \in Cancels : CancelStep(x)
            \/ UNCHANGED vars
  <2>1. UNCHANGED <<caller, status>>
    BY <1>12 DEF IdemExpire, Deadline, CancelStep, CancelFire, CancelEmit, vars, runVars, startVars
  <2> QED BY <2>1, <1>9
<1>13. CASE \E d \in Requests : d # c /\ (StartRun(d) \/ CallerStep(d))
  BY <1>1, <1>13, <1>s, <1>r
<1> QED BY <1>2, <1>3, <1>4, <1>5, <1>6, <1>7, <1>8, <1>9, <1>10, <1>11, <1>12, <1>13 DEF Next, CallerStep

\* Every step keeps the table of keys and the answers right.
LEMMA IdemStep ==
  ASSUME TypeInv, Lifecycle, IdemInv, [Next]_vars
  PROVE  IdemInv'
<1>0. /\ caller \in [Requests -> CallerRecord]
      /\ idem \in [Keys -> IdemEntry]
  BY DEF TypeInv, TypeOK
<1>1. \A c \in Requests : caller'[c].pc = "idle" => status'[c] = "ABSENT" /\ caller'[c].answer = None
  BY CallerMoves DEF IdemInv
<1>2. \A c \in Requests : caller'[c].pc \in {"record", "queue"} => status'[c] # "ABSENT"
  BY CallerMoves
<1>3. \A r \in Requests : \A k, p : Made(r, k, p) => Made(r, k, p)'
  BY MadeStays DEF Made
<1>4. ASSUME NEW k \in Keys, idem'[k] # None PROVE Made(idem[k].run, k, idem[k].payload)'
  <2>1. CASE idem'[k] = idem[k]
    <3>1. idem[k].run \in Requests /\ Made(idem[k].run, k, idem[k].payload)
      BY <1>0, <1>4, <2>1 DEF IdemEntry, IdemInv
    <3> QED BY <3>1, <2>1, <1>3 DEF Made
  <2>2. CASE idem'[k] # idem[k]
    <3>1. PICK c \in Requests : IdemRecord(c) /\ caller[c].key = k
      <4>1. \/ \E c \in Requests : IdemRecord(c)
            \/ \E l \in Keys : IdemExpire(l)
        BY <2>2, RunnerStepFrame
           DEF Next, CallerStep, StartRun, IdemCheck, AcquireSlot, Create, CreateFails, Spawn, RunnerFrame,
               Deadline, CancelRun, CancelStep, CancelFire, CancelEmit, vars, startVars
      <4>2. ~ \E l \in Keys : IdemExpire(l)
        BY <1>0, <1>4, <2>2 DEF IdemExpire
      <4> QED BY <4>1, <4>2, <2>2, <1>0 DEF IdemRecord
    <3>2. caller[c].pc = "record" /\ idem'[k].run = c /\ idem'[k].payload = caller[c].payload
      BY <3>1, <1>0 DEF IdemRecord
    <3>3. Made(c, k, caller[c].payload)
      BY <3>1, <3>2 DEF Made, IdemInv
    <3> QED BY <3>2, <3>3, <1>3 DEF Made
  <2> QED BY <2>1, <2>2
<1>5. ASSUME NEW c \in Requests, NEW r \in Requests, caller'[c].answer = r
      PROVE  /\ caller'[r].key = caller'[c].key
             /\ caller'[r].payload = caller'[c].payload
             /\ caller'[c].key = NoKey => r = c
             /\ status'[r] # "ABSENT"
  <2>1. ASSUME caller[c].pc # "idle", Made(r, caller[c].key, caller[c].payload),
               caller[c].key = NoKey => r = c
        PROVE  /\ caller'[r].key = caller'[c].key
               /\ caller'[r].payload = caller'[c].payload
               /\ caller'[c].key = NoKey => r = c
               /\ status'[r] # "ABSENT"
    <3>1. caller'[c].key = caller[c].key /\ caller'[c].payload = caller[c].payload
      BY <2>1, CallKeeps
    <3>2. /\ status'[r] # "ABSENT"
          /\ caller'[r].key = caller[c].key
          /\ caller'[r].payload = caller[c].payload
      BY <2>1, MadeStays DEF Made
    <3> QED BY <2>1, <3>1, <3>2
  <2>2. CASE caller'[c].answer = caller[c].answer
    <3>1. caller[c].pc # "idle"
      BY <1>5, <2>2, ConstantsAssumption DEF IdemInv
    <3>2. Made(r, caller[c].key, caller[c].payload) /\ (caller[c].key = NoKey => r = c)
      BY <1>5, <2>2 DEF IdemInv, AnswerMatchesRequest, Made
    <3> QED BY <3>1, <3>2, <2>1
  <2>3. ~(caller'[c].answer \in Errors)
    BY <1>5, ConstantsAssumption
  <2>4. CASE /\ caller[c].pc = "check" /\ idem[caller[c].key] # None /\ ~Conflict(c)
             /\ caller'[c].answer = idem[caller[c].key].run
    <3>1. caller[c].key \in Keys /\ caller[c].key # NoKey
      BY <2>4, ConstantsAssumption DEF TypeInv, WellPlaced
    <3>2. Made(r, caller[c].key, caller[c].payload)
      BY <1>5, <2>4, <3>1 DEF IdemInv, Conflict
    <3> QED BY <2>1, <2>4, <3>1, <3>2
  <2>5. CASE caller[c].pc = "queue" /\ caller'[c].answer = c
    <3>1. Made(r, caller[c].key, caller[c].payload)
      BY <1>5, <2>5 DEF IdemInv, Made
    <3> QED BY <1>5, <2>1, <2>5, <3>1
  <2> QED BY <2>2, <2>3, <2>4, <2>5, CallerMoves
<1>6. AnswerMatchesRequest'
  BY <1>5 DEF AnswerMatchesRequest
<1> QED BY <1>1, <1>2, <1>4, <1>6 DEF IdemInv

\* service.go 236-278, run.go IdemCheck / IdemRecord: however calls with
\* the same key race, expire and conflict, an answered run exists and was made
\* for the caller's own key and payload.
THEOREM IdempotentAnswers == Spec => []AnswerMatchesRequest
<1>1. Init => IdemInv
  BY ConstantsAssumption DEF Init, IdemInv, AnswerMatchesRequest
<1>2. IdemInv => AnswerMatchesRequest
  BY DEF IdemInv
<1> QED BY <1>1, <1>2, IdemStep, LifecycleInvariant, PTL DEF Spec

-----------------------------------------------------------------------------
(***************************************************************************)
(* The refinement: what a step of the Service is to the contract.          *)
(***************************************************************************)

\* done is closed exactly when the goroutine is past CloseDone, and only a
\* goroutine that wrote a final status gets that far.
Announcing ==
  \A r \in Requests :
    /\ done[r] <=> runner[r].pc \in {"closed", "ended"}
    /\ runner[r].pc \in Finished => Terminal(status[r])

\* The last steps of the goroutine, and what the others do not touch.
LEMMA EndOfRun ==
  ASSUME TypeInv, NEW r \in Requests, RunnerStep(r)
  PROVE  \/ EmitTerminal(r)
         \/ CloseDone(r)
         \/ ReleaseSlot(r)
         \/ /\ runner[r].pc \notin Finished
            /\ runner'[r].pc \notin {"announced", "closed", "ended"}
            /\ runner'[r].pc = "settled" => Terminal(status'[r])
            /\ UNCHANGED <<done, sem>>
<1>0. /\ runner \in [Requests -> RunnerRecord]
      /\ status \in [Requests -> RunStatus]
  BY DEF TypeInv, TypeOK
<1> USE <1>0 DEF Finished, Terminal, At, Goto, signalVars, RunnerRecord
<1>1. CASE ExecuteBegin(r) \/ EmitStarted(r) \/ BeginStep(r)
  BY <1>1 DEF ExecuteBegin, EmitStarted, EmitAndGo, BeginStep
<1>2. CASE BudgetExceeded(r) \/ RenderTooLarge(r) \/ StopAfterFailure(r)
  BY <1>2 DEF BudgetExceeded, RenderTooLarge, StopAfterFailure, FailRun
<1>3. CASE EmitStepStarted(r) \/ EmitStepCompleted(r)
  BY <1>3 DEF EmitStepStarted, EmitStepCompleted
<1>4. CASE EmitFallback(r) \/ EmitRetrying(r) \/ EmitStepFailed(r)
  BY <1>4 DEF EmitFallback, EmitRetrying, EmitStepFailed, EmitAndGo
<1>5. CASE AbortAttempts(r) \/ FirstAttempt(r) \/ Retry(r) \/ BackoffOver(r)
  BY <1>5 DEF AbortAttempts, FirstAttempt, Retry, BackoffOver
<1>6. CASE CompleteStep(r) \/ FailStep(r)
  BY <1>6 DEF CompleteStep, FailStep
<1>7. CASE Interrupt(r)
  BY <1>7 DEF Interrupt, AtInterruptPoint
<1>8. CASE FinishInterrupted(r) \/ CompleteRun(r)
  BY <1>8 DEF FinishInterrupted, CompleteRun
<1>9. CASE \E outcome \in Outcomes, tokens \in Usage : ExecReturns(r, outcome, tokens)
  BY <1>9 DEF ExecReturns, AfterAttempt, ToNextTarget
<1> QED BY <1>1, <1>2, <1>3, <1>4, <1>5, <1>6, <1>7, <1>8, <1>9, RunnerStep(r) DEF RunnerStep

\* Every step keeps done and the final statuses in step with the goroutines.
LEMMA AnnouncingStep ==
  ASSUME TypeInv, Lifecycle, Announcing, [Next]_vars
  PROVE  Announcing'
<1>0. /\ runner \in [Requests -> RunnerRecord]
      /\ done \in [Requests -> BOOLEAN]
      /\ status \in [Requests -> RunStatus]
  BY DEF TypeInv, TypeOK
<1>1. ASSUME NEW r \in Requests, RunnerStep(r) PROVE Announcing'
  <2>1. RunnerFrame(r)
    BY <1>1, RunnerStepFrame
  <2>2. \A q \in Requests : q # r => done'[q] = done[q]
    BY <1>1, <1>0, EndOfRun DEF EmitTerminal, EmitAndGo, CloseDone, ReleaseSlot, signalVars
  <2>3. ASSUME NEW q \in Requests, q # r
        PROVE  /\ done'[q] <=> runner'[q].pc \in {"closed", "ended"}
               /\ runner'[q].pc \in Finished => Terminal(status'[q])
    BY <2>1, <2>2, <2>3 DEF RunnerFrame, Announcing
  <2>4. done'[r] <=> runner'[r].pc \in {"closed", "ended"}
    <3>1. CASE EmitTerminal(r)
      BY <3>1, <1>0 DEF EmitTerminal, EmitAndGo, Goto, At, Announcing, RunnerRecord
    <3>2. CASE CloseDone(r)
      BY <3>2, <1>0 DEF CloseDone, Goto, RunnerRecord
    <3>3. CASE ReleaseSlot(r)
      BY <3>3, <1>0 DEF ReleaseSlot, Goto, At, Announcing, RunnerRecord, signalVars
    <3> QED BY <1>1, <3>1, <3>2, <3>3, EndOfRun DEF Announcing, Finished
  <2>5. runner'[r].pc \in Finished => Terminal(status'[r])
    <3>1. runner[r].pc \in Finished => status'[r] = status[r]
      BY <2>1 DEF RunnerFrame
    <3>2. runner[r].pc \notin Finished => (runner'[r].pc \in Finished => Terminal(status'[r]))
      BY <1>1, EndOfRun DEF Finished, EmitTerminal, EmitAndGo, CloseDone, ReleaseSlot, At
    <3> QED BY <3>1, <3>2 DEF Announcing, Terminal
  <2> QED BY <2>3, <2>4, <2>5 DEF Announcing, Terminal, Finished
<1>2. ASSUME NEW c \in Requests,
             StartRun(c) \/ IdemCheck(c) \/ AcquireSlot(c) \/ IdemRecord(c)
      PROVE  Announcing'
  <2>1. UNCHANGED <<runner, done, status>>
    BY <1>2 DEF StartRun, IdemCheck, AcquireSlot, IdemRecord, runVars, signalVars
  <2> QED BY <2>1 DEF Announcing, Terminal, Finished
<1>3. ASSUME NEW c \in Requests, Create(c) \/ CreateFails(c) PROVE Announcing'
  <2>1. /\ UNCHANGED <<runner, done>> /\ status' = [status EXCEPT ![c] = "QUEUED"]
        /\ runner[c].pc = "none"
    BY <1>3 DEF Create, CreateFails, signalVars, Lifecycle
  <2> QED BY <2>1, <1>0 DEF Announcing, Terminal, Finished
<1>4. ASSUME NEW c \in Requests, Spawn(c) PROVE Announcing'
  <2>1. /\ UNCHANGED <<done, status>> /\ runner' = [runner EXCEPT ![c].pc = "begin"]
        /\ runner[c].pc = "none"
    BY <1>4 DEF Spawn, Goto, Lifecycle, runVars
  <2> QED BY <2>1, <1>0 DEF Announcing, Terminal, Finished, RunnerRecord
<1>5. ASSUME NEW x \in Cancels, NEW r \in Requests, CancelRun(x, r) PROVE Announcing'
  <2>1. /\ UNCHANGED <<done, runner>>
        /\ UNCHANGED status \/ (~Terminal(status[r]) /\ status' = [status EXCEPT ![r] = "CANCELLING"])
    BY <1>5 DEF CancelRun, CancelIsLate, signalVars
  <2> QED BY <2>1, <1>0 DEF Announcing, Terminal, Finished
<1>6. CASE \/ \E k \in Keys : IdemExpire(k)
           \/ \E q \in Requests : Deadline(q)
           \/ \E x \in Cancels : CancelStep(x)
           \/ UNCHANGED vars
  <2>1. UNCHANGED <<runner, done, status>>
    BY <1>6 DEF IdemExpire, Deadline, CancelStep, CancelFire, CancelEmit, vars, runVars, signalVars
  <2> QED BY <2>1 DEF Announcing, Terminal, Finished
<1> QED BY <1>1, <1>2, <1>3, <1>4, <1>5, <1>6 DEF Next, CallerStep

\* RunContract counts with the same Cardinality.
LEMMA SameCardinality == ASSUME NEW S PROVE Contract!Cardinality(S) = Cardinality(S)
  BY Zenon DEF Cardinality, Contract!Cardinality

\* The contract sees of a step only which call's slot, outcome or
\* announcement changed.
\* A step that gives run r the outcome o and the others their old one.
LEMMA OutcomeOfOne ==
  ASSUME NEW r \in Requests, NEW o, OutcomeOf(r)' = o,
         \A q \in Requests \ {r} : OutcomeOf(q)' = OutcomeOf(q)
  PROVE  RunOutcomes' = [RunOutcomes EXCEPT ![r] = o]
<1>1. RunOutcomes = [q \in Requests |-> OutcomeOf(q)] /\ RunOutcomes' = [q \in Requests |-> OutcomeOf(q)']
  BY DEF RunOutcomes
<1>2. \A q \in Requests : RunOutcomes'[q] = [RunOutcomes EXCEPT ![r] = o][q]
  BY <1>1
<1> QED BY <1>1, <1>2

\* The steps of a StartRun call: one takes a slot, one gives it back, one
\* opens the run, the others change nothing the contract sees.
LEMMA ContractCaller ==
  ASSUME TypeInv, Lifecycle, SlotAccounting, Announcing, NEW c \in Requests, StartRun(c) \/ CallerStep(c)
  PROVE  Contract!ContractNext \/ UNCHANGED Contract!contractVars
<1>0. /\ runner \in [Requests -> RunnerRecord]
      /\ caller \in [Requests -> CallerRecord]
      /\ status \in [Requests -> RunStatus]
  BY DEF TypeInv, TypeOK
<1>n. caller[c].pc # "answered" /\ runner[c].pc = "none" /\ RunOutcomes[c] = "none"
  BY DEF StartRun, CallerStep, IdemCheck, AcquireSlot, Create, CreateFails, IdemRecord, Spawn, Lifecycle,
         RunOutcomes, OutcomeOf, At
<1>d. done' = done /\ AnnouncedRuns' = AnnouncedRuns
  BY DEF StartRun, CallerStep, IdemCheck, AcquireSlot, Create, CreateFails, IdemRecord, Spawn, signalVars, AnnouncedRuns
<1>o. ASSUME UNCHANGED runner, UNCHANGED status \/ status' = [status EXCEPT ![c] = "QUEUED"]
      PROVE  RunOutcomes' = RunOutcomes
  <2>1. \A q \in Requests : OutcomeOf(q)' = OutcomeOf(q)
    BY <1>o, <1>n, <1>0 DEF OutcomeOf, At
  <2> QED BY <2>1 DEF RunOutcomes
<1>s. ASSUME SlotHolders' = SlotHolders, RunOutcomes' = RunOutcomes
      PROVE  UNCHANGED Contract!contractVars
  BY <1>s, <1>d DEF Contract!contractVars
<1>1. CASE StartRun(c)
  <2>1. PICK k \in Keys \cup {NoKey}, p \in Payloads :
          caller' = [caller EXCEPT ![c] = [@ EXCEPT !.pc = IF k = NoKey THEN "acquire" ELSE "check",
                                                    !.key = k, !.payload = p]]
    BY <1>1 DEF StartRun
  <2>2. caller[c].pc = "idle" /\ caller'[c].pc \in {"acquire", "check"}
    <3>1. caller[c].pc = "idle"
      BY <1>1 DEF StartRun
    <3>2. caller'[c] = [caller[c] EXCEPT !.pc = IF k = NoKey THEN "acquire" ELSE "check", !.key = k, !.payload = p]
      BY <2>1, <1>0
    <3>3. caller[c] \in CallerRecord
      BY <1>0
    <3> QED BY <3>1, <3>2, <3>3 DEF CallerRecord
  <2>3. UNCHANGED runner /\ UNCHANGED status
    BY <1>1 DEF StartRun, runVars
  <2>4. \A d \in Requests : d # c => caller'[d] = caller[d]
    BY <2>1, <1>0
  <2>5. SlotHolders' = SlotHolders
    BY <2>2, <2>3, <2>4 DEF SlotHolders
  <2> QED BY <2>3, <2>5, <1>o, <1>s
<1>2. CASE IdemCheck(c)
  <2>1. UNCHANGED runner /\ UNCHANGED status
    BY <1>2 DEF IdemCheck, runVars
  <2>2. SlotHolders' = SlotHolders
    BY <1>2, <2>1, <1>0 DEF SlotHolders, IdemCheck, Call, Answer, CallerRecord
  <2> QED BY <2>1, <2>2, <1>o, <1>s
<1>3. CASE AcquireSlot(c)
  <2>1. UNCHANGED runner /\ UNCHANGED status /\ caller[c].pc = "acquire"
    BY <1>3 DEF AcquireSlot, runVars
  <2>2. RunOutcomes' = RunOutcomes /\ c \notin SlotHolders
    BY <2>1, <1>o, <1>n DEF SlotHolders
  <2>3. CASE sem < MaxConcurrentRuns /\ sem' = sem + 1 /\ Call(c, "create")
    <3>1. SlotHolders' = SlotHolders \cup {c}
      BY <2>1, <2>3, <1>0 DEF SlotHolders, Call, CallerRecord
    <3>2. Cardinality(SlotHolders) < MaxConcurrentRuns
      BY <2>3 DEF SlotAccounting
    <3>3. Contract!Admit(c)
      BY <3>1, <3>2, <2>2, <1>n, <1>d, SameCardinality DEF Contract!Admit
    <3> QED BY <3>3 DEF Contract!ContractNext
  <2>4. CASE Answer(c, "workflow_capacity_exhausted")
    <3>1. SlotHolders' = SlotHolders
      BY <2>1, <2>4, <1>0 DEF SlotHolders, Answer, CallerRecord
    <3> QED BY <3>1, <2>2, <1>s
  <2> QED BY <1>3, <2>3, <2>4 DEF AcquireSlot
<1>4. CASE Create(c)
  <2>1. UNCHANGED runner /\ status' = [status EXCEPT ![c] = "QUEUED"]
    BY <1>4 DEF Create
  <2>2. SlotHolders' = SlotHolders
    BY <1>4, <2>1, <1>0 DEF SlotHolders, Create, Call, CallerRecord
  <2> QED BY <2>1, <2>2, <1>o, <1>s
<1>5. CASE CreateFails(c)
  <2>1. UNCHANGED runner /\ status' = [status EXCEPT ![c] = "QUEUED"] /\ caller[c].pc = "create"
    BY <1>5 DEF CreateFails
  <2>2. SlotHolders' = SlotHolders \ {c} /\ c \in SlotHolders
    BY <1>5, <2>1, <1>0, <1>n DEF SlotHolders, CreateFails, Answer, CallerRecord
  <2>3. Contract!Abandon(c)
    BY <2>1, <2>2, <1>o, <1>n, <1>d DEF Contract!Abandon
  <2> QED BY <2>3 DEF Contract!ContractNext
<1>6. CASE IdemRecord(c)
  <2>1. UNCHANGED runner /\ UNCHANGED status
    BY <1>6 DEF IdemRecord, runVars
  <2>2. SlotHolders' = SlotHolders
    BY <1>6, <2>1, <1>0 DEF SlotHolders, IdemRecord, Call, CallerRecord
  <2> QED BY <2>1, <2>2, <1>o, <1>s
<1>7. CASE Spawn(c)
  <2>1. SlotHolders' = SlotHolders /\ c \in SlotHolders
    BY <1>7, <1>0 DEF SlotHolders, Spawn, Goto, Answer, CallerRecord, RunnerRecord
  <2>2. /\ runner' = [runner EXCEPT ![c].pc = "begin"]
        /\ UNCHANGED status
    BY <1>7 DEF Spawn, Goto, runVars
  <2>3. OutcomeOf(c)' = "open"
    <3>1. ~Terminal(status[c])
      BY <1>n DEF Lifecycle, Finished
    <3>2. runner'[c].pc = "begin"
      BY <2>2, <1>0 DEF RunnerRecord
    <3> QED BY <3>1, <3>2, <2>2 DEF OutcomeOf, At, Terminal
  <2>4. \A q \in Requests \ {c} : OutcomeOf(q)' = OutcomeOf(q)
    BY <2>2, <1>0 DEF OutcomeOf, At
  <2>5. RunOutcomes' = [RunOutcomes EXCEPT ![c] = "open"]
    BY <2>3, <2>4, OutcomeOfOne
  <2>6. Contract!Open(c)
    BY <2>1, <2>5, <1>n, <1>d DEF Contract!Open
  <2> QED BY <2>6 DEF Contract!ContractNext
<1> QED BY <1>1, <1>2, <1>3, <1>4, <1>5, <1>6, <1>7 DEF CallerStep

\* The steps of the goroutine: one settles the run, one announces it, one
\* gives the slot back.
LEMMA ContractRunner ==
  ASSUME TypeInv, Lifecycle, Lifecycle', Announcing, Announcing', NEW r \in Requests, RunnerStep(r)
  PROVE  Contract!ContractNext \/ UNCHANGED Contract!contractVars
<1>0. /\ runner \in [Requests -> RunnerRecord]
      /\ done \in [Requests -> BOOLEAN]
      /\ status \in [Requests -> RunStatus]
  BY DEF TypeInv, TypeOK
<1>f. /\ RunnerFrame(r)
      /\ UNCHANGED caller
      /\ runner[r].pc \notin {"none", "ended"} /\ runner'[r].pc # "none"
  BY RunnerStepFrame DEF RunnerFrame
<1>q. \A q \in Requests \ {r} : OutcomeOf(q)' = OutcomeOf(q)
  BY <1>f DEF RunnerFrame, OutcomeOf, At, Terminal
<1>o. RunOutcomes[r] = IF Terminal(status[r]) THEN status[r] ELSE "open"
  BY <1>f DEF RunOutcomes, OutcomeOf, At
<1>h. runner'[r].pc # "ended" => SlotHolders' = SlotHolders
  BY <1>f DEF RunnerFrame, SlotHolders
<1>k. ASSUME OutcomeOf(r)' = OutcomeOf(r) PROVE RunOutcomes' = RunOutcomes
  <2>1. \A q \in Requests : OutcomeOf(q)' = OutcomeOf(q)
    BY <1>k, <1>q
  <2> QED BY <2>1 DEF RunOutcomes
<1>1. CASE EmitTerminal(r)
  <2>1. /\ UNCHANGED <<done, status>> /\ runner'[r].pc = "announced"
    BY <1>1, <1>0 DEF EmitTerminal, EmitAndGo, runVars, Goto, RunnerRecord
  <2>2. RunOutcomes' = RunOutcomes
    BY <2>1, <1>k, <1>f DEF OutcomeOf, At, Terminal
  <2> QED BY <2>1, <2>2, <1>h DEF Contract!contractVars, AnnouncedRuns
<1>2. CASE CloseDone(r)
  <2>1. /\ done' = [done EXCEPT ![r] = TRUE] /\ UNCHANGED status
        /\ runner[r].pc = "announced" /\ runner'[r].pc = "closed"
    BY <1>2, <1>0 DEF CloseDone, runVars, Goto, At, RunnerRecord
  <2>2. RunOutcomes' = RunOutcomes
    BY <2>1, <1>k DEF OutcomeOf, At, Terminal
  <2>3. r \notin AnnouncedRuns /\ RunOutcomes[r] \in Contract!Final
    BY <2>1, <1>o DEF AnnouncedRuns, Announcing, Finished, Terminal, Contract!Final
  <2>4. AnnouncedRuns' = AnnouncedRuns \cup {r}
    BY <2>1, <1>0 DEF AnnouncedRuns
  <2>5. Contract!Announce(r)
    BY <2>1, <2>2, <2>3, <2>4, <1>h DEF Contract!Announce
  <2> QED BY <2>5 DEF Contract!ContractNext
<1>3. CASE ReleaseSlot(r)
  <2>1. /\ UNCHANGED <<done, status>> /\ runner[r].pc = "closed" /\ runner'[r].pc = "ended"
    BY <1>3, <1>0 DEF ReleaseSlot, runVars, signalVars, Goto, At, RunnerRecord
  <2>2. RunOutcomes' = RunOutcomes
    BY <2>1, <1>k DEF OutcomeOf, At, Terminal
  <2>3. r \in AnnouncedRuns /\ AnnouncedRuns' = AnnouncedRuns
    BY <2>1 DEF AnnouncedRuns, Announcing
  <2>4. r \in SlotHolders /\ SlotHolders' = SlotHolders \ {r}
    <3>1. caller[r].pc = "answered"
      BY <1>f DEF Lifecycle
    <3> QED BY <2>1, <1>f, <3>1 DEF SlotHolders, RunnerFrame
  <2>5. Contract!Release(r)
    BY <2>2, <2>3, <2>4 DEF Contract!Release
  <2> QED BY <2>5 DEF Contract!ContractNext
<1>4. CASE /\ runner[r].pc \notin Finished
           /\ runner'[r].pc \notin {"announced", "closed", "ended"}
           /\ runner'[r].pc = "settled" => Terminal(status'[r])
           /\ UNCHANGED <<done, sem>>
  <2>1. SlotHolders' = SlotHolders /\ AnnouncedRuns' = AnnouncedRuns
    BY <1>4, <1>h DEF AnnouncedRuns
  <2>2. RunOutcomes[r] = "open" /\ OutcomeOf(r) = "open"
    BY <1>4, <1>o, <1>f DEF Lifecycle, RunOutcomes
  <2>3. CASE runner'[r].pc = "settled"
    <3>1. OutcomeOf(r)' = status'[r] /\ status'[r] \in Contract!Final
      BY <1>4, <2>3 DEF OutcomeOf, At, Terminal, Contract!Final
    <3>2. RunOutcomes' = [RunOutcomes EXCEPT ![r] = status'[r]]
      BY <3>1, <1>q, OutcomeOfOne
    <3>3. Contract!Settle(r)
      BY <2>1, <2>2, <3>1, <3>2 DEF Contract!Settle
    <3> QED BY <3>3 DEF Contract!ContractNext
  <2>4. CASE runner'[r].pc # "settled"
    <3>1. ~Terminal(status[r])' /\ runner'[r].pc # "none"
      BY <1>4, <2>4, <1>f DEF Lifecycle, Finished, Terminal
    <3>2. OutcomeOf(r)' = OutcomeOf(r)
      BY <2>2, <3>1 DEF OutcomeOf, At, Terminal
    <3> QED BY <2>1, <3>2, <1>k DEF Contract!contractVars
  <2> QED BY <2>3, <2>4
<1> QED BY <1>1, <1>2, <1>3, <1>4, EndOfRun

\* Every step of the Service is a step of the contract or invisible to it.
LEMMA ContractSimulates ==
  ASSUME TypeInv, Lifecycle, Lifecycle', SlotAccounting, Announcing, Announcing', [Next]_vars
  PROVE  [Contract!ContractNext]_(Contract!contractVars)
<1>0. status \in [Requests -> RunStatus]
  BY DEF TypeInv, TypeOK
<1>1. ASSUME NEW x \in Cancels, NEW r \in Requests, CancelRun(x, r)
      PROVE  UNCHANGED Contract!contractVars
  <2>1. /\ UNCHANGED <<done, runner, caller>>
        /\ UNCHANGED status \/ (~Terminal(status[r]) /\ status' = [status EXCEPT ![r] = "CANCELLING"])
    BY <1>1 DEF CancelRun, CancelIsLate, signalVars, startVars
  <2>2. \A q \in Requests : OutcomeOf(q)' = OutcomeOf(q)
    BY <2>1, <1>0 DEF OutcomeOf, At, Terminal
  <2> QED BY <2>1, <2>2 DEF Contract!contractVars, RunOutcomes, AnnouncedRuns, SlotHolders
<1>2. CASE \/ \E k \in Keys : IdemExpire(k)
           \/ \E q \in Requests : Deadline(q)
           \/ \E x \in Cancels : CancelStep(x)
           \/ UNCHANGED vars
  <2>1. UNCHANGED <<runner, done, status>>
    BY <1>2 DEF IdemExpire, Deadline, CancelStep, CancelFire, CancelEmit, vars, runVars, signalVars
  <2>2. UNCHANGED caller
    BY <1>2 DEF IdemExpire, Deadline, CancelStep, CancelFire, CancelEmit, vars, startVars
  <2>3. \A q \in Requests : OutcomeOf(q)' = OutcomeOf(q)
    BY <2>1 DEF OutcomeOf, At, Terminal
  <2> QED BY <2>1, <2>2, <2>3 DEF Contract!contractVars, RunOutcomes, AnnouncedRuns, SlotHolders
<1> QED BY <1>1, <1>2, ContractCaller, ContractRunner DEF Next

\* service.go 236-274, 354-470, 626-674: seen from outside, the calls, the
\* goroutines and their signals do nothing but what RunContract promises: admit
\* within the capacity, open, settle once, then announce, then release.
THEOREM RefinesContract == Spec => ImplementsContract
<1>1. Init => Contract!ContractInit /\ Announcing
  <2> SUFFICES ASSUME Init PROVE Contract!ContractInit /\ Announcing
    OBVIOUS
  <2>1. SlotHolders = {} /\ AnnouncedRuns = {}
    BY DEF Init, SlotHolders, AnnouncedRuns
  <2>2. RunOutcomes = [r \in Requests |-> "none"]
    BY DEF Init, RunOutcomes, OutcomeOf, At
  <2>3. Announcing
    BY DEF Init, Announcing, Finished
  <2> QED BY <2>1, <2>2, <2>3 DEF Contract!ContractInit
<1>2. Spec => []Announcing
  BY <1>1, AnnouncingStep, LifecycleInvariant, PTL DEF Spec
<1> QED BY <1>1, <1>2, ContractSimulates, LifecycleInvariant, SlotsAreAccounted, PTL
        DEF Spec, ImplementsContract, Contract!ContractSpec

-----------------------------------------------------------------------------
(***************************************************************************)
(* The window in which a CancelRun is lost.                                *)
(***************************************************************************)

\* A cancelFn is there only once the goroutine has written RUNNING.
Begun(r) == runner[r].pc \notin {"none", "begin"}

HeardInv ==
  /\ \A r \in Requests : cancelFn[r] => Begun(r)
  /\ \A x \in Cancels : canceller[x].fn =>
       /\ canceller[x].pc # "idle" /\ canceller[x].run \in Requests
       /\ Begun(canceller[x].run)
       /\ status[canceller[x].run] = "CANCELLING" \/ Terminal(status[canceller[x].run])

\* What a step of the goroutine of r does to the cancelFn and the status: RUNNING
\* is written by ExecuteBegin alone, and all later writes are final.
HeardFrame(r) ==
  /\ UNCHANGED canceller
  /\ Begun(r)'
  /\ \A q \in Requests \ {r} : cancelFn'[q] = cancelFn[q]
  /\ Begun(r) => status'[r] = status[r] \/ Terminal(status'[r])

\* Every action of the goroutine stays in this frame.
LEMMA RunnerHeard ==
  ASSUME TypeInv, NEW r \in Requests, RunnerStep(r)
  PROVE  HeardFrame(r)
<1>0. /\ runner \in [Requests -> RunnerRecord]
      /\ status \in [Requests -> RunStatus]
      /\ cancelFn \in [Requests -> BOOLEAN]
  BY DEF TypeInv, TypeOK
<1> USE <1>0 DEF HeardFrame, Begun, Terminal, At, Goto, runVars, ctxVars, RunnerRecord
<1>1. CASE ExecuteBegin(r) \/ EmitStarted(r) \/ BeginStep(r)
  BY <1>1 DEF ExecuteBegin, EmitStarted, EmitAndGo, BeginStep
<1>2. CASE BudgetExceeded(r) \/ RenderTooLarge(r) \/ StopAfterFailure(r)
  BY <1>2 DEF BudgetExceeded, RenderTooLarge, StopAfterFailure, FailRun
<1>3. CASE EmitStepStarted(r) \/ EmitStepCompleted(r)
  BY <1>3 DEF EmitStepStarted, EmitStepCompleted
<1>4. CASE EmitFallback(r) \/ EmitRetrying(r) \/ EmitStepFailed(r) \/ EmitTerminal(r)
  BY <1>4 DEF EmitFallback, EmitRetrying, EmitStepFailed, EmitTerminal, EmitAndGo
<1>5. CASE AbortAttempts(r) \/ FirstAttempt(r) \/ Retry(r) \/ BackoffOver(r)
  BY <1>5 DEF AbortAttempts, FirstAttempt, Retry, BackoffOver
<1>6. CASE CompleteStep(r) \/ FailStep(r)
  BY <1>6 DEF CompleteStep, FailStep
<1>7. CASE Interrupt(r)
  BY <1>7 DEF Interrupt
<1>8. CASE FinishInterrupted(r)
  <2>1. runner[r].verdict \in {"CANCELLED", "TIMED_OUT"}
    OBVIOUS
  <2> QED BY <1>8, <2>1 DEF FinishInterrupted
<1>9. CASE CompleteRun(r) \/ CloseDone(r) \/ ReleaseSlot(r)
  BY <1>9 DEF CompleteRun, CloseDone, ReleaseSlot
<1>10. CASE \E outcome \in Outcomes, tokens \in Usage : ExecReturns(r, outcome, tokens)
  BY <1>10 DEF ExecReturns, AfterAttempt, ToNextTarget
<1> QED BY <1>1, <1>2, <1>3, <1>4, <1>5, <1>6, <1>7, <1>8, <1>9, <1>10, RunnerStep(r) DEF RunnerStep

\* HeardInv is inductive.
LEMMA HeardStep ==
  ASSUME TypeInv, Lifecycle, HeardInv, [Next]_vars
  PROVE  HeardInv'
<1>0. /\ runner \in [Requests -> RunnerRecord]
      /\ status \in [Requests -> RunStatus]
      /\ cancelFn \in [Requests -> BOOLEAN]
      /\ canceller \in [Cancels -> CancelRecord]
  BY DEF TypeInv, TypeOK
<1>1. ASSUME NEW r \in Requests, RunnerStep(r) PROVE HeardInv'
  <2>1. HeardFrame(r) /\ RunnerFrame(r)
    BY <1>1, RunnerHeard, RunnerStepFrame
  <2>2. \A q \in Requests \ {r} : runner'[q] = runner[q] /\ status'[q] = status[q]
    BY <2>1 DEF RunnerFrame
  <2> QED BY <2>1, <2>2 DEF HeardFrame, HeardInv, Begun
<1>2. ASSUME NEW x \in Cancels, NEW r \in Requests, CancelRun(x, r) PROVE HeardInv'
  <2>1. UNCHANGED <<runner, cancelFn>>
    BY <1>2 DEF CancelRun, ctxVars
  <2>2. CASE CancelIsLate(r)
    <3>1. UNCHANGED status /\ canceller' = [canceller EXCEPT ![x].pc = "returned"]
      BY <1>2, <2>2 DEF CancelRun
    <3> QED BY <2>1, <3>1, <1>0 DEF HeardInv, Begun, CancelRecord
  <2>3. CASE ~CancelIsLate(r)
    <3>1. /\ canceller' = [canceller EXCEPT ![x] = [pc |-> "fire", run |-> r, fn |-> cancelFn[r]]]
          /\ status' = [status EXCEPT ![r] = "CANCELLING"]
      BY <1>2, <2>3 DEF CancelRun
    <3> QED BY <2>1, <3>1, <1>0 DEF HeardInv, Begun, CancelRecord
  <2> QED BY <2>2, <2>3
<1>3. ASSUME NEW x \in Cancels, CancelStep(x) PROVE HeardInv'
  <2>1. UNCHANGED <<runner, cancelFn, status>>
    BY <1>3 DEF CancelStep, CancelFire, CancelEmit, runVars, ctxVars
  <2>2. \E pc \in {"emit", "returned"} : canceller' = [canceller EXCEPT ![x].pc = pc]
    BY <1>3 DEF CancelStep, CancelFire, CancelEmit
  <2> QED BY <2>1, <2>2, <1>0 DEF HeardInv, Begun, CancelRecord
<1>4. ASSUME NEW c \in Requests, Create(c) \/ CreateFails(c) PROVE HeardInv'
  <2>1. /\ UNCHANGED <<runner, cancelFn, canceller>>
        /\ status' = [status EXCEPT ![c] = "QUEUED"]
        /\ runner[c].pc = "none"
    BY <1>4 DEF Create, CreateFails, ctxVars, Lifecycle
  <2> QED BY <2>1, <1>0 DEF HeardInv, Begun
<1>5. ASSUME NEW c \in Requests, Spawn(c) PROVE HeardInv'
  <2>1. /\ UNCHANGED <<status, cancelFn, canceller>>
        /\ runner' = [runner EXCEPT ![c].pc = "begin"]
        /\ runner[c].pc = "none"
    BY <1>5 DEF Spawn, Goto, runVars, ctxVars, Lifecycle
  <2> QED BY <2>1, <1>0 DEF HeardInv, Begun, RunnerRecord
<1>6. ASSUME UNCHANGED <<runner, cancelFn, canceller, status>> PROVE HeardInv'
  BY <1>6 DEF HeardInv, Begun
<1>7. ASSUME NEW c \in Requests, StartRun(c) \/ IdemCheck(c) \/ AcquireSlot(c) \/ IdemRecord(c)
      PROVE  UNCHANGED <<runner, cancelFn, canceller, status>>
  BY <1>7 DEF StartRun, IdemCheck, AcquireSlot, IdemRecord, runVars, ctxVars
<1>8. CASE \/ \E k \in Keys : IdemExpire(k)
           \/ \E r \in Requests : Deadline(r)
           \/ UNCHANGED vars
  BY <1>6, <1>8 DEF IdemExpire, Deadline, vars, runVars, ctxVars
<1> QED BY <1>1, <1>2, <1>3, <1>4, <1>5, <1>6, <1>7, <1>8 DEF Next, CallerStep

\* service.go 284-300, 365-371: the only cancel that is written over is one that
\* found no cancelFn, before the goroutine's first write.
THEOREM HeardForGood == Spec => []HeardCancelStays
<1>1. Init => HeardInv
  BY DEF Init, HeardInv
<1>2. HeardInv => HeardCancelStays
  BY DEF HeardInv, HeardCancelStays
<1> QED BY <1>1, <1>2, HeardStep, LifecycleInvariant, PTL DEF Spec

-----------------------------------------------------------------------------
(***************************************************************************)
(* WorkflowInference: the Service on top of the orchestrator.  The         *)
(* theorems of OrchestratorProofs are used at the names of an instance of  *)
(* their own, whose definitions are shown to be those of Orch.             *)
(***************************************************************************)
OrchProofs == INSTANCE OrchestratorProofs WITH
  Requests <- StepAttempts \cup Direct, Deadlined <- StepAttempts, sem <- slots

\* All calls of the orchestrator.
Calls == StepAttempts \cup Direct

\* There are finitely many attempts.
LEMMA CallsFinite == IsFiniteSet(Calls)
<1> DEFINE S == (Requests \X Steps) \X ((1..NTargets) \X (1..MaxAttempts))
<1>1. IsFiniteSet(Steps) /\ IsFiniteSet(1..NTargets) /\ IsFiniteSet(1..MaxAttempts) /\ IsFiniteSet(Requests)
  BY FS_Interval, ConstantsAssumption DEF Steps
<1>2. IsFiniteSet(Requests \X Steps) /\ IsFiniteSet((1..NTargets) \X (1..MaxAttempts))
  BY <1>1, FS_Product
<1>3. IsFiniteSet(S)
  BY <1>2, FS_Product
<1> DEFINE f == [x \in S |-> <<x[1][1], x[1][2], x[2][1], x[2][2]>>]
<1>4. f \in [S -> StepAttempts]
  BY DEF StepAttempts
<1>5. \A t \in StepAttempts : \E x \in S : f[x] = t
  <2> TAKE t \in StepAttempts
  <2>1. <<<<t[1], t[2]>>, <<t[3], t[4]>>>> \in S
    BY DEF StepAttempts
  <2>2. f[<<<<t[1], t[2]>>, <<t[3], t[4]>>>>] = <<t[1], t[2], t[3], t[4]>>
    BY <2>1
  <2>3. t = <<t[1], t[2], t[3], t[4]>>
    BY DEF StepAttempts
  <2> QED BY <2>1, <2>2, <2>3
<1>6. f \in Surjection(S, StepAttempts)
  BY <1>4, <1>5 DEF Surjection
<1> HIDE DEF f, S
<1>7. IsFiniteSet(StepAttempts)
  BY <1>3, <1>6, FS_Surjection
<1> QED BY <1>7, InferenceConstants, FS_Union DEF Calls

\* The constants of the orchestrator are as its theorems assume.
LEMMA OrchConstants == OrchProofs!OrchestratorConstants
<1>1. OrchProofs!IsFiniteSet(Calls) /\ OrchProofs!IsFiniteSet(Deployments)
  BY CallsFinite, InferenceConstants DEF IsFiniteSet, OrchProofs!IsFiniteSet
<1> QED BY <1>1, InferenceConstants DEF OrchProofs!OrchestratorConstants, Calls

\* Both instances count alike, ...
LEMMA SameCounting == ASSUME NEW S PROVE Orch!Cardinality(S) = OrchProofs!Cardinality(S)
  BY Zenon DEF Orch!Cardinality, OrchProofs!Cardinality

\* ... start in the same states, ...
LEMMA SameInit == Orch!Init <=> OrchProofs!Init
BY DEF Orch!Init, OrchProofs!Init, Orch!Call, OrchProofs!Call


\* ... and each step of a call is the same in both: the end of its context, ...
LEMMA SameContextEnds == ASSUME NEW q \in Calls PROVE Orch!ContextEnds(q) <=> OrchProofs!ContextEnds(q)
BY DEF Orch!ContextEnds, OrchProofs!ContextEnds, Orch!Waiting, OrchProofs!Waiting, Orch!poolVars, OrchProofs!poolVars, Orch!breakerVars, OrchProofs!breakerVars

\* ... its arrival, ...
LEMMA SameEnqueue == ASSUME NEW q \in Calls PROVE Orch!Enqueue(q) <=> OrchProofs!Enqueue(q)
BY DEF Orch!Enqueue, OrchProofs!Enqueue, Orch!At, OrchProofs!At, Orch!Goto, OrchProofs!Goto, Orch!Done, OrchProofs!Done, Orch!Call, OrchProofs!Call, Orch!poolVars, OrchProofs!poolVars, Orch!breakerVars, OrchProofs!breakerVars

\* ... and what it does on the way.
LEMMA SameRequestStep == ASSUME NEW q \in Calls PROVE Orch!RequestStep(q) <=> OrchProofs!RequestStep(q)
<1> USE DEF Orch!At, OrchProofs!At, Orch!Goto, OrchProofs!Goto, Orch!Done, OrchProofs!Done, Orch!Call, OrchProofs!Call, Orch!poolVars, OrchProofs!poolVars, Orch!breakerVars, OrchProofs!breakerVars, Orch!Cand, OrchProofs!Cand, Orch!IsLast, OrchProofs!IsLast, Orch!Assignable, OrchProofs!Assignable, Orch!Outcome, OrchProofs!Outcome, Orch!Record, OrchProofs!Record
<1>1. Orch!TakeSem(q) <=> OrchProofs!TakeSem(q)
  BY DEF Orch!TakeSem, OrchProofs!TakeSem
<1>2. Orch!LeaveQueue(q) <=> OrchProofs!LeaveQueue(q)
  BY DEF Orch!LeaveQueue, OrchProofs!LeaveQueue
<1>3. Orch!GiveUp(q) <=> OrchProofs!GiveUp(q)
  BY DEF Orch!GiveUp, OrchProofs!GiveUp
<1>4. Orch!Prepare(q) <=> OrchProofs!Prepare(q)
  BY SameCounting DEF Orch!Prepare, OrchProofs!Prepare, Orch!Order, OrchProofs!Order
<1>5. Orch!NextCandidate(q) <=> OrchProofs!NextCandidate(q)
  BY DEF Orch!NextCandidate, OrchProofs!NextCandidate
<1>6. Orch!Acquire(q) <=> OrchProofs!Acquire(q)
  BY DEF Orch!Acquire, OrchProofs!Acquire
<1>7. Orch!BreakerGate(q) <=> OrchProofs!BreakerGate(q)
  BY DEF Orch!BreakerGate, OrchProofs!BreakerGate
<1>8. Orch!Send(q) <=> OrchProofs!Send(q)
  BY DEF Orch!Send, OrchProofs!Send
<1>9. Orch!TransportError(q) <=> OrchProofs!TransportError(q)
  BY DEF Orch!TransportError, OrchProofs!TransportError
<1>10. Orch!Respond(q) <=> OrchProofs!Respond(q)
  BY DEF Orch!Respond, OrchProofs!Respond
<1>11. Orch!Headers(q) <=> OrchProofs!Headers(q)
  BY DEF Orch!Headers, OrchProofs!Headers
<1>12. Orch!Body(q) <=> OrchProofs!Body(q)
  BY DEF Orch!Body, OrchProofs!Body
<1>13. Orch!Release(q) <=> OrchProofs!Release(q)
  BY DEF Orch!Release, OrchProofs!Release, Orch!NextOrLeave, OrchProofs!NextOrLeave, Orch!EndsLoop, OrchProofs!EndsLoop
<1>14. Orch!Leave(q) <=> OrchProofs!Leave(q)
  BY DEF Orch!Leave, OrchProofs!Leave
<1> QED BY <1>1, <1>2, <1>3, <1>4, <1>5, <1>6, <1>7, <1>8, <1>9, <1>10, <1>11, <1>12, <1>13, <1>14 DEF Orch!RequestStep, OrchProofs!RequestStep

\* So are the steps of probes, administrators and the clock, ...
LEMMA SameSurroundings ==
  ASSUME NEW d \in Deployments
  PROVE  /\ Orch!Probe(d) <=> OrchProofs!Probe(d)
         /\ Orch!Drain(d) <=> OrchProofs!Drain(d)
         /\ Orch!Resume(d) <=> OrchProofs!Resume(d)
         /\ Orch!CooldownPasses(d) <=> OrchProofs!CooldownPasses(d)
BY DEF Orch!Probe, OrchProofs!Probe, Orch!Drain, OrchProofs!Drain, Orch!Resume, OrchProofs!Resume,
   Orch!CooldownPasses, OrchProofs!CooldownPasses, Orch!poolVars, OrchProofs!poolVars,
   Orch!breakerVars, OrchProofs!breakerVars

\* ... hence all steps, ...
LEMMA SameNext == [Orch!Next]_(Orch!vars) <=> [OrchProofs!Next]_(OrchProofs!vars)
<1>1. Orch!vars = OrchProofs!vars /\ (UNCHANGED Orch!vars <=> UNCHANGED OrchProofs!vars)
  BY DEF Orch!vars, OrchProofs!vars, Orch!poolVars, OrchProofs!poolVars, Orch!breakerVars, OrchProofs!breakerVars
<1>2. Orch!Next <=> OrchProofs!Next
  BY SameContextEnds, SameEnqueue, SameRequestStep, SameSurroundings DEF Orch!Next, OrchProofs!Next, Calls
<1> QED BY <1>1, <1>2

\* ... and the types.
LEMMA SameTypes == Orch!TypeOK <=> OrchProofs!TypeOK
BY DEF Orch!TypeOK, OrchProofs!TypeOK, Orch!RequestRecord, OrchProofs!RequestRecord, Orch!Waiting,
   OrchProofs!Waiting, Orch!Holding, OrchProofs!Holding, Orch!OnNode, OrchProofs!OnNode,
   Orch!Outcomes, OrchProofs!Outcomes

\* The orchestrator's own invariants.
OrchInv == OrchProofs!TypeOK /\ OrchProofs!LoopInv

Idle(q) == req[q].pc \in {"idle", "done"}

\* A step of a call leaves the other calls alone; it begins an idle one and goes
\* on with one that is out.
LEMMA CallStep ==
  ASSUME OrchInv, NEW q \in Calls, Orch!Enqueue(q) \/ Orch!RequestStep(q) \/ Orch!ContextEnds(q)
  PROVE  /\ \A p \in Calls \ {q} : req'[p] = req[p]
         /\ req[q].pc # "done"
         /\ Orch!Enqueue(q) => req[q].pc = "idle" /\ req'[q].pc \in {"queued", "done"}
         /\ Orch!RequestStep(q) => ~Idle(q) /\ req'[q].pc # "idle"
         /\ Orch!RequestStep(q) /\ req'[q].pc = "done" => req[q].pc \in {"queued", "leave"}
         /\ Orch!ContextEnds(q) => ~Idle(q) /\ req'[q].pc = req[q].pc
<1>1. OrchProofs!Enqueue(q) \/ OrchProofs!RequestStep(q) \/ OrchProofs!ContextEnds(q)
  BY SameContextEnds, SameEnqueue, SameRequestStep
<1>2. q \in StepAttempts \cup Direct /\ OrchProofs!TypeOK
  BY DEF Calls, OrchInv
<1>3. \A p \in Calls \ {q} : req'[p] = req[p]
  BY <1>1, <1>2, OrchConstants, OrchProofs!CallAlone DEF Calls
<1>4. /\ OrchProofs!Enqueue(q) => req[q].pc = "idle" /\ req'[q].pc \in {"queued", "done"}
      /\ OrchProofs!RequestStep(q) => req[q].pc \notin {"idle", "done"} /\ req'[q].pc # "idle"
      /\ OrchProofs!RequestStep(q) /\ req'[q].pc = "done" => req[q].pc \in {"queued", "leave"}
      /\ OrchProofs!ContextEnds(q) => req[q].pc \notin {"idle", "done"} /\ req'[q].pc = req[q].pc
  BY <1>2, OrchConstants, OrchProofs!CallProgress
<1> QED BY <1>1, <1>3, <1>4, SameContextEnds, SameEnqueue, SameRequestStep DEF Idle

\* What is sent is sent while the context of the call is live.
LEMMA CallSends ==
  ASSUME OrchInv, NEW q \in Calls, Orch!RequestStep(q), req[q].pc = "send", req'[q].pc = "sent"
  PROVE  req[q].ctx = "live"
<1>1. OrchProofs!RequestStep(q) /\ q \in StepAttempts \cup Direct /\ OrchProofs!TypeOK
  BY SameRequestStep DEF Calls, OrchInv
<1> QED BY <1>1, OrchConstants, OrchProofs!SentWhileLive

\* A call that is answered when it enters, waits or leaves gets one of the codes.
LEMMA CodesAreOutcomes ==
  ASSUME OrchInv, NEW q \in Calls, req[q].pc \in {"idle", "queued", "leave"}
  PROVE  CodeOf(q) \subseteq Outcomes
<1>1. req[q].last \in {"none", "unsent", "unreachable", "reset", "timeout", "busy", "broken", "answer", "fault"}
  BY DEF OrchInv, OrchProofs!TypeOK, OrchProofs!RequestRecord, OrchProofs!Outcomes, Calls
<1> QED BY <1>1 DEF CodeOf, Outcomes

-----------------------------------------------------------------------------
(***************************************************************************)
(* How the attempts of a run follow its goroutine                          *)
(***************************************************************************)

\* An attempt that is out is the one the goroutine waits for; one that is over
\* has its code.  Codes of earlier steps and of the step that is tried are as
\* the Service went on after them.
Link(p) ==
  LET w == runner[p[1]] IN
  /\ ~Idle(p) => w.pc = "exec" /\ p = AttemptOf(p[1])
  /\ reply[p] = None <=> req[p].pc # "done"
  /\ p[2] < w.idx => reply[p] \in {None, "unavailable", "ok"}
  /\ p[2] > w.idx => reply[p] = None
  /\ p[2] = w.idx /\ w.pc \in Untried => reply[p] = None
  /\ p[2] = w.idx /\ w.pc \in Trying /\ ~(w.pc = "exec" /\ p = AttemptOf(p[1])) =>
       reply[p] \in {None, "unavailable"}
  /\ p[2] = w.idx /\ w.pc \in Achieved => reply[p] \in {None, "unavailable", "ok"}

Linked ==
  /\ reply \in [StepAttempts -> Outcomes \cup {None}]
  /\ \A p \in StepAttempts : Link(p)

\* The goroutine waits for an attempt of its own run and step.
LEMMA AttemptTyped ==
  ASSUME TypeInv, NEW r \in Requests, At(r, "exec")
  PROVE  /\ AttemptOf(r) \in StepAttempts /\ AttemptOf(r) \in Calls
         /\ AttemptOf(r)[1] = r /\ AttemptOf(r)[2] = runner[r].idx
<1>1. runner[r] \in RunnerRecord /\ runner[r].idx \in Steps
  BY DEF TypeInv, TypeOK, WellPlaced, At, StepPcs
<1> QED BY <1>1 DEF AttemptOf, StepAttempts, Calls, RunnerRecord

\* What an attempt is known by.
LEMMA RunOfAttempt == ASSUME NEW p \in StepAttempts PROVE p[1] \in Requests /\ p[2] \in Steps /\ p \in Calls
BY DEF StepAttempts, Calls

\* A step of the call keeps the link: the goroutine waits for it meanwhile.
LEMMA LinkAttempt ==
  ASSUME TypeInv, OrchInv, Linked, NEW r \in Requests, AttemptStep(r) \/ AttemptContextEnds(r)
  PROVE  Linked'
<1> DEFINE q == AttemptOf(r)
<1>1. /\ At(r, "exec") /\ UNCHANGED vars
      /\ Orch!Enqueue(q) \/ Orch!RequestStep(q) \/ Orch!ContextEnds(q)
  BY DEF AttemptStep, AttemptContextEnds
<1>2. q \in StepAttempts /\ q \in Calls /\ q[1] = r /\ q[2] = runner[r].idx
  BY <1>1, AttemptTyped
<1> HIDE DEF q
<1>3. /\ \A p \in Calls \ {q} : req'[p] = req[p]
      /\ req[q].pc # "done"
  BY <1>1, <1>2, CallStep
<1>4. UNCHANGED runner
  BY <1>1 DEF vars
<1>5. /\ reply' \in [StepAttempts -> Outcomes \cup {None}]
      /\ \A p \in StepAttempts \ {q} : reply'[p] = reply[p]
      /\ reply'[q] = None <=> req'[q].pc # "done"
  <2>0. reply \in [StepAttempts -> Outcomes \cup {None}] /\ reply[q] = None
    BY <1>2, <1>3 DEF Linked, Link
  <2>1. CASE AttemptContextEnds(r)
    <3>1. UNCHANGED reply /\ Orch!ContextEnds(q)
      BY <2>1 DEF AttemptContextEnds, q
    <3>2. req'[q].pc = req[q].pc
      BY <3>1, <1>2, CallStep
    <3> QED BY <2>0, <3>1, <3>2, <1>3
  <2>2. CASE AttemptStep(r)
    <3>1. Orch!Enqueue(q) \/ Orch!RequestStep(q)
      BY <2>2 DEF AttemptStep, q
    <3>2. CASE req'[q].pc # "done"
      <4>1. UNCHANGED reply
        BY <2>2, <3>2 DEF AttemptStep, q
      <4> QED BY <2>0, <3>2, <4>1
    <3>3. CASE req'[q].pc = "done"
      <4>1. req[q].pc \in {"idle", "queued", "leave"}
        BY <3>1, <3>3, <1>2, CallStep
      <4>2. PICK code \in CodeOf(q) : reply' = [reply EXCEPT ![q] = code]
        BY <2>2, <3>3 DEF AttemptStep, q
      <4>3. code \in Outcomes /\ code # None
        BY <4>1, <4>2, <1>2, CodesAreOutcomes, InferenceConstants
      <4> QED BY <2>0, <1>2, <3>3, <4>2, <4>3
    <3> QED BY <3>2, <3>3
  <2> QED BY <2>1, <2>2, AttemptStep(r) \/ AttemptContextEnds(r)
<1>6. ASSUME NEW p \in StepAttempts PROVE Link(p)'
  <2>0. AttemptOf(p[1])' = AttemptOf(p[1]) /\ Link(p)
    BY <1>4 DEF AttemptOf, Linked
  <2>1. CASE p = q
    <3>1. runner[p[1]].pc = "exec" /\ p = AttemptOf(p[1]) /\ p[2] = runner[p[1]].idx
      BY <2>1, <1>1, <1>2 DEF At, q
    <3>2. runner[p[1]].idx \in Int
      BY <3>1, <1>2, RunOfAttempt DEF Steps
    <3> QED BY <2>0, <2>1, <3>1, <3>2, <1>4, <1>5 DEF Link, Untried, Achieved
  <2>2. CASE p # q
    <3>1. req'[p] = req[p] /\ reply'[p] = reply[p]
      BY <2>2, <1>3, <1>5, RunOfAttempt
    <3> QED BY <2>0, <3>1, <1>4 DEF Link, Idle
  <2> QED BY <2>1, <2>2
<1> QED BY <1>5, <1>6 DEF Linked

\* The goroutine goes on with the code of its attempt.
LEMMA LinkReturns ==
  ASSUME TypeInv, Linked, NEW r \in Requests, AttemptReturns(r)
  PROVE  Linked' /\ Next
<1> DEFINE q == AttemptOf(r)
<1>1. At(r, "exec") /\ req[q].pc = "done" /\ UNCHANGED <<req, reply>>
  BY DEF AttemptReturns, orchVars
<1>2. q \in StepAttempts /\ q[1] = r /\ q[2] = runner[r].idx
  BY <1>1, AttemptTyped
<1>3. PICK tokens \in Usage : ExecReturns(r, reply[q], tokens)
  BY DEF AttemptReturns
<1>4. reply[q] \in Outcomes
  BY <1>1, <1>2 DEF Linked, Link
<1>5. Next
  BY <1>3, <1>4 DEF Next, RunnerStep
<1>0. runner \in [Requests -> RunnerRecord]
  BY DEF TypeInv, TypeOK
<1>6. /\ \A x \in Requests \ {r} : runner'[x] = runner[x]
      /\ runner'[r].idx = runner[r].idx
      /\ runner'[r].pc \in {"succeeded", "attempt", "target", "failed"}
      /\ runner'[r].pc = "succeeded" => reply[q] = "ok"
      /\ runner'[r].pc \in {"attempt", "target"} => reply[q] = "unavailable"
  <2> HIDE DEF q
  <2> QED BY <1>3, <1>0 DEF ExecReturns, AfterAttempt, ToNextTarget, Goto, RunnerRecord, retryable
<1> HIDE DEF q
<1>7. ASSUME NEW p \in StepAttempts PROVE Link(p)'
  <2>0. Link(p) /\ p[1] \in Requests /\ p[2] \in Int
    BY RunOfAttempt DEF Linked, Steps
  <2>1. CASE p[1] # r
    <3>1. AttemptOf(p[1])' = AttemptOf(p[1]) /\ runner'[p[1]] = runner[p[1]]
      BY <2>0, <2>1, <1>6 DEF AttemptOf
    <3> QED BY <2>0, <3>1, <1>1 DEF Link, Idle
  <2>2. CASE p[1] = r
    <3>1. Idle(p)
      BY <2>0, <2>2, <1>1 DEF Link, Idle, q
    <3>2. runner[r].pc = "exec"
      BY <1>1 DEF At
    <3>3. p[2] = runner[r].idx => p = q \/ reply[p] \in {None, "unavailable"}
      BY <2>0, <2>2, <3>2 DEF Link, Trying, q
    <3>4. p[2] = runner[r].idx /\ runner'[r].pc \in {"attempt", "target"} => reply[p] \in {None, "unavailable"}
      BY <3>3, <1>6
    <3>5. p[2] = runner[r].idx /\ runner'[r].pc = "succeeded" => reply[p] \in {None, "unavailable", "ok"}
      BY <3>3, <1>6
    <3> QED BY <2>0, <2>2, <3>1, <3>4, <3>5, <1>1, <1>6 DEF Link, Idle, Untried, Trying, Achieved
  <2> QED BY <2>1, <2>2
<1> QED BY <1>1, <1>5, <1>7 DEF Linked

\* A recorded attempt shows.
LEMMA ReturnsRecords ==
  ASSUME TypeInv, NEW r \in Requests, NEW outcome \in Outcomes, NEW tokens \in Usage,
         ExecReturns(r, outcome, tokens)
  PROVE  tries' # tries
<1>1. tries \in [Requests -> [Steps -> Seq(Outcomes)]] /\ runner[r].idx \in Steps
  BY DEF ExecReturns, TypeInv, TypeOK, WellPlaced, At, StepPcs
<1> DEFINE h == tries[r][runner[r].idx]
<1>2. h \in Seq(Outcomes)
  BY <1>1
<1>3. tries'[r][runner[r].idx] = Append(h, outcome)
  BY <1>1 DEF ExecReturns, Cur
<1> HIDE DEF h
<1>4. Len(Append(h, outcome)) = Len(h) + 1 /\ Len(h) \in Nat
  BY <1>2, AppendFacts
<1> QED BY <1>3, <1>4 DEF h

\* The other steps of the Service are taken outside Execute.
LEMMA LinkService ==
  ASSUME TypeInv, Lifecycle, Linked, ServiceStep
  PROVE  Linked'
<1>0. /\ runner \in [Requests -> RunnerRecord]
      /\ UNCHANGED <<req, reply, tries>> /\ Next
  BY DEF ServiceStep, orchVars, TypeInv, TypeOK
<1>1. ASSUME NEW r \in Requests, RunnerStep(r) PROVE Linked'
  <2>1. ~ \E outcome \in Outcomes, tokens \in Usage : ExecReturns(r, outcome, tokens)
    BY <1>0, ReturnsRecords
  <2>2. AttemptsFrame(r) \/ EmitStepCompleted(r)
    BY <1>1, <2>1, AttemptsUntouched
  <2>3. runner[r].pc # "exec"
    <3> USE DEF At, EmitAndGo, FailRun
    <3>1. CASE ExecuteBegin(r) \/ EmitStarted(r) \/ BudgetExceeded(r) \/ RenderTooLarge(r) \/ BeginStep(r) \/ EmitStepStarted(r)
      BY <3>1 DEF ExecuteBegin, EmitStarted, BudgetExceeded, RenderTooLarge, BeginStep, EmitStepStarted
    <3>2. CASE EmitFallback(r) \/ AbortAttempts(r) \/ FirstAttempt(r) \/ Retry(r) \/ EmitRetrying(r) \/ BackoffOver(r)
      BY <3>2 DEF EmitFallback, AbortAttempts, FirstAttempt, Retry, EmitRetrying, BackoffOver
    <3>3. CASE CompleteStep(r) \/ EmitStepCompleted(r) \/ FailStep(r) \/ EmitStepFailed(r) \/ StopAfterFailure(r)
      BY <3>3 DEF CompleteStep, EmitStepCompleted, FailStep, EmitStepFailed, StopAfterFailure
    <3>4. CASE Interrupt(r) \/ FinishInterrupted(r) \/ CompleteRun(r) \/ EmitTerminal(r) \/ CloseDone(r) \/ ReleaseSlot(r)
      BY <3>4 DEF Interrupt, AtInterruptPoint, FinishInterrupted, CompleteRun, EmitTerminal, CloseDone, ReleaseSlot
    <3> QED BY <1>1, <2>1, <3>1, <3>2, <3>3, <3>4 DEF RunnerStep
  <2>4. RunnerFrame(r)
    BY <1>1, RunnerStepFrame
  <2>5. ASSUME NEW p \in StepAttempts PROVE Link(p)'
    <3>0. Link(p) /\ p[1] \in Requests /\ p[2] \in Int /\ runner[r].idx \in Int
      BY <1>0, RunOfAttempt DEF Linked, Steps, RunnerRecord
    <3>1. CASE p[1] # r
      <4>1. AttemptOf(p[1])' = AttemptOf(p[1]) /\ runner'[p[1]] = runner[p[1]]
        BY <3>0, <3>1, <2>4 DEF AttemptOf, RunnerFrame
      <4> QED BY <3>0, <4>1, <1>0 DEF Link, Idle
    <3>2. CASE p[1] = r /\ AttemptsFrame(r)
      <4>1. Idle(p)
        BY <3>0, <3>2, <2>3 DEF Link
      <4>2. p[2] = runner[r].idx /\ runner'[r].pc \in Trying => reply[p] \in {None, "unavailable"}
        BY <3>0, <3>2, <2>3 DEF Link, AttemptsFrame, At, Untried
      <4> QED BY <3>0, <3>2, <4>1, <4>2, <1>0 DEF Link, Idle, AttemptsFrame
    <3>3. CASE p[1] = r /\ EmitStepCompleted(r)
      <4>1. Idle(p)
        BY <3>0, <3>3, <2>3 DEF Link
      <4>2. runner[r].pc = "completed" /\ runner'[r].pc = "loop" /\ runner'[r].idx = runner[r].idx + 1
        BY <3>3, <1>0 DEF EmitStepCompleted, At, RunnerRecord
      <4>3. p[2] = runner[r].idx => reply[p] \in {None, "unavailable", "ok"}
        BY <3>0, <3>3, <4>2 DEF Link, Achieved
      <4> QED BY <3>0, <3>3, <4>1, <4>2, <4>3, <1>0 DEF Link, Idle, Trying, Achieved
    <3> QED BY <2>2, <3>1, <3>2, <3>3
  <2> QED BY <2>5, <1>0 DEF Linked
<1>2. ASSUME NEW c \in Requests, Spawn(c) PROVE Linked'
  <2>1. runner' = [runner EXCEPT ![c].pc = "begin"] /\ runner[c].pc = "none"
    BY <1>2 DEF Spawn, Goto, Lifecycle
  <2>2. ASSUME NEW p \in StepAttempts PROVE Link(p)'
    <3>0. Link(p) /\ p[1] \in Requests
      BY RunOfAttempt DEF Linked
    <3>1. /\ runner'[p[1]].idx = runner[p[1]].idx
          /\ p[1] # c => runner'[p[1]] = runner[p[1]]
          /\ p[1] = c => runner'[p[1]].pc = "begin"
      BY <2>1, <1>0, <3>0 DEF RunnerRecord
    <3>2. CASE p[1] # c
      <4>1. AttemptOf(p[1])' = AttemptOf(p[1])
        BY <3>1, <3>2 DEF AttemptOf
      <4> QED BY <3>0, <3>1, <3>2, <4>1, <1>0 DEF Link, Idle
    <3>3. CASE p[1] = c
      <4>1. Idle(p)
        BY <3>0, <3>3, <2>1 DEF Link
      <4> QED BY <3>0, <3>1, <3>3, <4>1, <2>1, <1>0 DEF Link, Idle, Untried, Trying, Achieved
    <3> QED BY <3>2, <3>3
  <2> QED BY <2>2, <1>0 DEF Linked
<1>3. ASSUME UNCHANGED runner PROVE Linked'
  <2>1. ASSUME NEW p \in StepAttempts PROVE Link(p)'
    <3>1. Link(p) /\ AttemptOf(p[1])' = AttemptOf(p[1])
      BY <1>3 DEF Linked, AttemptOf
    <3> QED BY <3>1, <1>0, <1>3 DEF Link, Idle
  <2> QED BY <2>1, <1>0 DEF Linked
<1>4. ASSUME NEW c \in Requests,
             StartRun(c) \/ IdemCheck(c) \/ AcquireSlot(c) \/ Create(c) \/ CreateFails(c) \/ IdemRecord(c)
      PROVE  UNCHANGED runner
  BY <1>4 DEF StartRun, IdemCheck, AcquireSlot, Create, CreateFails, IdemRecord
<1>5. CASE \/ \E k \in Keys : IdemExpire(k)
           \/ \E r \in Requests : Deadline(r)
           \/ \E x \in Cancels, r \in Requests : CancelRun(x, r)
           \/ \E x \in Cancels : CancelStep(x)
  BY <1>3, <1>5 DEF IdemExpire, Deadline, CancelRun, CancelStep, CancelFire, CancelEmit
<1> QED BY <1>0, <1>1, <1>2, <1>3, <1>4, <1>5 DEF Next, CallerStep

\* Other calls, probes, drains and the clock touch no attempt.
LEMMA LinkOthers ==
  ASSUME TypeInv, OrchInv, Linked,
         (\E q \in Direct : DirectStep(q)) \/ Surroundings \/ UNCHANGED systemVars
  PROVE  Linked'
<1>1. UNCHANGED <<runner, reply>>
  BY DEF DirectStep, Surroundings, systemVars, vars
<1>2. ASSUME NEW p \in StepAttempts PROVE req'[p] = req[p]
  <2>1. ASSUME NEW q \in Direct, Orch!Enqueue(q) \/ Orch!RequestStep(q) \/ Orch!ContextEnds(q)
        PROVE  req'[p] = req[p]
    <3>1. p \in Calls \ {q} /\ q \in Calls
      BY InferenceConstants DEF Calls
    <3> QED BY <2>1, <3>1, CallStep
  <2>2. ASSUME NEW d \in Deployments, Orch!Probe(d) \/ Orch!Drain(d) \/ Orch!Resume(d) \/ Orch!CooldownPasses(d)
        PROVE  req'[p] = req[p]
    BY <2>2 DEF Orch!Probe, Orch!Drain, Orch!Resume, Orch!CooldownPasses
  <2>3. CASE UNCHANGED systemVars
    BY <2>3 DEF systemVars, orchVars
  <2> QED BY <2>1, <2>2, <2>3 DEF DirectStep, Surroundings
<1>3. ASSUME NEW p \in StepAttempts PROVE Link(p)'
  <2>1. Link(p) /\ AttemptOf(p[1])' = AttemptOf(p[1])
    BY <1>1 DEF Linked, AttemptOf
  <2> QED BY <2>1, <1>1, <1>2 DEF Link, Idle
<1> QED BY <1>1, <1>3 DEF Linked

-----------------------------------------------------------------------------
\* The inductive invariant of the system.
SystemInv == TypeInv /\ Lifecycle /\ StepShape /\ AttemptsRecorded /\ OrchInv /\ Linked

\* Every step of the system is one of the Service's or leaves it alone.
LEMMA ServiceView ==
  ASSUME TypeInv, Linked, [SystemNext]_systemVars
  PROVE  [Next]_vars
<1>1. ASSUME NEW r \in Requests, AttemptReturns(r) PROVE Next
  BY <1>1, LinkReturns
<1> QED BY <1>1 DEF SystemNext, ServiceStep, AttemptStep, AttemptContextEnds, DirectStep, Surroundings, systemVars

\* So is it for the orchestrator.
LEMMA OrchView ==
  ASSUME TypeInv, [SystemNext]_systemVars
  PROVE  [Orch!Next]_(Orch!vars)
<1>1. ASSUME UNCHANGED orchVars PROVE UNCHANGED Orch!vars
  BY <1>1 DEF orchVars, Orch!vars, Orch!poolVars, Orch!breakerVars
<1>2. ASSUME NEW q \in Calls, Orch!Enqueue(q) \/ Orch!RequestStep(q) \/ Orch!ContextEnds(q) PROVE Orch!Next
  BY <1>2 DEF Orch!Next, Calls
<1>3. ASSUME NEW r \in Requests, AttemptStep(r) \/ AttemptContextEnds(r) PROVE Orch!Next
  <2>1. AttemptOf(r) \in Calls
    BY <1>3, AttemptTyped DEF AttemptStep, AttemptContextEnds
  <2>2. Orch!Enqueue(AttemptOf(r)) \/ Orch!RequestStep(AttemptOf(r)) \/ Orch!ContextEnds(AttemptOf(r))
    BY <1>3 DEF AttemptStep, AttemptContextEnds
  <2> QED BY <1>2, <2>1, <2>2
<1>4. CASE (\E q \in Direct : DirectStep(q)) \/ Surroundings
  <2>1. Direct \subseteq Calls
    BY DEF Calls
  <2> QED BY <1>2, <1>4, <2>1 DEF DirectStep, Surroundings, Orch!Next
<1>5. CASE \/ ServiceStep
           \/ \E r \in Requests : AttemptReturns(r)
           \/ UNCHANGED systemVars
  BY <1>1, <1>5 DEF ServiceStep, AttemptReturns, systemVars, orchVars
<1> QED BY <1>3, <1>4, <1>5 DEF SystemNext

\* The system starts as both components do, with no attempt made.
LEMMA SystemInitially == SystemInit => SystemInv /\ Orch!Init
<1> SUFFICES ASSUME SystemInit PROVE SystemInv /\ Orch!Init
  OBVIOUS
<1>1. Init /\ Orch!Init /\ reply = [p \in StepAttempts |-> None]
  BY DEF SystemInit
<1>2. TypeInv /\ Lifecycle /\ StepShape /\ AttemptsRecorded
  <2>1. TypeInv
    BY <1>1, TypingInit
  <2>2. Lifecycle
    BY <1>1, ConstantsAssumption DEF Init, Lifecycle, Terminal
  <2>3. StepShape
    BY <1>1, ConstantsAssumption DEF Init, StepShape, Shape, Finished, Working, Steps
  <2>4. AttemptsRecorded
    BY <1>1, ConstantsAssumption DEF Init, AttemptsRecorded, Attempts, Untried, Trying, Achieved, Steps
  <2> QED BY <2>1, <2>2, <2>3, <2>4
<1>3. OrchInv
  BY <1>1, SameInit, OrchConstants, OrchProofs!OrchestratorInit DEF OrchInv
<1>4. Linked
  <2>1. \A p \in StepAttempts : req[p].pc = "idle"
    BY <1>1 DEF Orch!Init, Orch!Call
  <2> QED BY <1>1, <2>1 DEF Linked, Link, Idle
<1> QED BY <1>1, <1>2, <1>3, <1>4 DEF SystemInv

\* The invariants of both components and the link between them are inductive together.
LEMMA SystemStep == SystemInv /\ [SystemNext]_systemVars => SystemInv'
<1> SUFFICES ASSUME SystemInv, [SystemNext]_systemVars PROVE SystemInv'
  OBVIOUS
<1> USE DEF SystemInv
<1>1. [Next]_vars
  BY ServiceView
<1>2. TypeInv' /\ Lifecycle' /\ StepShape' /\ AttemptsRecorded'
  BY <1>1, TypingStep, LifecycleStep, ShapeStep, AttemptsStep
<1>3. OrchInv'
  <2>1. [OrchProofs!Next]_(OrchProofs!vars)
    BY OrchView, SameNext
  <2> QED BY <2>1, OrchConstants, OrchProofs!OrchestratorStep DEF OrchInv
<1>4. Linked'
  BY LinkAttempt, LinkReturns, LinkService, LinkOthers DEF SystemNext
<1> QED BY <1>2, <1>3, <1>4

\* So they hold always.
LEMMA SystemInvariant == SystemSpec => []SystemInv
BY SystemInitially, SystemStep, PTL DEF SystemSpec

\* Under the orchestrator the Service behaves as WorkflowRun says, so that every
\* theorem about it holds of the two together: what WorkflowRun lets Execute
\* answer is all that it can answer.
THEOREM SystemRunsService == SystemSpec => Spec
<1>1. SystemInit => Init
  BY DEF SystemInit
<1>2. SystemInv /\ [SystemNext]_systemVars => [Next]_vars
  BY ServiceView DEF SystemInv
<1> QED BY <1>1, <1>2, SystemInvariant, PTL DEF SystemSpec, Spec

\* With the Service as its client the orchestrator behaves as Orchestrator says.
THEOREM SystemRunsOrchestrator == SystemSpec => Orch!Spec
<1>1. SystemInit => Orch!Init
  BY SystemInitially
<1>2. SystemInv /\ [SystemNext]_systemVars => [Orch!Next]_(Orch!vars)
  BY OrchView DEF SystemInv
<1> QED BY <1>1, <1>2, SystemInvariant, PTL DEF SystemSpec, Orch!Spec

\* What the contract of RunContract promises, the system keeps.
THEOREM SystemKeepsContract == SystemSpec => ImplementsContract
BY SystemRunsService, RefinesContract, PTL

\* The types of both components, and of the answers.
THEOREM SystemTypes == SystemSpec => []SystemTypeOK
<1>1. SystemInv => SystemTypeOK
  BY SameTypes DEF SystemInv, SystemTypeOK, TypeInv, OrchInv, Linked
<1> QED BY <1>1, SystemInvariant, PTL

\* orchestrator.go 285-287 and service.go 537-540 together: whatever the two retry,
\* nothing is sent to a runtime for a step that was answered or timed out.
THEOREM NothingMoreIsSent == SystemSpec => []NothingAfterAnswerOrTimeout
<1>1. ASSUME SystemInv, NEW p \in StepAttempts, NEW q \in StepAttempts,
             req[q].pc \in Asking, p[1] = q[1]
      PROVE  /\ p # q => req[p].pc \in {"idle", "done"}
             /\ p[2] = q[2] => ~AnsweredOrTimedOut(p)
             /\ p[2] < q[2] => reply[p] \notin {"timeout", "rejected"}
  <2> USE <1>1
  <2>1. Link(p) /\ Link(q) /\ p[1] \in Requests /\ q[2] \in Int
    BY RunOfAttempt DEF SystemInv, Linked, Steps
  <2>2. ~Idle(q) /\ None \notin Outcomes
    BY InferenceConstants DEF Idle, Asking, Orch!Waiting
  <2>3. runner[q[1]].pc = "exec" /\ q = AttemptOf(q[1]) /\ q[2] = runner[q[1]].idx /\ reply[q] = None
    BY <2>1, <2>2 DEF Link, AttemptOf, Idle
  <2>4. p # q => Idle(p)
    BY <2>1, <2>3 DEF Link
  <2>5. p # q => req[p].last = "none"
    BY <2>4, RunOfAttempt DEF SystemInv, OrchInv, OrchProofs!LoopInv, Idle, Calls
  <2>6. req[q].last \notin {"timeout", "answer", "fault"}
    BY RunOfAttempt DEF SystemInv, OrchInv, OrchProofs!LoopInv, OrchProofs!NoFailoverAfterTimeout,
       Asking, Orch!Waiting, OrchProofs!Waiting, Calls
  <2>7. p[2] = q[2] => ~AnsweredOrTimedOut(p)
    BY <2>1, <2>2, <2>3, <2>5, <2>6 DEF Link, AnsweredOrTimedOut, Trying, Outcomes
  <2>8. p[2] < q[2] => reply[p] \notin {"timeout", "rejected"}
    BY <2>1, <2>2, <2>3 DEF Link, Outcomes
  <2> QED BY <2>4, <2>7, <2>8 DEF Idle
<1>2. SystemInv => NothingAfterAnswerOrTimeout
  BY <1>1 DEF NothingAfterAnswerOrTimeout
<1> QED BY <1>2, SystemInvariant, PTL

-----------------------------------------------------------------------------
\* A CancelRun call that had a cancelFn to call has ended the context.
CancelHeard ==
  \A x \in Cancels :
    /\ canceller[x].pc = "idle" => ~canceller[x].fn
    /\ canceller[x].fn /\ canceller[x].pc \in {"emit", "returned"} => ctx[canceller[x].run] # "live"

\* A context never comes to life again, and CancelFire ends it.
LEMMA CancelHeardStep == TypeInv /\ CancelHeard /\ [Next]_vars => CancelHeard'
<1> SUFFICES ASSUME TypeInv, CancelHeard, [Next]_vars PROVE CancelHeard'
  OBVIOUS
<1>0. /\ canceller \in [Cancels -> CancelRecord]
      /\ ctx \in [Requests -> {"live", "canceled", "deadline"}]
      /\ WellPlaced
  BY DEF TypeInv, TypeOK
<1>1. ASSUME UNCHANGED <<ctx, canceller>> PROVE CancelHeard'
  BY <1>1 DEF CancelHeard
<1>2. ASSUME NEW x \in Cancels, NEW r \in Requests, CancelRun(x, r) PROVE CancelHeard'
  BY <1>2, <1>0 DEF CancelRun, ctxVars, CancelHeard, CancelRecord
<1>3. ASSUME NEW x \in Cancels, CancelFire(x) PROVE CancelHeard'
  BY <1>3, <1>0 DEF CancelFire, CancelHeard, CancelRecord, WellPlaced
<1>4. ASSUME NEW x \in Cancels, CancelEmit(x) PROVE CancelHeard'
  BY <1>4, <1>0 DEF CancelEmit, ctxVars, CancelHeard, CancelRecord
<1>5. ASSUME NEW r \in Requests, Deadline(r) PROVE CancelHeard'
  BY <1>5, <1>0 DEF Deadline, CancelHeard
<1>6. ASSUME NEW r \in Requests, RunnerStep(r) PROVE UNCHANGED <<ctx, canceller>>
  BY <1>6, RunnerVerdict DEF VerdictFrame
<1>7. ASSUME NEW c \in Requests, StartRun(c) \/ CallerStep(c) PROVE UNCHANGED <<ctx, canceller>>
  BY <1>7 DEF StartRun, CallerStep, IdemCheck, AcquireSlot, Create, CreateFails, IdemRecord, Spawn, ctxVars
<1>8. CASE (\E k \in Keys : IdemExpire(k)) \/ UNCHANGED vars
  BY <1>1, <1>8 DEF IdemExpire, vars, ctxVars
<1> QED BY <1>1, <1>2, <1>3, <1>4, <1>5, <1>6, <1>7, <1>8 DEF Next, CancelStep

\* service.go 290-310: a CancelRun that found a cancelFn has, once it called it,
\* stopped the run's inference for good, wherever its attempt was.
THEOREM CancelStops == SystemSpec => CancelStopsInference
<1>1. ASSUME SystemInv, CancelHeard, SystemNext, NEW q \in StepAttempts, CancelFired(q[1]),
             req[q].pc = "send", req'[q].pc = "sent"
      PROVE  FALSE
  <2> USE <1>1
  <2>1. q \in Calls /\ q[1] \in Requests /\ Link(q)
    BY RunOfAttempt DEF SystemInv, Linked
  <2>2. runner[q[1]].pc = "exec" /\ q = AttemptOf(q[1]) /\ ctx[q[1]] # "live"
    BY <2>1 DEF Link, Idle, CancelFired, CancelHeard
  <2>3. \A c \in Calls \ {q} : Orch!Enqueue(c) \/ Orch!RequestStep(c) \/ Orch!ContextEnds(c) => req'[q] = req[q]
    BY <2>1, CallStep DEF SystemInv
  <2>4. ASSUME NEW r \in Requests, AttemptStep(r) \/ AttemptContextEnds(r) PROVE AttemptStep(r) /\ r = q[1]
    <3>1. At(r, "exec")
      BY <2>4 DEF AttemptStep, AttemptContextEnds
    <3>2. AttemptOf(r) \in Calls /\ AttemptOf(r)[1] = r
      BY <3>1, AttemptTyped DEF SystemInv
    <3>3. Orch!Enqueue(AttemptOf(r)) \/ Orch!RequestStep(AttemptOf(r)) \/ Orch!ContextEnds(AttemptOf(r))
      BY <2>4 DEF AttemptStep, AttemptContextEnds
    <3>4. AttemptOf(r) = q
      BY <2>3, <3>2, <3>3
    <3>5. ~Orch!ContextEnds(q)
      BY <2>1, CallStep DEF SystemInv
    <3> QED BY <2>4, <3>2, <3>4, <3>5 DEF AttemptContextEnds
  <2>5. ASSUME AttemptStep(q[1]) PROVE FALSE
    <3>1. ~Orch!Enqueue(q)
      BY <2>1, CallStep DEF SystemInv
    <3>2. Orch!RequestStep(q) /\ req[q].ctx # "live"
      BY <2>2, <2>5, <3>1 DEF AttemptStep, ContextFollows
    <3> QED BY <2>1, <3>2, CallSends DEF SystemInv
  <2>6. ASSUME NEW c \in Direct, Orch!Enqueue(c) \/ Orch!RequestStep(c) \/ Orch!ContextEnds(c) PROVE FALSE
    <3>1. c \in Calls \ {q}
      BY InferenceConstants DEF Calls
    <3> QED BY <2>3, <2>6, <3>1
  <2>7. req' # req
    OBVIOUS
  <2>8. ASSUME NEW d \in Deployments, Orch!Probe(d) \/ Orch!Drain(d) \/ Orch!Resume(d) \/ Orch!CooldownPasses(d)
        PROVE  FALSE
    BY <2>7, <2>8 DEF Orch!Probe, Orch!Drain, Orch!Resume, Orch!CooldownPasses
  <2> QED BY <2>4, <2>5, <2>6, <2>7, <2>8 DEF SystemNext, ServiceStep, AttemptReturns, DirectStep, Surroundings, orchVars
<1>2. Init => CancelHeard
  BY DEF Init, CancelHeard
<1>3. SystemInv /\ [SystemNext]_systemVars => TypeInv /\ [Next]_vars
  BY ServiceView DEF SystemInv
<1>4. SystemInit => Init
  BY DEF SystemInit
<1>5. SystemInv /\ CancelHeard /\ [SystemNext]_systemVars =>
        [\A q \in StepAttempts : CancelFired(q[1]) => ~(req[q].pc = "send" /\ req'[q].pc = "sent")]_systemVars
  BY <1>1
<1> QED BY <1>2, <1>3, <1>4, <1>5, CancelHeardStep, SystemInvariant, PTL DEF SystemSpec, CancelStopsInference
=============================================================================
