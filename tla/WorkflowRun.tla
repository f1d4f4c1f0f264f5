---------------------------- MODULE WorkflowRun ----------------------------
(***************************************************************************)
(* Life of the workflow runs of one platform/workflow Service.             *)
(*                                                                         *)
(* Three kinds of goroutine meet on the RunStore:                          *)
(*   - a StartRun call (an HTTP handler), which looks up the idempotency   *)
(*     key, takes a slot of the semaphore, creates the run and spawns      *)
(*   - the execute goroutine of the run, which walks the steps of the      *)
(*     flow, attempt by attempt, and settles the run, and                  *)
(*   - CancelRun calls.                                                    *)
(* The RunStore mutex is held for one Create / Update / Emit / IdemCheck / *)
(* IdemRecord at a time, never across two of them, so every such section   *)
(* is an action here and anything may happen between two of them.          *)
(*                                                                         *)
(* A run has the identity of the StartRun call that creates it.  The flow  *)
(* is a published one, so templates resolve (only the size limit of a      *)
(* rendered input can fail a step) and its shape is a constant.            *)
(***************************************************************************)
EXTENDS Integers, Sequences, FiniteSets

CONSTANTS
  Requests,           \* StartRun calls; also the identities of their runs
  Cancels,            \* CancelRun calls
  Keys,               \* idempotency keys (hash of Virtual Key and header)
  NoKey,              \* the call carries no Idempotency-Key
  Payloads,           \* payload checksums
  None,               \* no value
  NSteps,             \* steps of the flow
  NTargets,           \* primary pool and the approved fallback pools
  MaxAttempts,        \* retry_policy.max_attempts, per target
  MaxConcurrentRuns,  \* capacity of the semaphore
  MaxTotalTokens,     \* limits.max_total_tokens, 0 = no limit
  Usage,              \* token counts one successful attempt can report
  DiskMayFail,        \* whether persisting a new run may fail
  KeysExpire          \* whether the 24h TTL of a key may pass

Errors == {"idempotency_conflict", "workflow_capacity_exhausted",
           "workflow_internal_error"}

ASSUME ConstantsAssumption ==
  /\ IsFiniteSet(Requests)
  /\ NoKey \notin Keys
  /\ None \notin Requests
  /\ Requests \cap Errors = {}
  /\ NSteps \in Nat \ {0}
  /\ NTargets \in Nat \ {0}
  /\ MaxAttempts \in Nat \ {0}
  /\ MaxConcurrentRuns \in Nat \ {0}
  /\ MaxTotalTokens \in Nat
  /\ Usage \subseteq Nat
  /\ DiskMayFail \in BOOLEAN
  /\ KeysExpire \in BOOLEAN

Steps == 1..NSteps

RunStatus == {"ABSENT", "QUEUED", "RUNNING", "CANCELLING",
              "COMPLETED", "FAILED", "CANCELLED", "TIMED_OUT"}
StepStatus == {"PENDING", "RUNNING", "RETRYING", "COMPLETED",
               "FAILED", "SKIPPED", "CANCELLED", "TIMED_OUT"}

Terminal(st) == st \in {"COMPLETED", "FAILED", "CANCELLED", "TIMED_OUT"}

\* What Executor.Execute answers, as runStep tells the codes apart: success,
\* inference_timeout, a retryable code (capacity, model, platform not ready),
\* anything else.
Outcomes == {"ok", "timeout", "unavailable", "rejected"}

\* (mutant) a Step Timeout is tried again
RetryTimeoutsToo(outcome) == outcome \in {"unavailable", "timeout"}

retryable(outcome) == outcome = "unavailable"

TerminalEvents == {"completed", "failed", "cancelled"}
Events == TerminalEvents \cup
          {"queued", "started", "step.started", "fallback.selected",
           "step.retrying", "step.failed", "step.completed", "cancelling"}

VARIABLES
  caller,     \* StartRun calls: program counter, arguments, answer
  idem,       \* RunStore.idem: key -> run and payload, or None
  sem,        \* filled slots of Service.sem
  status,     \* Run.Status
  step,       \* Run.Steps[i].Status
  tries,      \* Run.Steps[i].Decisions: outcomes of the recorded attempts
  used,       \* tokens recorded in Run.Steps, all steps together
  total,      \* Run.InputTokens + OutputTokens
  events,     \* Run.events: types, in sequence order
  done,       \* Run.done is closed
  ctx,        \* the run context: live, canceled or past its deadline
  cancelFn,   \* Run.cancelFn is set
  runner,     \* locals of the execute goroutine
  canceller   \* locals of the CancelRun calls

stepVars   == <<step, tries, used>>
runVars    == <<status, stepVars, total>>
signalVars == <<events, done>>
ctxVars    == <<ctx, cancelFn>>
startVars  == <<caller, idem>>
vars == <<startVars, sem, runVars, signalVars, ctxVars, runner, canceller>>

CallerPc == {"idle", "check", "acquire", "create", "record", "queue", "answered"}
RunnerPc == {"none", "begin", "started", "loop", "starting", "target", "attempt",
             "retrying", "backoff", "exec", "succeeded", "completed", "failed",
             "stepfailed", "failing", "interrupted", "settled", "announced",
             "closed", "ended"}
CancelPc == {"idle", "fire", "emit", "returned"}

(***************************************************************************)
(* Helpers on one entry of a function                                      *)
(***************************************************************************)
Emit(r, e) == events' = [events EXCEPT ![r] = Append(@, e)]
Goto(r, pc) == runner' = [runner EXCEPT ![r].pc = pc]
At(r, pc) == runner[r].pc = pc
Cur(r) == runner[r].idx
SetStep(r, i, st) == step' = [step EXCEPT ![r][i] = st]
Answer(c, a) == caller' = [caller EXCEPT ![c].pc = "answered", ![c].answer = a]
Call(c, pc) == caller' = [caller EXCEPT ![c].pc = pc]

Init ==
  /\ caller = [c \in Requests |-> [pc |-> "idle", key |-> NoKey,
                                   payload |-> None, answer |-> None]]
  /\ idem = [k \in Keys |-> None]
  /\ sem = 0
  /\ status = [r \in Requests |-> "ABSENT"]
  /\ step = [r \in Requests |-> [i \in Steps |-> "PENDING"]]
  /\ tries = [r \in Requests |-> [i \in Steps |-> <<>>]]
  /\ used = [r \in Requests |-> 0]
  /\ total = [r \in Requests |-> 0]
  /\ events = [r \in Requests |-> <<>>]
  /\ done = [r \in Requests |-> FALSE]
  /\ ctx = [r \in Requests |-> "live"]
  /\ cancelFn = [r \in Requests |-> FALSE]
  /\ runner = [r \in Requests |-> [pc |-> "none", idx |-> 1, target |-> 1,
                                   attempt |-> 1, stepUse |-> 0, spent |-> 0,
                                   verdict |-> "CANCELLED"]]
  /\ canceller = [x \in Cancels |-> [pc |-> "idle", run |-> None, fn |-> FALSE]]

-----------------------------------------------------------------------------
(***************************************************************************)
(* StartRun                                                                *)
(***************************************************************************)

\* The flow resolves and the inputs are valid; a call without a key skips the
\* idempotency table.  (Calls refused before this point change nothing.)
StartRun(c) ==
  /\ caller[c].pc = "idle"
  /\ \E k \in Keys \cup {NoKey}, p \in Payloads :
       caller' = [caller EXCEPT
         ![c] = [@ EXCEPT !.pc = IF k = NoKey THEN "acquire" ELSE "check",
                          !.key = k, !.payload = p]]
  /\ UNCHANGED <<idem, sem, runVars, signalVars, ctxVars, runner, canceller>>

\* A remembered key with another payload is a conflict.
NoConflict(c) == FALSE   \* (mutant)
Conflict(c) == idem[caller[c].key].payload # caller[c].payload

\* IdemCheck and, on a hit, Get: a remembered run is answered as it is.
IdemCheck(c) ==
  LET entry == idem[caller[c].key] IN
  /\ caller[c].pc = "check"
  /\ \/ /\ entry = None
        /\ Call(c, "acquire")
     \/ /\ entry # None
        /\ Conflict(c)
        /\ Answer(c, "idempotency_conflict")
     \/ /\ entry # None
        /\ ~Conflict(c)
        /\ Answer(c, entry.run)
  /\ UNCHANGED <<idem, sem, runVars, signalVars, ctxVars, runner, canceller>>

\* The semaphore is taken without waiting: a full one refuses the call.
AcquireSlot(c) ==
  /\ caller[c].pc = "acquire"
  /\ \/ /\ sem < MaxConcurrentRuns
        /\ sem' = sem + 1
        /\ Call(c, "create")
     \/ /\ sem >= MaxConcurrentRuns
        /\ Answer(c, "workflow_capacity_exhausted")
        /\ UNCHANGED sem
  /\ UNCHANGED <<idem, runVars, signalVars, ctxVars, runner, canceller>>

\* RunStore.Create registers the run before it persists it.
Create(c) ==
  /\ caller[c].pc = "create"
  /\ status' = [status EXCEPT ![c] = "QUEUED"]
  /\ Call(c, IF caller[c].key = NoKey THEN "queue" ELSE "record")
  /\ UNCHANGED <<idem, sem, stepVars, total, signalVars, ctxVars, runner, canceller>>

\* (mutant) a run that cannot be persisted keeps the slot
CreateFailsKeepsSlot(c) ==
  /\ DiskMayFail
  /\ caller[c].pc = "create"
  /\ status' = [status EXCEPT ![c] = "QUEUED"]
  /\ Answer(c, "workflow_internal_error")
  /\ UNCHANGED <<idem, sem, stepVars, total, signalVars, ctxVars, runner, canceller>>

\* When the write fails the slot is given back and the call is refused; the
\* run stays in the store, QUEUED, and no goroutine will ever execute it.
CreateFails(c) ==
  /\ DiskMayFail
  /\ caller[c].pc = "create"
  /\ status' = [status EXCEPT ![c] = "QUEUED"]
  /\ sem' = sem - 1
  /\ Answer(c, "workflow_internal_error")
  /\ UNCHANGED <<idem, stepVars, total, signalVars, ctxVars, runner, canceller>>

IdemRecord(c) ==
  /\ caller[c].pc = "record"
  /\ idem' = [idem EXCEPT ![caller[c].key] = [run |-> c, payload |-> caller[c].payload]]
  /\ Call(c, "queue")
  /\ UNCHANGED <<sem, runVars, signalVars, ctxVars, runner, canceller>>

\* The queued event, then "go execute" and the answer.
Spawn(c) ==
  /\ caller[c].pc = "queue"
  /\ Emit(c, "queued")
  /\ Goto(c, "begin")
  /\ Answer(c, c)
  /\ UNCHANGED <<idem, sem, runVars, done, ctxVars, canceller>>

\* idemTTL passes for a key.
IdemExpire(k) ==
  /\ KeysExpire
  /\ idem[k] # None
  /\ idem' = [idem EXCEPT ![k] = None]
  /\ UNCHANGED <<caller, sem, runVars, signalVars, ctxVars, runner, canceller>>

-----------------------------------------------------------------------------
(***************************************************************************)
(* execute: the goroutine of run r                                         *)
(***************************************************************************)

\* A step of the goroutine that only emits event e and moves on.
EmitAndGo(r, from, e, to) ==
  /\ At(r, from)
  /\ Emit(r, e)
  /\ Goto(r, to)
  /\ UNCHANGED <<startVars, sem, runVars, done, ctxVars, canceller>>

\* The status is overwritten whatever it is; from here on CancelRun finds a
\* cancelFn.
ExecuteBegin(r) ==
  /\ At(r, "begin")
  /\ status' = [status EXCEPT ![r] = "RUNNING"]
  /\ cancelFn' = [cancelFn EXCEPT ![r] = TRUE]
  /\ Goto(r, "started")
  /\ UNCHANGED <<startVars, sem, stepVars, total, signalVars, ctx, canceller>>

\* (mutant) RUNNING is set with the event, after the cancelFn is there
EmitStartedRunning(r) ==
  /\ At(r, "started")
  /\ Emit(r, "started")
  /\ status' = [status EXCEPT ![r] = "RUNNING"]
  /\ Goto(r, "loop")
  /\ UNCHANGED <<startVars, sem, stepVars, total, done, ctxVars, canceller>>

EmitStarted(r) == EmitAndGo(r, "started", "started", "loop")

\* limits.timeout_ms passes.
Deadline(r) ==
  /\ runner[r].pc \notin {"none", "begin", "ended"}
  /\ ctx[r] = "live"
  /\ ctx' = [ctx EXCEPT ![r] = "deadline"]
  /\ UNCHANGED <<startVars, sem, runVars, signalVars, cancelFn, runner, canceller>>

SkipNothing(list, next) == list   \* (mutant)
SkipFrom(list, next) ==
  [i \in Steps |-> IF i >= next /\ list[i] = "PENDING" THEN "SKIPPED" ELSE list[i]]

UsageOfSteps(r) == used[r]

\* failRun: steps from next on that never ran are SKIPPED and the tokens of
\* all steps are added up.
FailRun(r, next) ==
  /\ status' = [status EXCEPT ![r] = "FAILED"]
  /\ step' = [step EXCEPT ![r] = SkipFrom(@, next)]
  /\ total' = [total EXCEPT ![r] = UsageOfSteps(r)]
  /\ Goto(r, "settled")
  /\ UNCHANGED <<startVars, sem, tries, used, signalVars, ctxVars, canceller>>

OverBudget(r) == MaxTotalTokens > 0 /\ runner[r].spent >= MaxTotalTokens

\* The head of the step loop: budget, context, rendered size, in this order.
BudgetExceeded(r) ==
  /\ At(r, "loop") /\ Cur(r) \in Steps
  /\ OverBudget(r)
  /\ FailRun(r, Cur(r))

RenderTooLarge(r) ==
  /\ At(r, "loop") /\ Cur(r) \in Steps
  /\ ~OverBudget(r) /\ ctx[r] = "live"
  /\ FailRun(r, Cur(r))

BeginStep(r) ==
  /\ At(r, "loop") /\ Cur(r) \in Steps
  /\ ~OverBudget(r) /\ ctx[r] = "live"
  /\ SetStep(r, Cur(r), "RUNNING")
  /\ Goto(r, "starting")
  /\ UNCHANGED <<startVars, sem, status, tries, used, total, signalVars, ctxVars, canceller>>

\* runStep starts with the primary target.
EmitStepStarted(r) ==
  /\ At(r, "starting")
  /\ Emit(r, "step.started")
  /\ runner' = [runner EXCEPT ![r].pc = "attempt", ![r].target = 1, ![r].attempt = 1]
  /\ UNCHANGED <<startVars, sem, runVars, done, ctxVars, canceller>>

EmitFallback(r) == EmitAndGo(r, "target", "fallback.selected", "attempt")

\* The context is examined before each attempt and while backing off.
AbortAttempts(r) ==
  /\ runner[r].pc \in {"attempt", "backoff"}
  /\ ctx[r] # "live"
  /\ Goto(r, "failed")
  /\ UNCHANGED <<startVars, sem, runVars, signalVars, ctxVars, canceller>>

FirstAttempt(r) ==
  /\ At(r, "attempt")
  /\ ctx[r] = "live"
  /\ tries[r][Cur(r)] = <<>>
  /\ Goto(r, "exec")
  /\ UNCHANGED <<startVars, sem, runVars, signalVars, ctxVars, canceller>>

Retry(r) ==
  /\ At(r, "attempt")
  /\ ctx[r] = "live"
  /\ tries[r][Cur(r)] # <<>>
  /\ SetStep(r, Cur(r), "RETRYING")
  /\ Goto(r, "retrying")
  /\ UNCHANGED <<startVars, sem, status, tries, used, total, signalVars, ctxVars, canceller>>

EmitRetrying(r) == EmitAndGo(r, "retrying", "step.retrying", "backoff")

\* The timer and the context may both be ready: then either is chosen.
BackoffOver(r) ==
  /\ At(r, "backoff")
  /\ Goto(r, "exec")
  /\ UNCHANGED <<startVars, sem, runVars, signalVars, ctxVars, canceller>>

HasNextTarget(r) == runner[r].target < NTargets

ToNextTarget(r) == runner' = [runner EXCEPT ![r].pc = "target", ![r].attempt = 1,
                                            ![r].target = @ + 1]

\* Where runStep goes after an attempt: on success out, after a retryable code
\* to the next attempt or, these exhausted, to the next target, else out.
AfterAttempt(r, outcome, tokens) ==
  LET lastAttempt == runner[r].attempt = MaxAttempts IN
  \/ /\ outcome = "ok"
     /\ runner' = [runner EXCEPT ![r].pc = "succeeded", ![r].stepUse = tokens]
  \/ /\ retryable(outcome) /\ ~lastAttempt
     /\ runner' = [runner EXCEPT ![r].pc = "attempt", ![r].attempt = @ + 1]
  \/ /\ retryable(outcome) /\ lastAttempt /\ HasNextTarget(r)
     /\ ToNextTarget(r)
  \/ /\ outcome # "ok"
     /\ retryable(outcome) => lastAttempt /\ ~HasNextTarget(r)
     /\ Goto(r, "failed")

\* Execute answers (it may do so after the context ended) and the attempt is
\* recorded with its usage.
ExecReturns(r, outcome, tokens) ==
  /\ At(r, "exec")
  /\ tries' = [tries EXCEPT ![r][Cur(r)] = Append(@, outcome)]
  /\ used' = [used EXCEPT ![r] = IF outcome = "ok" THEN @ + tokens ELSE @]
  /\ AfterAttempt(r, outcome, tokens)
  /\ UNCHANGED <<startVars, sem, status, step, total, signalVars, ctxVars, canceller>>

CompleteStep(r) ==
  /\ At(r, "succeeded")
  /\ SetStep(r, Cur(r), "COMPLETED")
  /\ runner' = [runner EXCEPT ![r].pc = "completed", ![r].spent = @ + runner[r].stepUse]
  /\ UNCHANGED <<startVars, sem, status, tries, used, total, signalVars, ctxVars, canceller>>

EmitStepCompleted(r) ==
  /\ At(r, "completed")
  /\ Emit(r, "step.completed")
  /\ runner' = [runner EXCEPT ![r].pc = "loop", ![r].idx = @ + 1]
  /\ UNCHANGED <<startVars, sem, runVars, done, ctxVars, canceller>>

\* A failed step of a run whose context is live: STOP.
LastOutcome(r) == LET h == tries[r][Cur(r)] IN h[Len(h)]

FailStep(r) ==
  /\ At(r, "failed")
  /\ ctx[r] = "live"
  /\ SetStep(r, Cur(r), IF LastOutcome(r) = "timeout" THEN "TIMED_OUT" ELSE "FAILED")
  /\ Goto(r, "stepfailed")
  /\ UNCHANGED <<startVars, sem, status, tries, used, total, signalVars, ctxVars, canceller>>

EmitStepFailed(r) == EmitAndGo(r, "stepfailed", "step.failed", "failing")

StopAfterFailure(r) ==
  /\ At(r, "failing")
  /\ FailRun(r, Cur(r) + 1)

\* The context is found ended before a step or after a failed one.
BeforeStepOnly(r) == At(r, "loop") /\ Cur(r) \in Steps /\ ~OverBudget(r)   \* (mutant)
AtInterruptPoint(r) ==
  \/ At(r, "loop") /\ Cur(r) \in Steps /\ ~OverBudget(r)
  \/ At(r, "failed")

AlwaysCancelled(r) == "CANCELLED"   \* (mutant)
Verdict(r) == IF status[r] = "CANCELLING" \/ ctx[r] = "canceled" THEN "CANCELLED" ELSE "TIMED_OUT"

\* finishInterrupted reads Run.Status without the lock, then settles the run.
Interrupt(r) ==
  /\ AtInterruptPoint(r)
  /\ ctx[r] # "live"
  /\ runner' = [runner EXCEPT ![r].pc = "interrupted", ![r].verdict = Verdict(r)]
  /\ UNCHANGED <<startVars, sem, runVars, signalVars, ctxVars, canceller>>

FinishInterrupted(r) ==
  /\ At(r, "interrupted")
  /\ status' = [status EXCEPT ![r] = runner[r].verdict]
  /\ step' = [step EXCEPT ![r] = [i \in Steps |->
       IF i < Cur(r) THEN @[i]
       ELSE IF @[i] = "PENDING" THEN "SKIPPED"
       ELSE IF @[i] \in {"RUNNING", "RETRYING"} THEN "CANCELLED" ELSE @[i]]]
  /\ Goto(r, "settled")
  /\ UNCHANGED <<startVars, sem, tries, used, total, signalVars, ctxVars, canceller>>

\* After the last step the context is not examined again.
CompleteRun(r) ==
  /\ At(r, "loop") /\ Cur(r) = NSteps + 1
  /\ status' = [status EXCEPT ![r] = "COMPLETED"]
  /\ total' = [total EXCEPT ![r] = runner[r].spent]
  /\ Goto(r, "settled")
  /\ UNCHANGED <<startVars, sem, stepVars, signalVars, ctxVars, canceller>>

TerminalEvent(st) ==
  CASE st = "COMPLETED" -> "completed"
    [] st = "CANCELLED" -> "cancelled"
    [] OTHER            -> "failed"

\* (mutant) a path that forgets close(run.done)
EmitTerminalForgetsDone(r) == EmitAndGo(r, "settled", TerminalEvent(status[r]), "closed")

EmitTerminal(r) == EmitAndGo(r, "settled", TerminalEvent(status[r]), "announced")

CloseDone(r) ==
  /\ At(r, "announced")
  /\ done' = [done EXCEPT ![r] = TRUE]
  /\ Goto(r, "closed")
  /\ UNCHANGED <<startVars, sem, runVars, events, ctxVars, canceller>>

\* The deferred release, after done.
ReleaseSlot(r) ==
  /\ At(r, "closed")
  /\ sem' = sem - 1
  /\ Goto(r, "ended")
  /\ UNCHANGED <<startVars, runVars, signalVars, ctxVars, canceller>>

-----------------------------------------------------------------------------
(***************************************************************************)
(* CancelRun                                                               *)
(***************************************************************************)

CancelIsNeverLate(r) == FALSE   \* (mutant)
CancelIsLate(r) == Terminal(status[r])

\* Under the lock: a settled run is left alone, any other becomes CANCELLING
\* and its cancelFn, if it has one yet, is taken.
CancelRun(x, r) ==
  /\ canceller[x].pc = "idle"
  /\ status[r] # "ABSENT"
  /\ IF CancelIsLate(r)
     THEN /\ canceller' = [canceller EXCEPT ![x].pc = "returned"]
          /\ UNCHANGED status
     ELSE /\ canceller' = [canceller EXCEPT ![x] = [pc |-> "fire", run |-> r, fn |-> cancelFn[r]]]
          /\ status' = [status EXCEPT ![r] = "CANCELLING"]
  /\ UNCHANGED <<startVars, sem, stepVars, total, signalVars, ctxVars, runner>>

\* cancelFn and Executor.Cancel, outside the lock.  Both only make the attempt
\* in flight return, which ExecReturns may do at any time.
CancelFire(x) ==
  LET r == canceller[x].run IN
  /\ canceller[x].pc = "fire"
  /\ ctx' = IF canceller[x].fn /\ ctx[r] = "live"
            THEN [ctx EXCEPT ![r] = "canceled"] ELSE ctx
  /\ canceller' = [canceller EXCEPT ![x].pc = "emit"]
  /\ UNCHANGED <<startVars, sem, runVars, signalVars, cancelFn, runner>>

CancelEmit(x) ==
  /\ canceller[x].pc = "emit"
  /\ Emit(canceller[x].run, "cancelling")
  /\ canceller' = [canceller EXCEPT ![x].pc = "returned"]
  /\ UNCHANGED <<startVars, sem, runVars, done, ctxVars, runner>>

-----------------------------------------------------------------------------
CallerStep(c) ==
  IdemCheck(c) \/ AcquireSlot(c) \/ Create(c) \/ CreateFails(c) \/ IdemRecord(c) \/ Spawn(c)

RunnerStep(r) ==
  \/ ExecuteBegin(r) \/ EmitStarted(r)
  \/ BudgetExceeded(r) \/ RenderTooLarge(r) \/ BeginStep(r) \/ EmitStepStarted(r)
  \/ EmitFallback(r) \/ AbortAttempts(r) \/ FirstAttempt(r)
  \/ Retry(r) \/ EmitRetrying(r) \/ BackoffOver(r)
  \/ \E outcome \in Outcomes, tokens \in Usage : ExecReturns(r, outcome, tokens)
  \/ CompleteStep(r) \/ EmitStepCompleted(r)
  \/ FailStep(r) \/ EmitStepFailed(r) \/ StopAfterFailure(r)
  \/ Interrupt(r) \/ FinishInterrupted(r)
  \/ CompleteRun(r) \/ EmitTerminal(r) \/ CloseDone(r) \/ ReleaseSlot(r)

CancelStep(x) == CancelFire(x) \/ CancelEmit(x)

Next ==
  \/ \E c \in Requests : StartRun(c) \/ CallerStep(c)
  \/ \E k \in Keys : IdemExpire(k)
  \/ \E r \in Requests : RunnerStep(r) \/ Deadline(r)
  \/ \E x \in Cancels, r \in Requests : CancelRun(x, r)
  \/ \E x \in Cancels : CancelStep(x)

Spec == Init /\ [][Next]_vars

\* Goroutines that have started are scheduled, timers fire and Execute returns
\* by the deadline of its context; nobody has to call StartRun or CancelRun.
Fairness ==
  /\ \A c \in Requests : WF_vars(CallerStep(c))
  /\ \A r \in Requests : WF_vars(RunnerStep(r))
  /\ \A x \in Cancels : WF_vars(CancelStep(x))

FairSpec == Spec /\ Fairness

-----------------------------------------------------------------------------
CallerRecord == [pc : CallerPc, key : Keys \cup {NoKey}, payload : Payloads \cup {None},
                 answer : Requests \cup Errors \cup {None}]
RunnerRecord == [pc : RunnerPc, idx : 1..(NSteps + 1), target : 1..NTargets,
                 attempt : 1..MaxAttempts, stepUse : Nat, spent : Nat,
                 verdict : {"CANCELLED", "TIMED_OUT"}]
CancelRecord == [pc : CancelPc, run : Requests \cup {None}, fn : BOOLEAN]
IdemEntry == {None} \cup [run : Requests, payload : Payloads]

TypeOK ==
  /\ caller \in [Requests -> CallerRecord]
  /\ idem \in [Keys -> IdemEntry]
  /\ sem \in Int
  /\ status \in [Requests -> RunStatus]
  /\ step \in [Requests -> [Steps -> StepStatus]]
  /\ tries \in [Requests -> [Steps -> Seq(Outcomes)]]
  /\ used \in [Requests -> Nat]
  /\ total \in [Requests -> Nat]
  /\ events \in [Requests -> Seq(Events)]
  /\ done \in [Requests -> BOOLEAN]
  /\ ctx \in [Requests -> {"live", "canceled", "deadline"}]
  /\ cancelFn \in [Requests -> BOOLEAN]
  /\ runner \in [Requests -> RunnerRecord]
  /\ canceller \in [Cancels -> CancelRecord]

-----------------------------------------------------------------------------
(***************************************************************************)
(* Safety                                                                  *)
(***************************************************************************)

\* The calls and goroutines that hold a slot of the semaphore.
SlotHolders ==
  {c \in Requests : caller[c].pc \in {"create", "record", "queue"}
                    \/ runner[c].pc \notin {"none", "ended"}}

\* Slots are neither leaked nor given back twice on any path of StartRun and
\* execute (service.go 252-270, 355): the filled slots are the live holders,
\* never more than max_concurrent_runs.
SlotAccounting ==
  /\ sem = Cardinality(SlotHolders)
  /\ sem <= MaxConcurrentRuns

\* Once a run is COMPLETED, FAILED, CANCELLED or TIMED_OUT nothing changes its
\* status, its steps or its usage again: not the goroutine, not a late CancelRun.
TerminalIsFinal ==
  [][\A r \in Requests : Terminal(status[r]) =>
       UNCHANGED <<status[r], step[r], tries[r], total[r]>>]_vars

\* A settled run shows no step that is still to run or running: whatever path
\* settled it, every step is COMPLETED, FAILED, TIMED_OUT, SKIPPED or CANCELLED.
SettledRunIsClosed ==
  \A r \in Requests : Terminal(status[r]) =>
    \A i \in Steps : step[r][i] \notin {"PENDING", "RUNNING", "RETRYING"}

\* Sequential runner: a step is executed only when all earlier ones COMPLETED.
StepsInOrder ==
  \A r \in Requests : \A i, j \in Steps :
    i < j /\ tries[r][j] # <<>> => step[r][i] = "COMPLETED"

\* README: "Step Timeout では二重推論防止のため再試行しません".  Only an attempt that
\* ended with the code for an unavailable model is followed by another attempt of
\* the step (a connection that broke has that code too), and after a timeout or
\* another error no later step reaches a runtime either.
NoSecondInference ==
  \A r \in Requests, i \in Steps : \A n \in 1..Len(tries[r][i]) :
    /\ n < Len(tries[r][i]) => tries[r][i][n] = "unavailable"
    /\ tries[r][i][n] \in {"timeout", "rejected"} =>
         \A j \in (i + 1)..NSteps : tries[r][j] = <<>>

\* A run is CANCELLED only when some CancelRun addressed it, and TIMED_OUT only
\* when its deadline really passed (service.go 649-657).
VerdictIsJustified ==
  \A r \in Requests :
    /\ status[r] = "CANCELLED" => \E x \in Cancels : canceller[x].run = r
    /\ status[r] = "TIMED_OUT" => ctx[r] = "deadline"

\* A CancelRun that comes while the run is QUEUED is lost (service.go 366 writes
\* RUNNING over it).  That window closes with the cancelFn: a cancel that found
\* one stays visible until the run has a final status, and its run never shows
\* QUEUED or RUNNING again.
HeardCancelStays ==
  \A x \in Cancels : canceller[x].fn =>
    LET st == status[canceller[x].run] IN st = "CANCELLING" \/ Terminal(st)

\* Idempotency: whoever is answered with a run gets one made for the same key
\* and the same payload, and one that exists; without a key, its own.
AnswerMatchesRequest ==
  \A c \in Requests : caller[c].answer \in Requests =>
    LET r == caller[c].answer IN
    /\ caller[r].key = caller[c].key
    /\ caller[r].payload = caller[c].payload
    /\ caller[c].key = NoKey => r = c
    /\ status[r] # "ABSENT"

-----------------------------------------------------------------------------
(***************************************************************************)
(* The code implements the contract of RunContract                         *)
(***************************************************************************)
OutcomeOf(r) == IF At(r, "none") THEN "none"
                ELSE IF Terminal(status[r]) THEN status[r] ELSE "open"
RunOutcomes   == [r \in Requests |-> OutcomeOf(r)]
AnnouncedRuns == {r \in Requests : done[r]}

Contract == INSTANCE RunContract WITH
  Runs      <- Requests,
  Capacity  <- MaxConcurrentRuns,
  active    <- SlotHolders,
  outcome   <- RunOutcomes,
  announced <- AnnouncedRuns

ImplementsContract == Contract!ContractSpec
ContractLiveness == Contract!OpenRunsEnd
=============================================================================
