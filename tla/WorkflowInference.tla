-------------------------- MODULE WorkflowInference --------------------------
(***************************************************************************)
(* The workflow Service on top of the orchestrator.                        *)
(*                                                                         *)
(* An attempt of a step is one call of Orchestrator.Execute, made by the   *)
(* execute goroutine of the run, which waits for it.  WorkflowRun lets     *)
(* that call answer anything at any time; here the call is one of the      *)
(* calls of Orchestrator, competes with the others for places, nodes and   *)
(* breakers, and its outcome decides which contract error runStep sees.    *)
(*                                                                         *)
(* Both components retry: the orchestrator goes to the next candidate, the *)
(* Service to the next attempt and the next pool.  Neither may do so after *)
(* an answer or a timeout, and neither sees the other's reasons.           *)
(***************************************************************************)
EXTENDS WorkflowRun

CONSTANTS
  Direct,          \* calls of other clients of the orchestrator
  Streams,         \* those of ExecuteStream
  Deployments, MaxConcurrent, MaxQueue, Threshold, Drainable   \* as in Orchestrator

\* An attempt is known by its run, step, target and number.
StepAttempts == Requests \X Steps \X (1..NTargets) \X (1..MaxAttempts)

ASSUME InferenceConstants ==
  /\ IsFiniteSet(Direct) /\ Direct \cap StepAttempts = {}
  /\ Streams \subseteq Direct
  /\ IsFiniteSet(Deployments) /\ Drainable \subseteq Deployments
  /\ MaxConcurrent \in Nat \ {0} /\ MaxQueue \in Nat \ {0} /\ Threshold \in Nat \ {0}
  /\ None \notin Outcomes

VARIABLES
  queue, slots, req, healthy, draining, inflight, failures, cooled,   \* of Orchestrator
  reply    \* what Execute returned to an attempt, as runStep tells the codes apart

Orch == INSTANCE Orchestrator WITH
  Requests <- StepAttempts \cup Direct, Deadlined <- StepAttempts, sem <- slots

orchVars   == <<queue, slots, req, healthy, draining, inflight, failures, cooled>>
systemVars == <<vars, orchVars, reply>>

SystemInit == Init /\ Orch!Init /\ reply = [p \in StepAttempts |-> None]

\* The attempt that the goroutine of run r makes.
AttemptOf(r) == <<r, runner[r].idx, runner[r].target, runner[r].attempt>>

-----------------------------------------------------------------------------
(***************************************************************************)
(* Execute returns                                                         *)
(***************************************************************************)

\* The codes for what became of call q, in the state it is answered in: the
\* queue was full; its context ended there; prepare or the connector refused
\* it; the response is unusable (status 4xx or 5xx, not a completion).
CodeOf(q) ==
  LET last == req[q].last IN
  CASE req[q].pc = "idle"                               -> {"unavailable"}
    [] req[q].pc = "queued"                             -> {"timeout"}
    [] req[q].pc = "leave" /\ last = "answer"           -> {"ok", "rejected"}
    [] req[q].pc = "leave" /\ last = "timeout"          -> {"timeout"}
    [] req[q].pc = "leave" /\ last \in {"fault", "broken"} -> {"rejected"}
    [] req[q].pc = "leave" /\ last \in {"unreachable", "reset", "busy"} -> {"unavailable"}
    [] req[q].pc = "leave" /\ last \in {"none", "unsent"}  -> {"unavailable", "rejected"}

DetachedContext(r) == TRUE   \* (mutant) Execute is given a context of its own
\* The goroutine of run r is inside Execute.  Its context is derived from the
\* run's: it has ended when that one has, and is canceled by nobody else.
ContextFollows(r) == ctx[r] # "live" => req[AttemptOf(r)].ctx # "live"

AttemptStep(r) ==
  LET q == AttemptOf(r) IN
  /\ At(r, "exec")
  /\ \/ Orch!Enqueue(q)
     \/ ContextFollows(r) /\ Orch!RequestStep(q)
  /\ IF req'[q].pc = "done" THEN \E code \in CodeOf(q) : reply' = [reply EXCEPT ![q] = code]
     ELSE UNCHANGED reply
  /\ UNCHANGED vars

\* The run is cancelled or its deadline passes, or the deadline of the step does.
AttemptContextEnds(r) ==
  LET q == AttemptOf(r) IN
  /\ At(r, "exec")
  /\ Orch!ContextEnds(q)
  /\ ctx[r] # "canceled" => req'[q].ctx = "deadline"
  /\ UNCHANGED <<vars, reply>>

\* runStep goes on with the code.
AttemptReturns(r) ==
  /\ At(r, "exec")
  /\ req[AttemptOf(r)].pc = "done"
  /\ \E tokens \in Usage : ExecReturns(r, reply[AttemptOf(r)], tokens)
  /\ UNCHANGED <<orchVars, reply>>

-----------------------------------------------------------------------------
(***************************************************************************)
(* The rest of both components                                             *)
(***************************************************************************)

\* Whatever records no attempt leaves the orchestrator alone.
ServiceStep == Next /\ UNCHANGED <<tries, orchVars, reply>>

DirectStep(q) == Orch!RequestStep(q) /\ UNCHANGED <<vars, reply>>

Surroundings ==
  /\ \/ \E q \in Direct : Orch!Enqueue(q) \/ Orch!ContextEnds(q)
     \/ \E d \in Deployments : Orch!Probe(d) \/ Orch!Drain(d) \/ Orch!Resume(d) \/ Orch!CooldownPasses(d)
  /\ UNCHANGED <<vars, reply>>

SystemNext ==
  \/ ServiceStep
  \/ \E r \in Requests : AttemptStep(r) \/ AttemptContextEnds(r) \/ AttemptReturns(r)
  \/ \E q \in Direct : DirectStep(q)
  \/ Surroundings

SystemSpec == SystemInit /\ [][SystemNext]_systemVars

\* As in WorkflowRun, but that an attempt returns is not assumed: it follows from
\* the steps of all calls.  A CancelRun call that has begun need not go on.
ServiceFairness ==
  /\ \A c \in Requests : WF_systemVars(CallerStep(c) /\ UNCHANGED <<tries, orchVars, reply>>)
  /\ \A r \in Requests : WF_systemVars(RunnerStep(r) /\ UNCHANGED <<tries, orchVars, reply>>)

CallFairness ==
  /\ \A r \in Requests : WF_systemVars(AttemptStep(r) \/ AttemptReturns(r))
  /\ \A r \in Requests : WF_systemVars(AttemptContextEnds(r) /\ ctx[r] # "live")
  /\ \A q \in Direct : WF_systemVars(DirectStep(q))

FairSystemSpec == SystemSpec /\ ServiceFairness /\ CallFairness

SystemTypeOK ==
  /\ TypeOK
  /\ Orch!TypeOK
  /\ reply \in [StepAttempts -> Outcomes \cup {None}]

-----------------------------------------------------------------------------
(***************************************************************************)
(* Safety                                                                  *)
(***************************************************************************)

\* Calls that may still send something to a runtime.
Asking == Orch!Waiting \cup {"prepare", "check", "acquire", "gate", "send", "sent", "body"}

\* A response came for the attempt, or a timeout.
AnsweredOrTimedOut(p) ==
  req[p].last \in {"timeout", "answer", "fault"} \/ reply[p] \in {"ok", "timeout", "rejected"}

\* The rule of both components (orchestrator.go 285-287, service.go 537-540) holds
\* for the two together: while an attempt can still reach a runtime no other
\* attempt of the run is out, none of this step, itself included, was answered or
\* timed out, and no earlier step ended in doubt.  It does not say that no runtime
\* has worked on the step: after a reset or a body that broke off one may have, and
\* both components send the step again (connector.go 146-150, 175-179).
NothingAfterAnswerOrTimeout ==
  \A p, q \in StepAttempts : req[q].pc \in Asking /\ p[1] = q[1] =>
    /\ p # q => req[p].pc \in {"idle", "done"}
    /\ p[2] = q[2] => ~AnsweredOrTimedOut(p)
    /\ p[2] < q[2] => reply[p] \notin {"timeout", "rejected"}

\* CancelRun took the cancelFn of run r and has called it.
CancelFired(r) ==
  \E x \in Cancels : canceller[x].run = r /\ canceller[x].fn /\ canceller[x].pc \in {"emit", "returned"}

\* service.go 290-310: from then on no runtime is sent anything for the run, be it
\* waiting in the queue, between two candidates or backing off before a retry.
CancelStopsInference ==
  [][\A q \in StepAttempts : CancelFired(q[1]) => ~(req[q].pc = "send" /\ req'[q].pc = "sent")]_systemVars
=============================================================================
