---------------------------- MODULE Orchestrator ----------------------------
(***************************************************************************)
(* One request through the orchestrator: admission by a bounded queue and  *)
(* a semaphore, the ordered candidates, failover, and the state that all   *)
(* requests share: the pool's health, drain flags and inflight counters,   *)
(* and a circuit breaker per connector.                                    *)
(*                                                                         *)
(* Execute and ExecuteStream run in the goroutines of their callers.  The  *)
(* channels, the lock of the pool and the lock of each connector are taken *)
(* one at a time, so every use of one of them is a step.                   *)
(*                                                                         *)
(* Latencies, bodies and conversations are left out; a deployment has a    *)
(* connector of its own.  What a runtime does is free.                     *)
(***************************************************************************)
EXTENDS Integers, Sequences, FiniteSets

CONSTANTS
  Requests,        \* calls of Execute and ExecuteStream
  Streams,         \* those of ExecuteStream
  Deadlined,       \* those whose caller's context has a deadline, as a workflow step's
  Deployments,     \* deployments of the logical model
  MaxConcurrent,   \* orchestrator.max_concurrent
  MaxQueue,        \* orchestrator.max_queue
  Threshold,       \* breakerThreshold (3)
  Drainable        \* deployments that an administrator drains and resumes

ASSUME OrchestratorConstants ==
  /\ IsFiniteSet(Requests)
  /\ Streams \subseteq Requests
  /\ Deadlined \subseteq Requests
  /\ IsFiniteSet(Deployments)
  /\ MaxConcurrent \in Nat \ {0}
  /\ MaxQueue \in Nat \ {0}
  /\ Threshold \in Nat \ {0}
  /\ Drainable \subseteq Deployments

VARIABLES
  queue,      \* filled places of the channel queue
  sem,        \* filled places of the channel sem
  req,        \* locals of the calls
  healthy,    \* pool: Node.Healthy
  draining,   \* pool: Node.Draining
  inflight,   \* pool: Node.Inflight
  failures,   \* connector: failures of the breaker
  cooled      \* connector: breakers whose breakerCooldown is over, until a result is recorded

poolVars == <<healthy, draining, inflight>>
breakerVars == <<failures, cooled>>
vars == <<queue, sem, req, poolVars, breakerVars>>

Waiting == {"queued", "dequeue"}                                   \* hold a place of queue
OnNode  == {"gate", "send", "sent", "body", "return"}              \* are counted in Inflight
Holding == {"dequeue", "prepare", "check", "acquire", "leave"} \cup OnNode   \* hold a place of sem

Outcomes ==
  {"unsent",                   \* open breaker, unreadable credential
   "unreachable",              \* no connection, or a context canceled before there was one
   "reset", "timeout",         \* taken, perhaps: the connection or the context ended first
   "busy", "broken",           \* status 503; a body that breaks off
   "answer", "fault"}          \* passed on: a response or a stream, a response with status 5xx

\* ordered: the candidates from the current one on; last: the outcome of the
\* attempt before, lastErr for one that failed; ctx: whether the context has ended.
Call(pc) == [pc |-> pc, ordered |-> <<>>, last |-> "none", ctx |-> "live"]

Init ==
  /\ queue = 0 /\ sem = 0
  /\ req = [q \in Requests |-> Call("idle")]
  /\ healthy = Deployments /\ draining = {}
  /\ inflight = [d \in Deployments |-> 0]
  /\ failures = [d \in Deployments |-> 0]
  /\ cooled = {}

At(q, pc) == req[q].pc = pc
Goto(q, pc) == req' = [req EXCEPT ![q].pc = pc]
Cand(q) == Head(req[q].ordered)        \* the candidate that q is at
IsLast(q) == Len(req[q].ordered) = 1
Done(q) == req' = [req EXCEPT ![q] = Call("done")]
Assignable(d) == d \in healthy \ draining

-----------------------------------------------------------------------------
(***************************************************************************)
(* admit                                                                   *)
(***************************************************************************)
Enqueue(q) ==
  /\ At(q, "idle")
  /\ IF queue < MaxQueue THEN queue' = queue + 1 /\ Goto(q, "queued")
     ELSE UNCHANGED queue /\ Done(q)
  /\ UNCHANGED <<sem, poolVars, breakerVars>>

TakeSem(q) ==
  /\ At(q, "queued")
  /\ sem < MaxConcurrent
  /\ sem' = sem + 1
  /\ Goto(q, "dequeue")
  /\ UNCHANGED <<queue, poolVars, breakerVars>>

LeaveQueue(q) ==
  /\ At(q, "dequeue")
  /\ queue' = queue - 1
  /\ Goto(q, "prepare")
  /\ UNCHANGED <<sem, poolVars, breakerVars>>

\* (mutant) a request that ends while it waits keeps its place
GiveUpInPlace(q) ==
  /\ At(q, "queued")
  /\ req[q].ctx # "live"
  /\ Done(q)
  /\ UNCHANGED <<queue, sem, poolVars, breakerVars>>

GiveUp(q) ==
  /\ At(q, "queued")
  /\ req[q].ctx # "live"
  /\ queue' = queue - 1
  /\ Done(q)
  /\ UNCHANGED <<sem, poolVars, breakerVars>>

(***************************************************************************)
(* prepare: the candidates that policy and pool allow, in Pool.Order       *)
(***************************************************************************)

\* Inflight and latency may rank the live nodes in any way; the others are last.
Order(order) ==
  /\ \A m, n \in DOMAIN order : order[m] = order[n] => m = n
  /\ \A m, n \in DOMAIN order : m < n /\ Assignable(order[n]) => Assignable(order[m])

Prepare(q) ==
  /\ At(q, "prepare")
  /\ \/ \E S \in (SUBSET Deployments) \ {{}} : \E order \in [1..Cardinality(S) -> S] :
          /\ Order(order)
          /\ req' = [req EXCEPT ![q].pc = "check", ![q].ordered = order]
     \/ Goto(q, "leave")    \* unknown or unapproved model, bad conversation, ...
  /\ UNCHANGED <<queue, sem, poolVars, breakerVars>>

(***************************************************************************)
(* The loop over the candidates                                            *)
(***************************************************************************)
\* (mutant) the last candidate is waited for
NextCandidateWaits(q) ==
  /\ At(q, "check")
  /\ IF Assignable(Cand(q)) THEN Goto(q, "acquire")
     ELSE ~IsLast(q) /\ req' = [req EXCEPT ![q].ordered = Tail(@)]
  /\ UNCHANGED <<queue, sem, poolVars, breakerVars>>

\* A candidate that takes no requests is skipped, the last one is tried all the same.
NextCandidate(q) ==
  /\ At(q, "check")
  /\ IF Assignable(Cand(q)) \/ IsLast(q) THEN Goto(q, "acquire")
     ELSE req' = [req EXCEPT ![q].ordered = Tail(@)]
  /\ UNCHANGED <<queue, sem, poolVars, breakerVars>>

Acquire(q) ==
  /\ At(q, "acquire")
  /\ inflight' = [inflight EXCEPT ![Cand(q)] = @ + 1]
  /\ Goto(q, "gate")
  /\ UNCHANGED <<queue, sem, healthy, draining, breakerVars>>

\* The attempt has an outcome; the connector returns.
Outcome(q, o) == req' = [req EXCEPT ![q].pc = "return", ![q].last = o]

\* breakerOpen
BreakerGate(q) ==
  LET d == Cand(q) IN
  /\ At(q, "gate")
  /\ \/ /\ failures[d] < Threshold
        /\ Goto(q, "send")
        /\ UNCHANGED failures
     \/ /\ failures[d] >= Threshold /\ d \in cooled
        /\ failures' = [failures EXCEPT ![d] = Threshold - 1]
        /\ Goto(q, "send")
     \/ /\ failures[d] >= Threshold /\ d \notin cooled
        /\ Outcome(q, "unsent")
        /\ UNCHANGED failures
  /\ UNCHANGED <<queue, sem, poolVars, cooled>>

\* (mutant) the time of opening is taken one failure late
RecordLate(d, ok) ==
  /\ failures' = [failures EXCEPT ![d] = IF ok THEN 0 ELSE @ + 1]
  /\ cooled' = IF ok \/ failures'[d] = Threshold + 1 THEN cooled \ {d} ELSE cooled

\* recordResult
Record(d, ok) ==
  /\ failures' = [failures EXCEPT ![d] = IF ok THEN 0 ELSE @ + 1]
  /\ cooled' = IF ok \/ failures'[d] = Threshold THEN cooled \ {d} ELSE cooled

\* buildRequest may fail; a context that has ended sends nothing.
Send(q) ==
  /\ At(q, "send")
  /\ \/ req[q].ctx = "live" /\ Goto(q, "sent") /\ UNCHANGED breakerVars
     \/ Outcome(q, "unsent") /\ UNCHANGED breakerVars
     \/ /\ req[q].ctx # "live"
        /\ Outcome(q, IF req[q].ctx = "deadline" THEN "timeout" ELSE "unreachable")
        /\ Record(Cand(q), FALSE)
  /\ UNCHANGED <<queue, sem, poolVars>>

\* The connection is not made, or ends before a response: but for a timeout the
\* code does not tell the two apart, nor does the orchestrator.
TransportError(q) ==
  /\ At(q, "sent")
  /\ \E o \in {"unreachable", "reset", "timeout"} : Outcome(q, o)
  /\ Record(Cand(q), FALSE)
  /\ UNCHANGED <<queue, sem, poolVars>>

\* Do: the breaker learns the result when the body is read.
Respond(q) ==
  /\ At(q, "sent") /\ q \notin Streams
  /\ \E o \in {"answer", "fault", "busy", "broken"} :
       Outcome(q, o) /\ Record(Cand(q), o = "answer")
  /\ UNCHANGED <<queue, sem, poolVars>>

\* DoStream: the breaker learns it when the headers are there.
Headers(q) ==
  /\ At(q, "sent") /\ q \in Streams
  /\ Goto(q, "body")
  /\ \E ok \in BOOLEAN : Record(Cand(q), ok)
  /\ UNCHANGED <<queue, sem, poolVars>>

\* An event stream is passed on to whatever end; another body is read first.
Body(q) ==
  /\ At(q, "body")
  /\ \E o \in {"answer", "broken"} : Outcome(q, o)
  /\ UNCHANGED <<queue, sem, poolVars, breakerVars>>

TimeoutFailsOver(o) == o \in {"answer", "fault"}   \* (mutant)
EndsLoop(o) == o \in {"answer", "fault", "timeout"}

NextOrLeave(q) ==
  IF EndsLoop(req[q].last) \/ IsLast(q) THEN Goto(q, "leave")
  ELSE req' = [req EXCEPT ![q].pc = "check", ![q].ordered = Tail(@)]

\* (mutant) the early return after a timeout skips the release of the node
ReleaseUnlessTimeout(q) ==
  /\ At(q, "return")
  /\ inflight' = [inflight EXCEPT ![Cand(q)] = IF req[q].last = "timeout" THEN @ ELSE @ - 1]
  /\ NextOrLeave(q)
  /\ UNCHANGED <<queue, sem, healthy, draining, breakerVars>>

\* done(latency, ok): anything but a response below 500 degrades the node.
Release(q) ==
  LET d == Cand(q) IN
  /\ At(q, "return")
  /\ inflight' = [inflight EXCEPT ![d] = IF @ > 0 THEN @ - 1 ELSE @]
  /\ healthy' = IF req[q].last = "answer" THEN healthy ELSE healthy \ {d}
  /\ NextOrLeave(q)
  /\ UNCHANGED <<queue, sem, draining, breakerVars>>

\* The deferred release of the semaphore.
Leave(q) ==
  /\ At(q, "leave")
  /\ sem' = sem - 1
  /\ Done(q)
  /\ UNCHANGED <<queue, poolVars, breakerVars>>

-----------------------------------------------------------------------------
(***************************************************************************)
(* Contexts, administrators, probes and the clock                          *)
(***************************************************************************)

\* The client goes, Cancel is called, or a deadline passes: the one set after
\* prepare or the caller's own.
ContextEnds(q) ==
  /\ req[q].pc \notin {"idle", "done"}
  /\ req[q].ctx = "live"
  /\ \E end \in {"canceled", "deadline"} :
       /\ end = "deadline" => q \in Deadlined \/ req[q].pc \notin Waiting \cup {"prepare"}
       /\ req' = [req EXCEPT ![q].ctx = end]
  /\ UNCHANGED <<queue, sem, poolVars, breakerVars>>

\* StartHealth: a probe asked some time ago and sets what it heard.
Probe(d) ==
  /\ \E ok \in BOOLEAN : healthy' = IF ok THEN healthy \cup {d} ELSE healthy \ {d}
  /\ UNCHANGED <<queue, sem, req, draining, inflight, breakerVars>>

Drain(d) ==
  /\ d \in Drainable
  /\ draining' = draining \cup {d}
  /\ UNCHANGED <<queue, sem, req, healthy, inflight, breakerVars>>

Resume(d) ==
  /\ d \in Drainable
  /\ draining' = draining \ {d}
  /\ UNCHANGED <<queue, sem, req, healthy, inflight, breakerVars>>

CooldownPasses(d) ==
  /\ failures[d] >= Threshold
  /\ cooled' = cooled \cup {d}
  /\ UNCHANGED <<queue, sem, req, poolVars, failures>>

RequestStep(q) ==
  \/ TakeSem(q) \/ LeaveQueue(q) \/ GiveUp(q) \/ Prepare(q)
  \/ NextCandidate(q) \/ Acquire(q) \/ BreakerGate(q)
  \/ Send(q) \/ TransportError(q) \/ Respond(q) \/ Headers(q) \/ Body(q)
  \/ Release(q) \/ Leave(q)

Next ==
  \/ \E q \in Requests : Enqueue(q) \/ RequestStep(q) \/ ContextEnds(q)
  \/ \E d \in Deployments : Probe(d) \/ Drain(d) \/ Resume(d) \/ CooldownPasses(d)

Spec == Init /\ [][Next]_vars

-----------------------------------------------------------------------------
RequestRecord ==
  [pc : {"idle", "done"} \cup Waiting \cup Holding, ordered : Seq(Deployments),
   last : Outcomes \cup {"none"}, ctx : {"live", "canceled", "deadline"}]

TypeOK ==
  /\ queue \in Int /\ sem \in Int
  /\ req \in [Requests -> RequestRecord]
  /\ \A q \in Requests : req[q].pc \in OnNode \cup {"check", "acquire"} => req[q].ordered # <<>>
  /\ healthy \subseteq Deployments
  /\ draining \subseteq Deployments
  /\ inflight \in [Deployments -> Int]
  /\ failures \in [Deployments -> Nat]
  /\ cooled \subseteq Deployments

-----------------------------------------------------------------------------
(***************************************************************************)
(* Safety                                                                  *)
(***************************************************************************)

\* admit and the deferred release: whatever way a request goes, refused,
\* abandoned in the queue, failed in prepare or answered, the places it held in
\* the queue and in the semaphore are free again, once; both stay bounded.
AdmissionAccounting ==
  /\ queue = Cardinality({q \in Requests : req[q].pc \in Waiting})
  /\ sem = Cardinality({q \in Requests : req[q].pc \in Holding})
  /\ queue <= MaxQueue
  /\ sem <= MaxConcurrent

\* Pool.Acquire and its release: Node.Inflight, by which Order ranks, is the
\* number of attempts on the node; the guard against going below zero never acts.
InflightAccounting ==
  \A d \in Deployments :
    inflight[d] = Cardinality({q \in Requests : req[q].pc \in OnNode /\ Cand(q) = d})

\* orchestrator.go 286: after a timeout the runtime may be inferring, and the
\* request is given to no other; nor is one that a response was passed on for.
NoFailoverAfterTimeout ==
  \A q \in Requests :
    req[q].pc \in {"check", "acquire", "gate", "send", "sent", "body"} => req[q].last \notin {"timeout", "answer", "fault"}

\* breakerOpen and recordResult, under any number of requests at once, some sent
\* before it opened: a breaker that closes the way has a full cooldown ahead,
\* the one whose trial failed too.
BreakerOpensAfresh ==
  [][\A d \in Deployments :
       failures[d] < Threshold /\ failures'[d] >= Threshold => d \notin cooled']_vars

-----------------------------------------------------------------------------
(***************************************************************************)
(* What a comment says and the steps do not                                *)
(***************************************************************************)

\* orchestrator.go 5: "タイムアウトは推論二重実行防止のため切替えず、到達不可・503 のみ
\* 次候補へ".  A runtime whose answer broke off, by a reset or by the client's
\* timeout while it was read, was reached and has inferred; the request is sent to
\* no second one.
FailoverOnlyIfUnanswered ==
  \A q \in Requests : req[q].pc = "sent" => req[q].last # "broken"
=============================================================================
