------------------------- MODULE OrchestratorProofs -------------------------
(***************************************************************************)
(* Theorems about Orchestrator, for every number of calls, deployments,    *)
(* places and failures.                                                    *)
(***************************************************************************)
EXTENDS Orchestrator, FiniteSetTheorems, SequenceTheorems, TLAPS

-----------------------------------------------------------------------------
(***************************************************************************)
(* Typing                                                                  *)
(***************************************************************************)

\* The call of q is the only one that changes, and into a call.
OnlyCall(q) ==
  /\ req' \in [Requests -> RequestRecord]
  /\ \A p \in Requests \ {q} : req'[p] = req[p]

\* Where a call has a current candidate.
CandPcs == OnNode \cup {"check", "acquire"}

Pcs == {"idle", "done"} \cup Waiting \cup Holding

\* A call that only moves on keeps the rest.
Moved(q, pc) ==
  /\ OnlyCall(q)
  /\ req'[q].pc = pc
  /\ req'[q].ordered = req[q].ordered
  /\ req'[q].last = req[q].last

\* Goto moves one call on.
LEMMA GotoKeeps ==
  ASSUME TypeOK, NEW q \in Requests, NEW pc \in Pcs, Goto(q, pc)
  PROVE  Moved(q, pc)
<1>1. req \in [Requests -> RequestRecord]
  BY DEF TypeOK
<1>2. req' = [req EXCEPT ![q].pc = pc]
  BY DEF Goto
<1> QED BY <1>1, <1>2 DEF RequestRecord, OnlyCall, Moved, Pcs

\* A call that is done has forgotten its attempts.
LEMMA DoneKeeps ==
  ASSUME TypeOK, NEW q \in Requests, Done(q)
  PROVE  OnlyCall(q) /\ req'[q].pc = "done" /\ req'[q].last = "none"
<1>1. req \in [Requests -> RequestRecord]
  BY DEF TypeOK
<1>2. Call("done") \in RequestRecord
  BY DEF RequestRecord, Call
<1>3. req' = [req EXCEPT ![q] = Call("done")]
  BY DEF Done
<1> QED BY <1>1, <1>2, <1>3 DEF OnlyCall, Call

\* An outcome leaves the call at its candidate.
LEMMA OutcomeKeeps ==
  ASSUME TypeOK, NEW q \in Requests, NEW o \in Outcomes, Outcome(q, o)
  PROVE  /\ OnlyCall(q) /\ req'[q].pc = "return" /\ req'[q].last = o
         /\ req'[q].ordered = req[q].ordered
<1>1. req \in [Requests -> RequestRecord]
  BY DEF TypeOK
<1>2. req' = [req EXCEPT ![q].pc = "return", ![q].last = o]
  BY DEF Outcome
<1> QED BY <1>1, <1>2 DEF RequestRecord, OnlyCall, Holding, OnNode

\* The loop goes on only with candidates left.
LEMMA TailKeeps ==
  ASSUME TypeOK, NEW q \in Requests, req[q].pc \in CandPcs, ~IsLast(q)
  PROVE  Tail(req[q].ordered) \in Seq(Deployments) /\ Tail(req[q].ordered) # <<>>
<1>1. req[q].ordered \in Seq(Deployments) /\ req[q].ordered # <<>>
  BY DEF TypeOK, RequestRecord, CandPcs
<1>2. Len(req[q].ordered) # 1
  BY DEF IsLast
<1>3. Tail(req[q].ordered) \in Seq(Deployments) /\ Len(Tail(req[q].ordered)) = Len(req[q].ordered) - 1
  BY <1>1, HeadTailProperties
<1>4. Len(req[q].ordered) \in Nat \ {0}
  BY <1>1, EmptySeq
<1>5. Len(Tail(req[q].ordered)) # 0
  BY <1>2, <1>3, <1>4
<1> QED BY <1>3, <1>5, EmptySeq

\* Every call that prepare lets on has a candidate.
LEMMA OrderIsSequence ==
  ASSUME NEW S \in (SUBSET Deployments) \ {{}}, NEW order \in [1..Cardinality(S) -> S]
  PROVE  order \in Seq(Deployments) /\ order # <<>>
<1>0. S # {} /\ S \subseteq Deployments /\ IsFiniteSet(Deployments)
  BY OrchestratorConstants
<1>1. IsFiniteSet(S) /\ S # {} /\ S \subseteq Deployments
  BY <1>0, FS_Subset
<1>2. Cardinality(S) \in Nat /\ Cardinality(S) # 0
  BY <1>1, FS_CardinalityType, FS_EmptySet
<1>3. order \in [1..Cardinality(S) -> Deployments]
  BY <1>1
<1>4. \A n \in Nat : \A f \in [1..n -> Deployments] : f \in Seq(Deployments) /\ Len(f) = n
  OBVIOUS
<1>5. order \in Seq(Deployments) /\ Len(order) = Cardinality(S)
  BY <1>2, <1>3, <1>4
<1> QED BY <1>2, <1>5, EmptySeq

\* The current candidate is a deployment.
LEMMA CandIsDeployment ==
  ASSUME TypeOK, NEW q \in Requests, req[q].pc \in CandPcs
  PROVE  Cand(q) \in Deployments
<1>1. req[q].ordered \in Seq(Deployments) /\ req[q].ordered # <<>>
  BY DEF TypeOK, RequestRecord, CandPcs
<1> QED BY <1>1, HeadTailProperties DEF Cand

-----------------------------------------------------------------------------
(***************************************************************************)
(* What one step does to its call, to the places it holds and to the       *)
(* counter of its node.                                                    *)
(***************************************************************************)
Ind(b) == IF b THEN 1 ELSE 0
On(q, d) == req[q].pc \in OnNode /\ Cand(q) = d

\* The places are taken and given back as the call goes on.
Places(q) ==
  /\ OnlyCall(q)
  /\ req'[q].pc \in CandPcs => req'[q].ordered # <<>>
  /\ queue' = queue + Ind(req'[q].pc \in Waiting) - Ind(req[q].pc \in Waiting)
  /\ sem' = sem + Ind(req'[q].pc \in Holding) - Ind(req[q].pc \in Holding)
  /\ queue' > queue => queue < MaxQueue
  /\ sem' > sem => sem < MaxConcurrent

\* So is the node's counter, unless it is at zero already.
Counts(q) ==
  /\ inflight' \in [Deployments -> Int]
  /\ \A d \in Deployments :
       inflight[d] >= Ind(On(q, d)) => inflight'[d] = inflight[d] + Ind(On(q, d)') - Ind(On(q, d))

\* A call that only moves on holds what it held.
LEMMA StaysPut ==
  ASSUME TypeOK, NEW q \in Requests, OnlyCall(q), UNCHANGED <<queue, sem, inflight>>,
         req'[q].pc \in Waiting <=> req[q].pc \in Waiting,
         req'[q].pc \in Holding <=> req[q].pc \in Holding,
         req'[q].pc \in OnNode <=> req[q].pc \in OnNode,
         req'[q].pc \in CandPcs => req[q].pc \in CandPcs /\ req'[q].ordered = req[q].ordered
  PROVE  Places(q) /\ Counts(q)
<1>1. req'[q].pc \in CandPcs => req'[q].ordered # <<>>
  BY DEF TypeOK, CandPcs
<1>2. queue \in Int /\ sem \in Int /\ inflight \in [Deployments -> Int]
  BY DEF TypeOK
<1>3. Places(q)
  BY <1>1, <1>2 DEF Places, Ind
<1>3a. req'[q].pc \in OnNode => Cand(q)' = Cand(q)
  BY DEF Cand, CandPcs
<1>4. ASSUME NEW d \in Deployments PROVE On(q, d)' <=> On(q, d)
  BY <1>3a DEF On
<1>5. Counts(q)
  BY <1>2, <1>4 DEF Counts, Ind
<1> QED BY <1>3, <1>5

\* admit, prepare and the way out.
LEMMA PlacesAdmission ==
  ASSUME TypeOK, NEW q \in Requests,
         Enqueue(q) \/ TakeSem(q) \/ LeaveQueue(q) \/ GiveUp(q) \/ Leave(q)
  PROVE  Places(q) /\ Counts(q)
<1>0. /\ queue \in Int /\ sem \in Int /\ inflight \in [Deployments -> Int]
      /\ req \in [Requests -> RequestRecord]
  BY DEF TypeOK
<1>1. UNCHANGED inflight
  BY DEF Enqueue, TakeSem, LeaveQueue, GiveUp, Leave, poolVars
<1>2. ASSUME req[q].pc \notin OnNode, req'[q].pc \notin OnNode PROVE Counts(q)
  BY <1>0, <1>1, <1>2 DEF Counts, On, Ind
<1>3. CASE Enqueue(q)
  <2>1. CASE queue < MaxQueue /\ queue' = queue + 1 /\ Goto(q, "queued")
    <3>1. Moved(q, "queued")
      BY <2>1, GotoKeeps DEF Pcs, Waiting
    <3> QED BY <1>0, <1>2, <1>3, <2>1, <3>1
            DEF Enqueue, Moved, Places, At, Ind, Waiting, Holding, OnNode, CandPcs
  <2>2. CASE UNCHANGED queue /\ Done(q)
    BY <1>0, <1>2, <1>3, <2>2, DoneKeeps DEF Enqueue, Places, At, Ind, Waiting, Holding, OnNode, CandPcs
  <2> QED BY <1>3, <2>1, <2>2 DEF Enqueue
<1>4. CASE TakeSem(q)
  <2>1. Moved(q, "dequeue")
    BY <1>4, GotoKeeps DEF TakeSem, Pcs, Waiting, Holding
  <2> QED BY <1>0, <1>2, <1>4, <2>1 DEF TakeSem, Moved, Places, At, Ind, Waiting, Holding, OnNode, CandPcs
<1>5. CASE LeaveQueue(q)
  <2>1. Moved(q, "prepare")
    BY <1>5, GotoKeeps DEF LeaveQueue, Pcs, Waiting, Holding
  <2> QED BY <1>0, <1>2, <1>5, <2>1 DEF LeaveQueue, Moved, Places, At, Ind, Waiting, Holding, OnNode, CandPcs
<1>6. CASE GiveUp(q)
  BY <1>0, <1>2, <1>6, DoneKeeps DEF GiveUp, Places, At, Ind, Waiting, Holding, OnNode, CandPcs
<1>7. CASE Leave(q)
  <2>1. OnlyCall(q) /\ req'[q].pc = "done"
    BY <1>0, <1>7, DoneKeeps DEF Leave
  <2> QED BY <1>0, <1>2, <1>7, <2>1 DEF Leave, Places, At, Ind, Waiting, Holding, OnNode, CandPcs
<1> QED BY <1>3, <1>4, <1>5, <1>6, <1>7

\* prepare ends at the first candidate or at the way out.
LEMMA PlacesPrepare ==
  ASSUME TypeOK, NEW q \in Requests, Prepare(q)
  PROVE  Places(q) /\ Counts(q)
<1>0. /\ queue \in Int /\ sem \in Int /\ inflight \in [Deployments -> Int]
      /\ req \in [Requests -> RequestRecord]
  BY DEF TypeOK
<1>1. req[q].pc = "prepare" /\ UNCHANGED <<queue, sem, inflight>>
  BY DEF Prepare, At, poolVars
<1>2. CASE Goto(q, "leave")
  <2>1. Moved(q, "leave")
    BY <1>2, GotoKeeps DEF Pcs, Holding
  <2> QED BY <1>0, <1>1, <2>1 DEF Moved, Places, Counts, On, Ind, Waiting, Holding, OnNode, CandPcs
<1>3. ASSUME NEW S \in (SUBSET Deployments) \ {{}}, NEW order \in [1..Cardinality(S) -> S],
             req' = [req EXCEPT ![q].pc = "check", ![q].ordered = order]
      PROVE  Places(q) /\ Counts(q)
  <2>1. order \in Seq(Deployments) /\ order # <<>>
    BY OrderIsSequence
  <2>2. OnlyCall(q) /\ req'[q] = [req[q] EXCEPT !.pc = "check", !.ordered = order]
    BY <1>0, <1>3, <2>1, ZenonT(60) DEF OnlyCall, RequestRecord, Holding
  <2>3. req'[q].pc = "check" /\ req'[q].ordered # <<>>
    BY <1>0, <2>1, <2>2 DEF RequestRecord
  <2> QED BY <1>0, <1>1, <2>2, <2>3 DEF Places, Counts, On, Ind, Waiting, Holding, OnNode, CandPcs
<1> QED BY <1>2, <1>3 DEF Prepare

\* The steps of the loop that neither take nor give back anything.
LEMMA PlacesAttempt ==
  ASSUME TypeOK, NEW q \in Requests,
         \/ NextCandidate(q) \/ BreakerGate(q) \/ Send(q) \/ TransportError(q)
         \/ Respond(q) \/ Headers(q) \/ Body(q) \/ ContextEnds(q)
  PROVE  Places(q) /\ Counts(q)
<1>0. req \in [Requests -> RequestRecord]
  BY DEF TypeOK
<1>1. UNCHANGED <<queue, sem, inflight>>
  BY DEF NextCandidate, BreakerGate, Send, TransportError, Respond, Headers, Body, ContextEnds, poolVars
<1>2. ASSUME NEW pc \in {"send", "sent", "body"}, Goto(q, pc), req[q].pc \in OnNode
      PROVE  Places(q) /\ Counts(q)
  <2>1. Moved(q, pc)
    BY <1>2, GotoKeeps DEF Pcs, Holding, OnNode
  <2> QED BY <1>1, <1>2, <2>1, StaysPut DEF Moved, Waiting, Holding, OnNode, CandPcs
<1>3. ASSUME NEW o \in Outcomes, Outcome(q, o), req[q].pc \in OnNode
      PROVE  Places(q) /\ Counts(q)
  <2>1. OnlyCall(q) /\ req'[q].pc = "return" /\ req'[q].ordered = req[q].ordered
    BY <1>3, OutcomeKeeps
  <2> QED BY <1>1, <1>3, <2>1, StaysPut DEF Waiting, Holding, OnNode, CandPcs
<1>4. CASE NextCandidate(q)
  <2>1. CASE Goto(q, "acquire")
    <3>1. Moved(q, "acquire")
      BY <2>1, GotoKeeps DEF Pcs, Holding
    <3> QED BY <1>1, <1>4, <3>1, StaysPut DEF NextCandidate, At, Moved, Waiting, Holding, OnNode, CandPcs
  <2>2. CASE ~IsLast(q) /\ req' = [req EXCEPT ![q].ordered = Tail(@)]
    <3>1. req[q].pc = "check"
      BY <1>4 DEF NextCandidate, At
    <3>2. Tail(req[q].ordered) \in Seq(Deployments) /\ Tail(req[q].ordered) # <<>>
      BY <2>2, <3>1, TailKeeps DEF CandPcs
    <3>3. OnlyCall(q) /\ req'[q].pc = "check" /\ req'[q].ordered = Tail(req[q].ordered)
      BY <1>0, <2>2, <3>1, <3>2 DEF OnlyCall, RequestRecord
    <3>4. queue \in Int /\ sem \in Int /\ inflight \in [Deployments -> Int]
      BY DEF TypeOK
    <3>5. Places(q)
      BY <1>1, <3>1, <3>2, <3>3, <3>4 DEF Places, Ind, Waiting, Holding, OnNode
    <3>6. Counts(q)
      BY <1>1, <3>1, <3>3, <3>4 DEF Counts, On, Ind, OnNode
    <3> QED BY <3>5, <3>6
  <2> QED BY <1>4, <2>1, <2>2 DEF NextCandidate
<1>5. CASE BreakerGate(q)
  BY <1>2, <1>3, <1>5 DEF BreakerGate, At, OnNode, Outcomes
<1>6. CASE Send(q)
  <2>1. req[q].pc \in OnNode
    BY <1>6 DEF Send, At, OnNode
  <2>2. \/ Goto(q, "sent") \/ \E o \in Outcomes : Outcome(q, o)
    BY <1>6 DEF Send, Outcomes
  <2> QED BY <1>2, <1>3, <2>1, <2>2
<1>7. CASE TransportError(q)
  BY <1>3, <1>7 DEF TransportError, At, OnNode, Outcomes
<1>8. CASE Respond(q)
  BY <1>3, <1>8 DEF Respond, At, OnNode, Outcomes
<1>9. CASE Headers(q)
  BY <1>2, <1>9 DEF Headers, At, OnNode
<1>10. CASE Body(q)
  BY <1>3, <1>10 DEF Body, At, OnNode, Outcomes
<1>11. CASE ContextEnds(q)
  <2>1. PICK end \in {"canceled", "deadline"} : req' = [req EXCEPT ![q].ctx = end]
    BY <1>11 DEF ContextEnds
  <2>2. Moved(q, req[q].pc)
    BY <1>0, <2>1 DEF Moved, OnlyCall, RequestRecord
  <2> QED BY <1>1, <2>2, StaysPut DEF Moved
<1> QED BY <1>4, <1>5, <1>6, <1>7, <1>8, <1>9, <1>10, <1>11

\* Acquire and its release.
LEMMA PlacesOnNode ==
  ASSUME TypeOK, NEW q \in Requests, Acquire(q) \/ Release(q)
  PROVE  Places(q) /\ Counts(q)
<1>0. /\ queue \in Int /\ sem \in Int /\ inflight \in [Deployments -> Int]
      /\ req \in [Requests -> RequestRecord]
  BY DEF TypeOK
<1>1. UNCHANGED <<queue, sem>> /\ req[q].pc \in {"acquire", "return"}
  BY DEF Acquire, Release, At
<1>2. Cand(q) \in Deployments
  BY <1>1, CandIsDeployment DEF CandPcs, OnNode
<1>3. req[q].ordered # <<>>
  BY <1>1 DEF TypeOK, OnNode
<1>4. CASE Acquire(q)
  <2>1. Moved(q, "gate") /\ req[q].pc = "acquire"
    BY <1>4, GotoKeeps DEF Acquire, At, Pcs, Holding, OnNode
  <2>2. Places(q)
    BY <1>0, <1>1, <1>3, <2>1 DEF Moved, Places, Ind, Waiting, Holding, OnNode
  <2>3. inflight' = [inflight EXCEPT ![Cand(q)] = @ + 1]
    BY <1>4 DEF Acquire
  <2>4. \A d \in Deployments : ~On(q, d) /\ (On(q, d)' <=> Cand(q) = d)
    BY <2>1 DEF On, Moved, Cand, OnNode
  <2>5. Counts(q)
    BY <1>0, <1>2, <2>3, <2>4 DEF Counts, Ind
  <2> QED BY <2>2, <2>5
<1>5. CASE Release(q)
  <2>1. OnlyCall(q) /\ req'[q].pc \in {"leave", "check"} /\ (req'[q].pc = "check" => req'[q].ordered # <<>>)
    <3>1. CASE Goto(q, "leave")
      BY <3>1, GotoKeeps DEF Pcs, Holding, Moved
    <3>2. CASE ~IsLast(q) /\ req' = [req EXCEPT ![q].pc = "check", ![q].ordered = Tail(@)]
      <4>1. Tail(req[q].ordered) \in Seq(Deployments) /\ Tail(req[q].ordered) # <<>>
        BY <1>1, <3>2, TailKeeps DEF CandPcs, OnNode
      <4> QED BY <1>0, <3>2, <4>1 DEF OnlyCall, RequestRecord, Holding
    <3> QED BY <1>5, <3>1, <3>2 DEF Release, NextOrLeave
  <2>2. req[q].pc = "return"
    BY <1>5 DEF Release, At
  <2>3. Places(q)
    BY <1>0, <1>1, <2>1, <2>2 DEF Places, Ind, Waiting, Holding, OnNode, CandPcs
  <2>4. inflight' = [inflight EXCEPT ![Cand(q)] = IF @ > 0 THEN @ - 1 ELSE @]
    BY <1>5 DEF Release
  <2>5. \A d \in Deployments : ~On(q, d)' /\ (On(q, d) <=> Cand(q) = d)
    BY <2>1, <2>2 DEF On, OnNode
  <2>6. Counts(q)
    BY <1>0, <1>2, <2>4, <2>5 DEF Counts, Ind
  <2> QED BY <2>3, <2>6
<1> QED BY <1>4, <1>5

\* Every step of a call keeps count of what it takes and gives back.
LEMMA CallKeepsCount ==
  ASSUME TypeOK, NEW q \in Requests, Enqueue(q) \/ RequestStep(q) \/ ContextEnds(q)
  PROVE  Places(q) /\ Counts(q)
BY PlacesAdmission, PlacesPrepare, PlacesAttempt, PlacesOnNode DEF RequestStep

-----------------------------------------------------------------------------
(***************************************************************************)
(* The breakers                                                            *)
(***************************************************************************)
Afresh ==
  \A d \in Deployments :
    failures[d] < Threshold /\ failures'[d] >= Threshold => d \notin cooled'

BreakerTyped == failures' \in [Deployments -> Nat] /\ cooled' \subseteq Deployments

\* A count that passes the threshold is the threshold when it does.
LEMMA RecordOpensAfresh ==
  ASSUME TypeOK, NEW d \in Deployments, NEW ok \in BOOLEAN, Record(d, ok)
  PROVE  BreakerTyped /\ Afresh
<1>1. failures \in [Deployments -> Nat] /\ cooled \subseteq Deployments /\ Threshold \in Nat \ {0}
  BY OrchestratorConstants DEF TypeOK
<1>2. /\ failures' = [failures EXCEPT ![d] = IF ok THEN 0 ELSE failures[d] + 1]
      /\ cooled' = IF ok \/ failures'[d] = Threshold THEN cooled \ {d} ELSE cooled
  BY DEF Record
<1>3. BreakerTyped
  BY <1>1, <1>2 DEF BreakerTyped
<1>4. ASSUME NEW e \in Deployments, failures[e] < Threshold, failures'[e] >= Threshold
      PROVE  e \notin cooled'
  <2>1. e = d
    BY <1>1, <1>2, <1>4
  <2>2. ~ok /\ failures'[d] = failures[d] + 1
    BY <1>1, <1>2, <1>4, <2>1
  <2>3. failures'[d] = Threshold
    BY <1>1, <1>4, <2>1, <2>2
  <2> QED BY <1>2, <2>1, <2>3
<1> QED BY <1>3, <1>4 DEF Afresh

\* A step that records nothing opens nothing.
LEMMA BreakerIdle ==
  ASSUME TypeOK, UNCHANGED failures, cooled' \subseteq Deployments
  PROVE  BreakerTyped /\ Afresh
BY OrchestratorConstants DEF TypeOK, BreakerTyped, Afresh

\* Neither does the half-open trial; every other step records or leaves it alone.
LEMMA BreakersOpenAfresh ==
  ASSUME TypeOK, [Next]_vars
  PROVE  BreakerTyped /\ Afresh
<1>0. failures \in [Deployments -> Nat] /\ cooled \subseteq Deployments /\ Threshold \in Nat \ {0}
  BY OrchestratorConstants DEF TypeOK
<1>1. ASSUME UNCHANGED breakerVars PROVE BreakerTyped /\ Afresh
  BY <1>0, <1>1, BreakerIdle DEF breakerVars
<1>2. ASSUME NEW q \in Requests, BreakerGate(q) PROVE BreakerTyped /\ Afresh
  <2>1. Cand(q) \in Deployments /\ UNCHANGED cooled
    BY <1>2, CandIsDeployment DEF BreakerGate, At, CandPcs, OnNode
  <2>2. CASE UNCHANGED failures
    BY <1>0, <2>1, <2>2, BreakerIdle
  <2>3. CASE failures' = [failures EXCEPT ![Cand(q)] = Threshold - 1]
    BY <1>0, <2>1, <2>3 DEF BreakerTyped, Afresh
  <2> QED BY <1>2, <2>2, <2>3 DEF BreakerGate
<1>3. ASSUME NEW q \in Requests, Send(q) \/ TransportError(q) \/ Respond(q) \/ Headers(q)
      PROVE  BreakerTyped /\ Afresh
  <2>1. Cand(q) \in Deployments
    BY <1>3, CandIsDeployment DEF Send, TransportError, Respond, Headers, At, CandPcs, OnNode
  <2>2. UNCHANGED breakerVars \/ \E ok \in BOOLEAN : Record(Cand(q), ok)
    BY <1>3 DEF Send, TransportError, Respond, Headers
  <2> QED BY <1>1, <2>1, <2>2, RecordOpensAfresh
<1>4. ASSUME NEW d \in Deployments, CooldownPasses(d) PROVE BreakerTyped /\ Afresh
  BY <1>0, <1>4, BreakerIdle DEF CooldownPasses
<1>5. ASSUME NEW q \in Requests,
             \/ Enqueue(q) \/ TakeSem(q) \/ LeaveQueue(q) \/ GiveUp(q) \/ Prepare(q) \/ NextCandidate(q)
             \/ Acquire(q) \/ Body(q) \/ Release(q) \/ Leave(q) \/ ContextEnds(q)
      PROVE  UNCHANGED breakerVars
  BY <1>5 DEF Enqueue, TakeSem, LeaveQueue, GiveUp, Prepare, NextCandidate, Acquire, Body, Release,
     Leave, ContextEnds
<1>6. ASSUME NEW d \in Deployments, Probe(d) \/ Drain(d) \/ Resume(d) PROVE UNCHANGED breakerVars
  BY <1>6 DEF Probe, Drain, Resume
<1>7. CASE UNCHANGED vars
  BY <1>1, <1>7 DEF vars
<1> QED BY <1>1, <1>2, <1>3, <1>4, <1>5, <1>6, <1>7 DEF Next, RequestStep

-----------------------------------------------------------------------------
(***************************************************************************)
(* Types                                                                   *)
(***************************************************************************)

\* Everything keeps its type; a call at a candidate has one.
LEMMA TypeStep == TypeOK /\ [Next]_vars => TypeOK'
<1> SUFFICES ASSUME TypeOK, [Next]_vars PROVE TypeOK'
  OBVIOUS
<1>0. /\ queue \in Int /\ sem \in Int /\ inflight \in [Deployments -> Int]
      /\ req \in [Requests -> RequestRecord]
      /\ healthy \subseteq Deployments /\ draining \subseteq Deployments
  BY DEF TypeOK
<1>1. BreakerTyped
  BY BreakersOpenAfresh
<1>2. ASSUME NEW q \in Requests, Enqueue(q) \/ RequestStep(q) \/ ContextEnds(q) PROVE TypeOK'
  <2>1. Places(q) /\ Counts(q)
    BY <1>2, CallKeepsCount
  <2>2. queue' \in Int /\ sem' \in Int
    BY <1>0, <2>1 DEF Places, Ind
  <2>3. ASSUME NEW p \in Requests, req'[p].pc \in CandPcs PROVE req'[p].ordered # <<>>
    BY <2>1, <2>3 DEF Places, OnlyCall, TypeOK, CandPcs
  <2>4. UNCHANGED draining
    BY <1>2 DEF RequestStep, Enqueue, TakeSem, LeaveQueue, GiveUp, Prepare, NextCandidate, Acquire,
       BreakerGate, Send, TransportError, Respond, Headers, Body, Release, Leave, ContextEnds, poolVars
  <2>5. healthy' \subseteq Deployments
    BY <1>0, <1>2 DEF RequestStep, Enqueue, TakeSem, LeaveQueue, GiveUp, Prepare, NextCandidate, Acquire,
       BreakerGate, Send, TransportError, Respond, Headers, Body, Release, Leave, ContextEnds, poolVars
  <2> QED BY <1>0, <1>1, <2>1, <2>2, <2>3, <2>4, <2>5 DEF TypeOK, BreakerTyped, Counts, Places, OnlyCall, CandPcs
<1>3. ASSUME NEW d \in Deployments, Probe(d) \/ Drain(d) \/ Resume(d) \/ CooldownPasses(d) PROVE TypeOK'
  <2>1. UNCHANGED <<queue, sem, req, inflight>>
    BY <1>3 DEF Probe, Drain, Resume, CooldownPasses, poolVars
  <2>2. healthy' \subseteq Deployments /\ draining' \subseteq Deployments
    BY <1>0, <1>3 DEF Probe, Drain, Resume, CooldownPasses, poolVars
  <2> QED BY <1>1, <2>1, <2>2 DEF TypeOK, BreakerTyped
<1>4. CASE UNCHANGED vars
  BY <1>4 DEF vars, poolVars, breakerVars, TypeOK
<1> QED BY <1>2, <1>3, <1>4 DEF Next

\* The initial state has the types declared.
LEMMA TypeInit == Init => TypeOK
<1> SUFFICES ASSUME Init PROVE TypeOK
  OBVIOUS
<1>1. Call("idle") \in RequestRecord
  BY DEF Call, RequestRecord
<1>2. req \in [Requests -> RequestRecord] /\ \A q \in Requests : req[q].pc = "idle"
  BY <1>1 DEF Init, Call
<1> QED BY <1>2 DEF Init, TypeOK, OnNode

\* TypeOK holds for any numbers of calls, deployments, places and failures: in
\* particular no call is at a candidate when none is left (Execute's loop).
THEOREM OrchestratorTypes == Spec => []TypeOK
BY TypeInit, TypeStep, PTL DEF Spec

\* breakerOpen and recordResult: however many calls are out, a breaker that opens
\* has a full cooldown ahead.
THEOREM OpensAfresh == Spec => BreakerOpensAfresh
<1>1. TypeOK /\ [Next]_vars =>
        [\A d \in Deployments :
           failures[d] < Threshold /\ failures'[d] >= Threshold => d \notin cooled']_vars
  BY BreakersOpenAfresh DEF Afresh
<1> QED BY <1>1, OrchestratorTypes, PTL DEF Spec, BreakerOpensAfresh

-----------------------------------------------------------------------------
(***************************************************************************)
(* Counting                                                                *)
(***************************************************************************)

\* A set that differs in one element at most.
LEMMA CountChanges ==
  ASSUME NEW S, NEW T, NEW x, IsFiniteSet(S), IsFiniteSet(T), S \ {x} = T \ {x}
  PROVE  /\ Cardinality(S) \in Nat /\ Cardinality(T) \in Nat
         /\ Cardinality(T) = Cardinality(S) + Ind(x \in T) - Ind(x \in S)
         /\ x \in S => Cardinality(S) > 0
<1>1. Cardinality(S) \in Nat /\ Cardinality(T) \in Nat
  BY FS_CardinalityType
<1>2. x \in S => Cardinality(S) # 0
  BY FS_EmptySet
<1>3. CASE x \in S /\ x \in T
  <2>1. S = T
    BY <1>3
  <2> QED BY <1>1, <1>2, <1>3, <2>1 DEF Ind
<1>4. CASE x \in S /\ x \notin T
  <2>1. T = S \ {x}
    BY <1>4
  <2>2. Cardinality(T) = Cardinality(S) - 1
    BY <1>4, <2>1, FS_RemoveElement
  <2> QED BY <1>1, <1>2, <1>4, <2>2 DEF Ind
<1>5. CASE x \notin S /\ x \in T
  <2>1. T = S \cup {x}
    BY <1>5
  <2>2. Cardinality(T) = Cardinality(S) + 1
    BY <1>5, <2>1, FS_AddElement
  <2> QED BY <1>1, <1>5, <2>2 DEF Ind
<1>6. CASE x \notin S /\ x \notin T
  <2>1. S = T
    BY <1>6
  <2> QED BY <1>1, <1>6, <2>1 DEF Ind
<1> QED BY <1>3, <1>4, <1>5, <1>6

\* The calls at one of some program points.
CallsAt(pcs) == {q \in Requests : req[q].pc \in pcs}

\* A step of one call changes their number by that call.
LEMMA CallsAtChange ==
  ASSUME NEW q \in Requests, OnlyCall(q), NEW pcs
  PROVE  /\ Cardinality(CallsAt(pcs)) \in Nat /\ Cardinality(CallsAt(pcs)') \in Nat
         /\ Cardinality(CallsAt(pcs)')
              = Cardinality(CallsAt(pcs)) + Ind(req'[q].pc \in pcs) - Ind(req[q].pc \in pcs)
<1>1. IsFiniteSet(CallsAt(pcs)) /\ IsFiniteSet(CallsAt(pcs)')
  <2>1. CallsAt(pcs) \subseteq Requests /\ CallsAt(pcs)' \subseteq Requests /\ IsFiniteSet(Requests)
    BY OrchestratorConstants DEF CallsAt
  <2> QED BY <2>1, FS_Subset
<1>2. CallsAt(pcs) \ {q} = CallsAt(pcs)' \ {q}
  BY DEF CallsAt, OnlyCall
<1>3. (q \in CallsAt(pcs) <=> req[q].pc \in pcs) /\ (q \in CallsAt(pcs)' <=> req'[q].pc \in pcs)
  BY DEF CallsAt
<1> QED BY <1>1, <1>2, <1>3, CountChanges DEF Ind

\* Both counts follow the calls.
LEMMA AdmissionStep ==
  ASSUME TypeOK, AdmissionAccounting, [Next]_vars
  PROVE  AdmissionAccounting'
<1>0. /\ queue = Cardinality(CallsAt(Waiting)) /\ sem = Cardinality(CallsAt(Holding))
      /\ queue <= MaxQueue /\ sem <= MaxConcurrent
  BY DEF AdmissionAccounting, CallsAt
<1>1. ASSUME queue' = Cardinality(CallsAt(Waiting)'), sem' = Cardinality(CallsAt(Holding)'),
             queue' <= MaxQueue, sem' <= MaxConcurrent
      PROVE  AdmissionAccounting'
  BY <1>1 DEF AdmissionAccounting, CallsAt
<1>2. ASSUME UNCHANGED <<queue, sem, req>> PROVE AdmissionAccounting'
  BY <1>0, <1>1, <1>2 DEF CallsAt
<1>3. ASSUME NEW q \in Requests, Enqueue(q) \/ RequestStep(q) \/ ContextEnds(q) PROVE AdmissionAccounting'
  <2>1. Places(q)
    BY <1>3, CallKeepsCount
  <2>2. OnlyCall(q)
    BY <2>1 DEF Places
  <2>3. queue' = Cardinality(CallsAt(Waiting)') /\ Cardinality(CallsAt(Waiting)) \in Nat /\ queue' \in Nat
    BY <1>0, <2>1, <2>2, CallsAtChange DEF Places
  <2>4. sem' = Cardinality(CallsAt(Holding)') /\ Cardinality(CallsAt(Holding)) \in Nat /\ sem' \in Nat
    BY <1>0, <2>1, <2>2, CallsAtChange DEF Places
  <2>5. queue' <= queue + 1 /\ sem' <= sem + 1
    BY <1>0, <2>1, <2>3, <2>4 DEF Places, Ind
  <2>6. queue' <= MaxQueue /\ sem' <= MaxConcurrent
    BY <1>0, <2>1, <2>3, <2>4, <2>5, OrchestratorConstants DEF Places
  <2> QED BY <1>1, <2>3, <2>4, <2>6
<1>4. ASSUME NEW d \in Deployments, Probe(d) \/ Drain(d) \/ Resume(d) \/ CooldownPasses(d)
      PROVE  UNCHANGED <<queue, sem, req>>
  BY <1>4 DEF Probe, Drain, Resume, CooldownPasses
<1>5. CASE UNCHANGED vars
  BY <1>2, <1>5 DEF vars
<1> QED BY <1>2, <1>3, <1>4, <1>5 DEF Next

\* admit and the deferred release: on every way through Execute and ExecuteStream
\* the places in the queue and in the semaphore are those of calls that wait and
\* that work, and never more than the configuration allows.
THEOREM AdmissionIsAccounted == Spec => []AdmissionAccounting
<1>1. Init => AdmissionAccounting
  <2> SUFFICES ASSUME Init PROVE AdmissionAccounting
    OBVIOUS
  <2>1. CallsAt(Waiting) = {} /\ CallsAt(Holding) = {}
    BY DEF Init, Call, CallsAt, Waiting, Holding, OnNode
  <2>2. Cardinality(CallsAt(Waiting)) = 0 /\ Cardinality(CallsAt(Holding)) = 0
    BY <2>1, FS_EmptySet
  <2>3. queue = 0 /\ sem = 0 /\ queue <= MaxQueue /\ sem <= MaxConcurrent
    BY OrchestratorConstants DEF Init
  <2> QED BY <2>2, <2>3 DEF AdmissionAccounting, CallsAt
<1>2. TypeOK /\ AdmissionAccounting /\ [Next]_vars => AdmissionAccounting'
  BY AdmissionStep
<1> QED BY <1>1, <1>2, OrchestratorTypes, PTL DEF Spec

\* The attempts on a node.
CallsOn(d) == {q \in Requests : req[q].pc \in OnNode /\ Cand(q) = d}

\* The counter of every node follows its attempts.
LEMMA InflightStep ==
  ASSUME TypeOK, InflightAccounting, [Next]_vars
  PROVE  InflightAccounting'
<1>0. \A d \in Deployments : inflight[d] = Cardinality(CallsOn(d))
  BY DEF InflightAccounting, CallsOn
<1>1. ASSUME \A d \in Deployments : inflight'[d] = Cardinality(CallsOn(d)') PROVE InflightAccounting'
  BY <1>1 DEF InflightAccounting, CallsOn
<1>2. ASSUME UNCHANGED <<req, inflight>> PROVE InflightAccounting'
  BY <1>0, <1>1, <1>2 DEF CallsOn, Cand
<1>3. ASSUME NEW q \in Requests, Enqueue(q) \/ RequestStep(q) \/ ContextEnds(q) PROVE InflightAccounting'
  <2>1. OnlyCall(q) /\ Counts(q)
    BY <1>3, CallKeepsCount DEF Places
  <2> SUFFICES ASSUME NEW d \in Deployments PROVE inflight'[d] = Cardinality(CallsOn(d)')
    BY <1>1
  <2>2. IsFiniteSet(CallsOn(d)) /\ IsFiniteSet(CallsOn(d)')
    <3>1. CallsOn(d) \subseteq Requests /\ CallsOn(d)' \subseteq Requests /\ IsFiniteSet(Requests)
      BY OrchestratorConstants DEF CallsOn
    <3> QED BY <3>1, FS_Subset
  <2>3. CallsOn(d) \ {q} = CallsOn(d)' \ {q}
    BY <2>1 DEF CallsOn, OnlyCall, Cand
  <2>4. (q \in CallsOn(d) <=> On(q, d)) /\ (q \in CallsOn(d)' <=> On(q, d)')
    BY DEF CallsOn, On
  <2>5. /\ Cardinality(CallsOn(d)') = Cardinality(CallsOn(d)) + Ind(On(q, d)') - Ind(On(q, d))
        /\ Cardinality(CallsOn(d)) \in Nat
        /\ On(q, d) => Cardinality(CallsOn(d)) > 0
    BY <2>2, <2>3, <2>4, CountChanges DEF Ind
  <2>6. inflight[d] >= Ind(On(q, d))
    BY <1>0, <2>5 DEF Ind
  <2> QED BY <1>0, <2>1, <2>5, <2>6 DEF Counts
<1>4. ASSUME NEW d \in Deployments, Probe(d) \/ Drain(d) \/ Resume(d) \/ CooldownPasses(d)
      PROVE  UNCHANGED <<req, inflight>>
  BY <1>4 DEF Probe, Drain, Resume, CooldownPasses, poolVars
<1>5. CASE UNCHANGED vars
  BY <1>2, <1>5 DEF vars, poolVars
<1> QED BY <1>2, <1>3, <1>4, <1>5 DEF Next

\* Pool.Acquire and its release: Inflight is the number of attempts on the node, so
\* that the release's guard against a count below zero never has to act.
THEOREM InflightIsAccounted == Spec => []InflightAccounting
<1>1. Init => InflightAccounting
  <2> SUFFICES ASSUME Init PROVE InflightAccounting
    OBVIOUS
  <2>1. \A d \in Deployments : CallsOn(d) = {}
    BY DEF Init, Call, CallsOn, OnNode
  <2> QED BY <2>1, FS_EmptySet DEF Init, InflightAccounting, CallsOn
<1>2. TypeOK /\ InflightAccounting /\ [Next]_vars => InflightAccounting'
  BY InflightStep
<1> QED BY <1>1, <1>2, OrchestratorTypes, PTL DEF Spec

-----------------------------------------------------------------------------
(***************************************************************************)
(* Failover                                                                *)
(***************************************************************************)

\* A call that has not tried yet has no outcome, nor keeps one that is over, and
\* one that goes on has the outcome of an attempt that may be followed.
LoopInv ==
  /\ \A q \in Requests : req[q].pc \in Waiting \cup {"idle", "prepare", "done"} => req[q].last = "none"
  /\ NoFailoverAfterTimeout

\* The program points at which the loop goes on.
GoingOn == {"check", "acquire", "gate", "send", "sent", "body"}
Over == {"timeout", "answer", "fault"}

\* A call passes from one attempt to the next only by Release.
LEMMA LastStep ==
  ASSUME TypeOK, LoopInv, NEW q \in Requests, Enqueue(q) \/ RequestStep(q) \/ ContextEnds(q)
  PROVE  /\ req'[q].pc \in Waiting \cup {"idle", "prepare", "done"} => req'[q].last = "none"
         /\ req'[q].pc \in GoingOn => req'[q].last \notin Over
<1>0. req \in [Requests -> RequestRecord]
  BY DEF TypeOK
<1>1. /\ req[q].pc \in Waiting \cup {"idle", "prepare", "done"} => req[q].last = "none"
      /\ req[q].pc \in GoingOn => req[q].last \notin Over
  BY DEF LoopInv, NoFailoverAfterTimeout, GoingOn, Over
<1>2. ASSUME NEW pc \in Pcs, Goto(q, pc),
             \/ req[q].last \notin Over /\ req[q].pc \in GoingOn /\ pc \in GoingOn
             \/ req[q].last = "none"
             \/ pc \in {"leave"}
      PROVE  /\ req'[q].pc \in Waiting \cup {"idle", "prepare", "done"} => req'[q].last = "none"
             /\ req'[q].pc \in GoingOn => req'[q].last \notin Over
  BY <1>2, GotoKeeps DEF Moved, GoingOn, Over, Waiting
<1>3. ASSUME Done(q) PROVE req'[q].pc = "done" /\ req'[q].last = "none"
  BY <1>3, DoneKeeps
<1>4. ASSUME NEW o \in Outcomes, Outcome(q, o) PROVE req'[q].pc = "return"
  BY <1>4, OutcomeKeeps
<1>5. CASE Enqueue(q) \/ TakeSem(q) \/ LeaveQueue(q)
  <2>1. req[q].last = "none"
    BY <1>1, <1>5 DEF Enqueue, TakeSem, LeaveQueue, At, Waiting
  <2>2. \/ \E pc \in {"queued", "dequeue", "prepare"} : Goto(q, pc)
        \/ Done(q)
    BY <1>5 DEF Enqueue, TakeSem, LeaveQueue
  <2> QED BY <1>2, <1>3, <2>1, <2>2 DEF Pcs, Waiting, Holding, GoingOn
<1>6. CASE GiveUp(q) \/ Leave(q)
  BY <1>3, <1>6 DEF GiveUp, Leave, Waiting, GoingOn
<1>7. CASE Prepare(q)
  <2>1. req[q].last = "none"
    BY <1>1, <1>7 DEF Prepare, At
  <2>2. CASE Goto(q, "leave")
    BY <1>2, <2>2 DEF Pcs, Holding
  <2>3. ASSUME NEW order, req' = [req EXCEPT ![q].pc = "check", ![q].ordered = order]
        PROVE  req'[q].last = "none" /\ req'[q].pc = "check"
    BY <1>0, <2>1, <2>3 DEF RequestRecord
  <2> QED BY <1>7, <2>2, <2>3 DEF Prepare, Waiting, Over
<1>8. CASE NextCandidate(q)
  <2>1. req[q].pc = "check" /\ req[q].last \notin Over
    BY <1>1, <1>8 DEF NextCandidate, At, GoingOn
  <2>2. CASE Goto(q, "acquire")
    BY <1>2, <2>1, <2>2 DEF Pcs, Holding, GoingOn
  <2>3. CASE req' = [req EXCEPT ![q].ordered = Tail(@)]
    BY <1>0, <2>1, <2>3 DEF RequestRecord, Waiting
  <2> QED BY <1>8, <2>2, <2>3 DEF NextCandidate
<1>9. CASE Acquire(q) \/ BreakerGate(q) \/ Send(q) \/ Headers(q)
  <2>1. req[q].pc \in GoingOn /\ req[q].last \notin Over
    BY <1>1, <1>9 DEF Acquire, BreakerGate, Send, Headers, At, GoingOn
  <2>2. \/ \E pc \in {"gate", "send", "sent", "body"} : Goto(q, pc)
        \/ \E o \in Outcomes : Outcome(q, o)
    BY <1>9 DEF Acquire, BreakerGate, Send, Headers, Outcomes
  <2> QED BY <1>2, <1>4, <2>1, <2>2 DEF Pcs, Holding, OnNode, GoingOn, Waiting
<1>10. CASE TransportError(q) \/ Respond(q) \/ Body(q)
  <2>1. \E o \in Outcomes : Outcome(q, o)
    BY <1>10 DEF TransportError, Respond, Body, Outcomes
  <2> QED BY <1>4, <2>1 DEF GoingOn, Waiting
<1>11. CASE Release(q)
  <2>1. CASE Goto(q, "leave")
    BY <1>2, <2>1 DEF Pcs, Holding
  <2>2. CASE ~EndsLoop(req[q].last) /\ req' = [req EXCEPT ![q].pc = "check", ![q].ordered = Tail(@)]
    <3>1. req'[q].pc = "check" /\ req'[q].last = req[q].last
      BY <1>0, <2>2 DEF RequestRecord
    <3> QED BY <2>2, <3>1 DEF EndsLoop, Over, Waiting
  <2> QED BY <1>11, <2>1, <2>2 DEF Release, NextOrLeave
<1>12. CASE ContextEnds(q)
  <2>1. PICK end \in {"canceled", "deadline"} : req' = [req EXCEPT ![q].ctx = end]
    BY <1>12 DEF ContextEnds
  <2>2. req'[q].pc = req[q].pc /\ req'[q].last = req[q].last
    BY <1>0, <2>1 DEF RequestRecord
  <2> QED BY <1>1, <2>2
<1> QED BY <1>5, <1>6, <1>7, <1>8, <1>9, <1>10, <1>11, <1>12 DEF RequestStep

\* LoopInv is inductive.
LEMMA LoopStep == TypeOK /\ LoopInv /\ [Next]_vars => LoopInv'
<1> SUFFICES ASSUME TypeOK, LoopInv, [Next]_vars PROVE LoopInv'
  OBVIOUS
<1>1. ASSUME NEW q \in Requests, Enqueue(q) \/ RequestStep(q) \/ ContextEnds(q) PROVE LoopInv'
  <2>1. OnlyCall(q)
    BY <1>1, CallKeepsCount DEF Places
  <2>2. /\ req'[q].pc \in Waiting \cup {"idle", "prepare", "done"} => req'[q].last = "none"
        /\ req'[q].pc \in GoingOn => req'[q].last \notin Over
    BY <1>1, LastStep
  <2> QED BY <2>1, <2>2 DEF LoopInv, NoFailoverAfterTimeout, OnlyCall, GoingOn, Over
<1>2. ASSUME UNCHANGED req PROVE LoopInv'
  BY <1>2 DEF LoopInv, NoFailoverAfterTimeout
<1>3. ASSUME NEW d \in Deployments, Probe(d) \/ Drain(d) \/ Resume(d) \/ CooldownPasses(d) PROVE UNCHANGED req
  BY <1>3 DEF Probe, Drain, Resume, CooldownPasses
<1>4. CASE UNCHANGED vars
  BY <1>2, <1>4 DEF vars
<1> QED BY <1>1, <1>2, <1>3, <1>4 DEF Next

\* orchestrator.go 286: after a timeout, or a response that was passed on, no
\* other candidate is given the request, whatever probes, drains and breakers do.
THEOREM NothingAfterTimeout == Spec => []NoFailoverAfterTimeout
<1>1. Init => LoopInv
  BY DEF Init, Call, LoopInv, NoFailoverAfterTimeout
<1>2. LoopInv => NoFailoverAfterTimeout
  BY DEF LoopInv
<1> QED BY <1>1, <1>2, LoopStep, OrchestratorTypes, PTL DEF Spec

-----------------------------------------------------------------------------
(***************************************************************************)
(* A call from outside, for the modules that make calls                    *)
(***************************************************************************)

\* A call begins once, is not idle or over while it steps, and ends by leaving the
\* queue or the semaphore.
LEMMA CallProgress ==
  ASSUME TypeOK, NEW q \in Requests
  PROVE  /\ Enqueue(q) => req[q].pc = "idle" /\ req'[q].pc \in {"queued", "done"}
         /\ RequestStep(q) => req[q].pc \notin {"idle", "done"} /\ req'[q].pc # "idle"
         /\ RequestStep(q) /\ req'[q].pc = "done" => req[q].pc \in {"queued", "leave"}
         /\ ContextEnds(q) => req[q].pc \notin {"idle", "done"} /\ req'[q].pc = req[q].pc
<1>0. req \in [Requests -> RequestRecord]
  BY DEF TypeOK
<1>1. ASSUME NEW pc \in Pcs, Goto(q, pc) PROVE req'[q].pc = pc
  BY <1>1, GotoKeeps DEF Moved
<1>2. ASSUME Done(q) PROVE req'[q].pc = "done"
  BY <1>2, DoneKeeps
<1>3. ASSUME NEW o \in Outcomes, Outcome(q, o) PROVE req'[q].pc = "return"
  BY <1>3, OutcomeKeeps
<1>4. ASSUME Enqueue(q) PROVE req[q].pc = "idle" /\ req'[q].pc \in {"queued", "done"}
  BY <1>1, <1>2, <1>4 DEF Enqueue, At, Pcs, Waiting
<1>5. ASSUME ContextEnds(q) PROVE req[q].pc \notin {"idle", "done"} /\ req'[q].pc = req[q].pc
  BY <1>0, <1>5 DEF ContextEnds, RequestRecord
<1>6. ASSUME RequestStep(q)
      PROVE  /\ req[q].pc \notin {"idle", "done"} /\ req'[q].pc # "idle"
             /\ req'[q].pc = "done" => req[q].pc \in {"queued", "leave"}
  <2>1. CASE TakeSem(q) \/ LeaveQueue(q) \/ GiveUp(q) \/ Acquire(q) \/ Leave(q)
    BY <1>1, <1>2, <2>1 DEF TakeSem, LeaveQueue, GiveUp, Acquire, Leave, At, Pcs, Waiting, Holding, OnNode
  <2>2. CASE Prepare(q)
    <3>1. req[q].pc = "prepare"
      BY <2>2 DEF Prepare, At
    <3>2. ASSUME NEW order, req' = [req EXCEPT ![q].pc = "check", ![q].ordered = order] PROVE req'[q].pc = "check"
      BY <1>0, <3>2 DEF RequestRecord
    <3> QED BY <1>1, <2>2, <3>1, <3>2 DEF Prepare, Pcs, Holding
  <2>3. CASE NextCandidate(q)
    <3>1. req[q].pc = "check"
      BY <2>3 DEF NextCandidate, At
    <3>2. ASSUME req' = [req EXCEPT ![q].ordered = Tail(@)] PROVE req'[q].pc = "check"
      BY <1>0, <3>1, <3>2 DEF RequestRecord
    <3> QED BY <1>1, <2>3, <3>1, <3>2 DEF NextCandidate, Pcs, Holding
  <2>4. CASE BreakerGate(q) \/ Send(q) \/ TransportError(q) \/ Respond(q) \/ Headers(q) \/ Body(q)
    <3>1. req[q].pc \in OnNode
      BY <2>4 DEF BreakerGate, Send, TransportError, Respond, Headers, Body, At, OnNode
    <3>2. \/ \E pc \in {"send", "sent", "body"} : Goto(q, pc)
          \/ \E o \in Outcomes : Outcome(q, o)
      BY <2>4 DEF BreakerGate, Send, TransportError, Respond, Headers, Body, Outcomes
    <3> QED BY <1>1, <1>3, <3>1, <3>2 DEF Pcs, Holding, OnNode
  <2>5. CASE Release(q)
    <3>1. req[q].pc = "return"
      BY <2>5 DEF Release, At
    <3>2. ASSUME req' = [req EXCEPT ![q].pc = "check", ![q].ordered = Tail(@)] PROVE req'[q].pc = "check"
      BY <1>0, <3>2 DEF RequestRecord
    <3> QED BY <1>1, <2>5, <3>1, <3>2 DEF Release, NextOrLeave, Pcs, Holding
  <2> QED BY <1>6, <2>1, <2>2, <2>3, <2>4, <2>5 DEF RequestStep
<1> QED BY <1>4, <1>5, <1>6

\* connector.go 170: what is sent is sent in a context that has not ended.
LEMMA SentWhileLive ==
  ASSUME TypeOK, NEW q \in Requests, RequestStep(q), req[q].pc = "send", req'[q].pc = "sent"
  PROVE  req[q].ctx = "live"
<1>1. Send(q)
  BY DEF RequestStep, TakeSem, LeaveQueue, GiveUp, Prepare, NextCandidate, Acquire, BreakerGate,
     TransportError, Respond, Headers, Body, Release, Leave, At
<1>2. \A o \in Outcomes : ~Outcome(q, o)
  BY OutcomeKeeps
<1> QED BY <1>1, <1>2 DEF Send, Outcomes

\* Types and the loop's invariant at once, step by step.
LEMMA OrchestratorInit == Init => TypeOK /\ LoopInv
BY TypeInit DEF Init, Call, LoopInv, NoFailoverAfterTimeout

LEMMA OrchestratorStep == TypeOK /\ LoopInv /\ [Next]_vars => (TypeOK /\ LoopInv)'
BY TypeStep, LoopStep

\* A step of a call leaves the other calls alone.
LEMMA CallAlone ==
  ASSUME TypeOK, NEW q \in Requests, Enqueue(q) \/ RequestStep(q) \/ ContextEnds(q)
  PROVE  \A p \in Requests \ {q} : req'[p] = req[p]
BY CallKeepsCount DEF Places, OnlyCall
=============================================================================
