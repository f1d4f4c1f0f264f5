------------------------ MODULE GatewayRequestProofs ------------------------
(***************************************************************************)
(* Proofs about GatewayRequest, for any number of requests, runtimes, data *)
(* classes and configurations that succeed one another.                    *)
(***************************************************************************)
EXTENDS GatewayRequest, SequenceTheorems, TLAPS

-----------------------------------------------------------------------------
(* What holds of every request by itself. Where it may be sent is a matter of *)
(* its class and mode alone, not of the configuration in place: that is what  *)
(* makes the invariant survive SetConfig.                                     *)

MayLeave(q) == q.class \in Exportable /\ q.mode # "local-only"

\* The runtimes a request may be lined up for.
Allowed(q) == IF MayLeave(q) THEN Runtimes ELSE Range(Locals)

Fine(q) ==
  /\ q \in Request
  /\ q.left \in Seq(Allowed(q)) /\ q.took \in Seq(Allowed(q))
  /\ q.pc \in Early => q.left = <<>> /\ q.took = <<>> /\ ~q.timedOut
  /\ q.pc = "relay" => q.left # <<>>
  /\ q.timedOut => q.left = <<>>
  /\ IF q.pc = "done" THEN Recorded(q) ELSE q.audits = <<>> /\ q.usage = 0 /\ ~q.served

IInv ==
  /\ cfg \in {c \in Candidates : Validate(c)}
  /\ auth \in [key : Key, count : Nat] /\ applies \in 0 .. MaxApplies
  /\ req \in [Requests -> Request]
  /\ \A r \in Requests : Fine(req[r])

LEMMA LocalRuntimes ==
  /\ Range(Locals) \subseteq Runtimes /\ Cloud \in Runtimes \ Range(Locals)
  /\ Locals \in Seq(Range(Locals)) /\ MaxApplies \in Nat
  /\ \A c \in Candidates : c.key \in Key
BY ConstantsAssumption, Zenon DEF ConstantsAssumption, Runtimes, Key

\* A handler that becomes a request that is fine leaves the other ones fine.
LEMMA BecomeKeeps ==
  ASSUME IInv, NEW r \in Requests, NEW q, Fine(q), Become(r, q)
  PROVE  req' \in [Requests -> Request] /\ \A p \in Requests : Fine(req'[p])
BY DEF IInv, Fine, Become

\* One line in an empty log.
LEMMA OneLine ==
  ASSUME NEW q \in Request, q.audits = <<>>, NEW status \in Statuses,
         NEW result \in {"denied", "failed", "success", "upstream", "body_error", "client_gone"},
         NEW routing \in {"local-only", "local", "hybrid-cloud", "platform"}
  PROVE  LET line == [status |-> status, result |-> result, routing |-> routing]
             a == Audited(q, status, result, routing)
         IN  a = [q EXCEPT !.audits = <<line>>] /\ a \in Request
<1> DEFINE line == [status |-> status, result |-> result, routing |-> routing]
<1>1. line \in Audits
  BY DEF Audits
<1>2. Append(<<>>, line) = <<line>> /\ <<line>> \in Seq(Audits)
  BY <1>1
<1>3. Audited(q, status, result, routing) = [q EXCEPT !.audits = <<line>>]
  BY <1>2 DEF Audited
<1>4. [q EXCEPT !.audits = <<line>>] \in Request
  BY <1>2 DEF Request
<1> QED BY <1>3, <1>4

\* A request at another place and with another status is the same otherwise.
Placed(q, pc, status) == [q EXCEPT !.pc = pc, !.status = status]

LEMMA PlacedIsTyped ==
  ASSUME NEW q \in Request, NEW pc \in {"relay", "done"}, NEW status \in Statuses
  PROVE  LET p == Placed(q, pc, status) IN
         /\ p \in Request /\ p.pc = pc /\ p.status = status
         /\ p.class = q.class /\ p.mode = q.mode /\ p.left = q.left /\ p.took = q.took
         /\ p.audits = q.audits /\ p.usage = q.usage
         /\ p.served = q.served /\ p.timedOut = q.timedOut
<1> DEFINE t == [q EXCEPT !.pc = pc]
<1>1. /\ t \in Request /\ t.pc = pc
      /\ t.class = q.class /\ t.mode = q.mode /\ t.left = q.left /\ t.took = q.took
      /\ t.audits = q.audits /\ t.usage = q.usage
      /\ t.served = q.served /\ t.timedOut = q.timedOut
  BY DEF Request
<1>2. Placed(q, pc, status) = [t EXCEPT !.status = status]
  BY DEF Placed
<1> HIDE DEF t
<1> DEFINE p == [t EXCEPT !.status = status]
<1>3. /\ p \in Request /\ p.pc = t.pc /\ p.status = status
      /\ p.class = t.class /\ p.mode = t.mode /\ p.left = t.left /\ p.took = t.took
      /\ p.audits = t.audits /\ p.usage = t.usage
      /\ p.served = t.served /\ p.timedOut = t.timedOut
  BY <1>1 DEF Request
<1> HIDE DEF p
<1>4. /\ p \in Request /\ p.pc = pc /\ p.status = status
      /\ p.class = q.class /\ p.mode = q.mode /\ p.left = q.left /\ p.took = q.took
      /\ p.audits = q.audits /\ p.usage = q.usage
      /\ p.served = q.served /\ p.timedOut = q.timedOut
  BY <1>1, <1>3
<1> QED BY <1>2, <1>4 DEF p

\* A request that is refused before any runtime is asked.
LEMMA DeniedIsFine ==
  ASSUME NEW q, Fine(q), q.pc \in Early, NEW status \in Statuses,
         NEW routing \in {"local-only", "local", "platform"}
  PROVE  Fine(Audited(Refused(q, status), status, "denied", routing))
<1> DEFINE s == Refused(q, status)
<1>1. q \in Request /\ q.audits = <<>> /\ q.usage = 0 /\ ~q.served
      /\ q.left = <<>> /\ q.took = <<>>
  BY DEF Fine, Early
<1>2. s \in Request /\ s.audits = <<>> /\ s.pc = "done" /\ s.usage = 0 /\ ~s.served
      /\ s.left = <<>> /\ s.took = <<>> /\ s.status = status
      /\ s.class = q.class /\ s.mode = q.mode
  BY <1>1 DEF Refused, Request
<1> DEFINE line == [status |-> status, result |-> "denied", routing |-> routing]
           a == Audited(s, status, "denied", routing)
<1> HIDE DEF s
<1>3. a = [s EXCEPT !.audits = <<line>>] /\ a \in Request
  BY <1>2, OneLine
<1>4. a.audits = <<line>> /\ a.pc = "done" /\ a.usage = 0 /\ ~a.served
      /\ a.left = <<>> /\ a.took = <<>> /\ a.status = status
  BY <1>2, <1>3 DEF Request
<1> HIDE DEF a
<1>5. Recorded(a)
  BY <1>4 DEF Recorded, Tells
<1>6. <<>> \in Seq(Allowed(a))
  BY EmptySeq
<1>7. Fine(a)
  BY <1>3, <1>4, <1>5, <1>6 DEF Fine, Early
<1> QED BY <1>7 DEF a, s

\* What a handler does to its request alone.
LEMMA StepKeeps ==
  ASSUME IInv, NEW r \in Requests, NEW q, Fine(q), Become(r, q), UNCHANGED <<cfg, auth, applies>>
  PROVE  IInv'
BY BecomeKeeps DEF IInv, Fine

\* A request that goes on to another step before a runtime is asked.
LEMMA EarlyMove ==
  ASSUME NEW q, Fine(q), q.pc \in Early, NEW p \in Request, p.pc \in Early,
         p.left = q.left, p.took = q.took, p.audits = q.audits, p.usage = q.usage,
         p.served = q.served, p.timedOut = q.timedOut
  PROVE  Fine(p)
<1>1. p.left = <<>> /\ p.took = <<>> /\ p.audits = <<>> /\ p.usage = 0 /\ ~p.served
  BY DEF Fine, Early
<1>2. <<>> \in Seq(Allowed(p))
  BY EmptySeq
<1> QED BY <1>1, <1>2 DEF Fine, Early

\* A request that moves within the loop over the runtimes.
LEMMA LoopMove ==
  ASSUME NEW q, Fine(q), q.pc = "send", NEW p \in Request, p.pc \in {"send", "relay"},
         p.class = q.class, p.mode = q.mode,
         p.left \in Seq(Allowed(q)), p.took \in Seq(Allowed(q)),
         p.pc = "relay" => p.left # <<>>, p.timedOut => p.left = <<>>,
         p.audits = q.audits, p.usage = q.usage, p.served = q.served
  PROVE  Fine(p)
<1>1. Allowed(p) = Allowed(q)
  BY DEF Allowed, MayLeave
<1>2. p.audits = <<>> /\ p.usage = 0 /\ ~p.served
  BY DEF Fine
<1> QED BY <1>1, <1>2 DEF Fine, Early

LEMMA AllowedRuntimes ==
  ASSUME NEW q
  PROVE  Allowed(q) \subseteq Runtimes
BY LocalRuntimes DEF Allowed

-----------------------------------------------------------------------------
(* withAuth *)

LEMMA DenyKeeps ==
  ASSUME IInv, NEW r \in Requests, req[r].pc \in Early, NEW status \in Statuses,
         NEW routing \in {"local-only", "local", "platform"},
         Deny(r, status, routing), UNCHANGED <<cfg, applies>>,
         auth' \in [key : Key, count : Nat]
  PROVE  IInv'
<1>1. Fine(req[r])
  BY DEF IInv
<1>2. Fine(Audited(Refused(req[r], status), status, "denied", routing))
  BY <1>1, DeniedIsFine
<1>3. req' \in [Requests -> Request] /\ \A p \in Requests : Fine(req'[p])
  BY <1>2, BecomeKeeps DEF Deny
<1> QED BY <1>3 DEF IInv, Fine

LEMMA EarlyKeeps ==
  ASSUME IInv, NEW r \in Requests, req[r].pc \in Early,
         NEW q \in Request, q.pc \in Early, q.left = req[r].left, q.took = req[r].took,
         q.audits = req[r].audits, q.usage = req[r].usage, q.served = req[r].served,
         q.timedOut = req[r].timedOut,
         Become(r, q), UNCHANGED <<cfg, applies>>, auth' \in [key : Key, count : Nat]
  PROVE  IInv'
<1>1. Fine(req[r])
  BY DEF IInv
<1>2. Fine(q)
  BY <1>1, EarlyMove
<1>3. req' \in [Requests -> Request] /\ \A p \in Requests : Fine(req'[p])
  BY <1>2, BecomeKeeps
<1> QED BY <1>3 DEF IInv, Fine

LEMMA AuthenticateKeeps ==
  ASSUME IInv, NEW r \in Requests, Authenticate(r)
  PROVE  IInv'
<1>1. req[r] \in Request /\ req[r].pc = "new" /\ auth \in [key : Key, count : Nat] /\ auth' = auth
  BY DEF Authenticate, At, IInv
<1>2. CASE auth.key.on
  <2> DEFINE q == [req[r] EXCEPT !.pc = "rate", !.key = auth.key]
  <2>1. Become(r, q) /\ UNCHANGED <<cfg, applies>>
    BY <1>2 DEF Authenticate
  <2>2. q \in Request /\ q.pc \in Early /\ q.left = req[r].left /\ q.took = req[r].took
        /\ q.audits = req[r].audits /\ q.usage = req[r].usage /\ q.served = req[r].served
        /\ q.timedOut = req[r].timedOut /\ req[r].pc \in Early
    BY <1>1 DEF Request, Early
  <2> QED BY <1>1, <2>1, <2>2, EarlyKeeps
<1>3. CASE ~auth.key.on
  <2>1. Deny(r, 401, "local-only") /\ UNCHANGED <<cfg, applies>>
    BY <1>3 DEF Authenticate
  <2> QED BY <1>1, <2>1, DenyKeeps DEF Early, Statuses
<1> QED BY <1>2, <1>3

LEMMA CheckRateKeeps ==
  ASSUME IInv, NEW r \in Requests, CheckRate(r)
  PROVE  IInv'
<1> DEFINE limit == req[r].key.limit
           q == [req[r] EXCEPT !.pc = "class"]
<1>1. req[r] \in Request /\ req[r].pc = "rate" /\ auth \in [key : Key, count : Nat]
      /\ UNCHANGED <<cfg, applies>>
  BY DEF CheckRate, At, IInv
<1>2. q \in Request /\ q.pc \in Early /\ q.left = req[r].left /\ q.took = req[r].took
      /\ q.audits = req[r].audits /\ q.usage = req[r].usage /\ q.served = req[r].served
      /\ q.timedOut = req[r].timedOut /\ req[r].pc \in Early
  BY <1>1 DEF Request, Early
<1>3. [auth EXCEPT !.count = @ + 1] \in [key : Key, count : Nat]
  BY <1>1
<1>4. \/ Become(r, q) /\ auth' = auth
      \/ Become(r, q) /\ auth' = [auth EXCEPT !.count = @ + 1]
      \/ Deny(r, 429, "local-only") /\ auth' = auth
  BY Zenon DEF CheckRate
<1>5. CASE Become(r, q) /\ auth' \in [key : Key, count : Nat]
  BY <1>1, <1>2, <1>5, EarlyKeeps
<1>6. CASE Deny(r, 429, "local-only") /\ auth' = auth
  BY <1>1, <1>2, <1>6, DenyKeeps DEF Statuses
<1> QED BY <1>1, <1>3, <1>4, <1>5, <1>6

LEMMA CheckClassKeeps ==
  ASSUME IInv, NEW r \in Requests, CheckClass(r)
  PROVE  IInv'
<1>1. req[r] \in Request /\ req[r].pc = "class" /\ auth \in [key : Key, count : Nat]
      /\ UNCHANGED <<cfg, auth, applies>> /\ req[r].pc \in Early
  BY DEF CheckClass, At, IInv, Early
<1>2. PICK class \in Classes \cup {Undeclared} :
        \/ Become(r, [req[r] EXCEPT !.pc = "mode", !.class = class])
        \/ Deny(r, 403, "local-only")
  BY DEF CheckClass
<1> DEFINE q == [req[r] EXCEPT !.pc = "mode", !.class = class]
<1>3. q \in Request /\ q.pc \in Early /\ q.left = req[r].left /\ q.took = req[r].took
      /\ q.audits = req[r].audits /\ q.usage = req[r].usage /\ q.served = req[r].served
      /\ q.timedOut = req[r].timedOut
  BY <1>1 DEF Request, Early
<1>4. CASE Become(r, q)
  BY <1>1, <1>3, <1>4, EarlyKeeps
<1>5. CASE Deny(r, 403, "local-only")
  BY <1>1, <1>5, DenyKeeps DEF Statuses
<1> QED BY <1>2, <1>4, <1>5

LEMMA CheckModeKeeps ==
  ASSUME IInv, NEW r \in Requests, CheckMode(r)
  PROVE  IInv'
<1>1. req[r] \in Request /\ req[r].pc = "mode" /\ auth \in [key : Key, count : Nat]
      /\ UNCHANGED <<cfg, auth, applies>> /\ req[r].pc \in Early
  BY DEF CheckMode, At, IInv, Early
<1>2. PICK mode \in {"any", "local-only", "hybrid"} :
        \/ Become(r, [req[r] EXCEPT !.pc = "route", !.mode = mode])
        \/ Deny(r, 403, "local-only")
  BY DEF CheckMode
<1> DEFINE q == [req[r] EXCEPT !.pc = "route", !.mode = mode]
<1>3. q \in Request /\ q.pc \in Early /\ q.left = req[r].left /\ q.took = req[r].took
      /\ q.audits = req[r].audits /\ q.usage = req[r].usage /\ q.served = req[r].served
      /\ q.timedOut = req[r].timedOut
  BY <1>1 DEF Request, Early
<1>4. CASE Become(r, q)
  BY <1>1, <1>3, <1>4, EarlyKeeps
<1>5. CASE Deny(r, 403, "local-only")
  BY <1>1, <1>5, DenyKeeps DEF Statuses
<1> QED BY <1>2, <1>4, <1>5

LEMMA RouteKeeps ==
  ASSUME IInv, NEW r \in Requests, Route(r)
  PROVE  IInv'
<1>1. req[r] \in Request /\ req[r].pc = "route" /\ auth \in [key : Key, count : Nat]
      /\ UNCHANGED <<cfg, auth, applies>> /\ req[r].pc \in Early
  BY DEF Route, At, IInv, Early
<1>2. PICK pc \in {"platform", "proxy"} : Become(r, [req[r] EXCEPT !.pc = pc])
  <2>1. CASE cfg.platform
    BY <2>1 DEF Route
  <2>2. CASE ~cfg.platform
    BY <2>2 DEF Route
  <2> QED BY <2>1, <2>2
<1> DEFINE q == [req[r] EXCEPT !.pc = pc]
<1>3. q \in Request /\ q.pc \in Early /\ q.left = req[r].left /\ q.took = req[r].took
      /\ q.audits = req[r].audits /\ q.usage = req[r].usage /\ q.served = req[r].served
      /\ q.timedOut = req[r].timedOut
  BY <1>1, <1>2 DEF Request, Early
<1> QED BY <1>1, <1>2, <1>3, EarlyKeeps

-----------------------------------------------------------------------------
(* proxyRequest *)

\* A malformed body leaves no line in the audit log.
LEMMA BadBodyKeeps ==
  ASSUME IInv, NEW r \in Requests, BadBody(r)
  PROVE  IInv'
<1> DEFINE q == Refused(req[r], 400)
<1>1. Fine(req[r]) /\ req[r].pc \in Early
  BY DEF IInv, BadBody, Early
<1>a. /\ req[r] \in Request /\ req[r].audits = <<>> /\ req[r].usage = 0 /\ ~req[r].served
      /\ req[r].left = <<>> /\ req[r].took = <<>>
  BY <1>1 DEF Fine, Early
<1>b. 400 \in Statuses
  BY DEF Statuses
<1>2. /\ q \in Request /\ q.pc = "done" /\ q.status = 400 /\ q.audits = <<>> /\ q.usage = 0
      /\ ~q.served /\ q.left = <<>> /\ q.took = <<>>
  <2>1. q = Placed(req[r], "done", 400)
    BY DEF Refused, Placed
  <2> HIDE DEF q
  <2> QED BY <1>a, <1>b, <2>1, PlacedIsTyped
<1> HIDE DEF q
<1>3. Recorded(q) /\ <<>> \in Seq(Allowed(q))
  BY <1>2, EmptySeq DEF Recorded
<1>4. Fine(q)
  BY <1>2, <1>3 DEF Fine, Early
<1>5. Become(r, q) /\ UNCHANGED <<cfg, auth, applies>>
  BY DEF BadBody, q
<1> QED BY <1>4, <1>5, StepKeeps

\* The policy, for a configuration that Validate has accepted: only a request
\* that may leave is lined up for the cloud.
LEMMA AttemptsAreAllowed ==
  ASSUME NEW c, Validate(c), NEW q, NEW credential \in BOOLEAN
  PROVE  Attempts(c, q, credential) \in Seq(Allowed(q))
<1>1. CloudEligible(c, q.class, q.mode) => MayLeave(q)
  BY DEF CloudEligible, Validate, MayLeave
<1>2. Locals \in Seq(Allowed(q))
  BY LocalRuntimes, SeqMonotonic DEF Allowed
<1>3. CASE CloudEligible(c, q.class, q.mode) /\ credential
  <2>1. Allowed(q) = Runtimes
    BY <1>1, <1>3 DEF Allowed
  <2>2. <<Cloud>> \in Seq(Runtimes)
    BY LocalRuntimes
  <2>3. Locals \o <<Cloud>> \in Seq(Allowed(q))
    BY <1>2, <2>1, <2>2, ConcatProperties
  <2> QED BY <1>3, <2>3 DEF Attempts
<1>4. CASE ~(CloudEligible(c, q.class, q.mode) /\ credential)
  <2>1. Locals \o <<>> \in Seq(Allowed(q))
    BY <1>2, EmptySeq, ConcatProperties
  <2> QED BY <1>4, <2>1 DEF Attempts
<1> QED BY <1>3, <1>4

LEMMA ResolveKeeps ==
  ASSUME IInv, NEW r \in Requests, Resolve(r)
  PROVE  IInv'
<1>1. /\ Fine(req[r]) /\ req[r].pc = "proxy" /\ req[r].pc \in Early
      /\ UNCHANGED <<cfg, auth, applies>> /\ Validate(cfg) /\ auth \in [key : Key, count : Nat]
  BY DEF IInv, Resolve, At, Early
<1>2. PICK credential \in BOOLEAN :
        \/ Deny(r, 404, "local") \/ Deny(r, 403, "local")
        \/ Become(r, [req[r] EXCEPT !.pc = "send", !.left = Attempts(cfg, req[r], credential)])
  BY Zenon DEF Resolve
<1>3. CASE Deny(r, 404, "local") \/ Deny(r, 403, "local")
  BY <1>1, <1>3, DenyKeeps DEF Statuses
<1>4. CASE Become(r, [req[r] EXCEPT !.pc = "send", !.left = Attempts(cfg, req[r], credential)])
  <2> DEFINE lined == Attempts(cfg, req[r], credential)
             q == [req[r] EXCEPT !.pc = "send", !.left = lined]
  <2>1. lined \in Seq(Allowed(req[r]))
    BY <1>1, AttemptsAreAllowed
  <2>2. lined \in Seq(Runtimes)
    BY <2>1, AllowedRuntimes, SeqMonotonic
  <2>3. req[r] \in Request /\ req[r].audits = <<>> /\ req[r].usage = 0 /\ ~req[r].served
        /\ req[r].took = <<>>
    BY <1>1 DEF Fine, Early
  <2> HIDE DEF lined
  <2>4. /\ q \in Request /\ q.pc = "send" /\ q.left = lined /\ q.took = <<>>
        /\ q.audits = <<>> /\ q.usage = 0 /\ ~q.served /\ q.timedOut = req[r].timedOut
        /\ q.class = req[r].class /\ q.mode = req[r].mode
    BY <2>2, <2>3 DEF Request
  <2>5. Become(r, q)
    BY <1>4 DEF q, lined
  <2> HIDE DEF q
  <2>6. Allowed(q) = Allowed(req[r])
    BY <2>4 DEF Allowed, MayLeave
  <2>7. ~q.timedOut
    BY <1>1, <2>4 DEF Fine, Early
  <2>8. Fine(q)
    BY <2>1, <2>4, <2>6, <2>7, EmptySeq DEF Fine, Early
  <2> QED BY <1>1, <2>5, <2>8, StepKeeps
<1> QED BY <1>2, <1>3, <1>4

\* What the attempts at a runtime leave of the request: the head of the list
\* goes, and the runtime at the head may have taken it.
LEMMA LoopFacts ==
  ASSUME IInv, NEW r \in Requests, InLoop(r)
  PROVE  LET q == req[r] IN
         /\ Fine(q) /\ q.pc = "send" /\ q \in Request
         /\ Onward(q) \in Request /\ TakenBy(q) \in Request /\ Onward(TakenBy(q)) \in Request
         /\ Tail(q.left) \in Seq(Allowed(q)) /\ Append(q.took, Head(q.left)) \in Seq(Allowed(q))
         /\ q.left \in Seq(Allowed(q)) /\ q.took \in Seq(Allowed(q)) /\ q.left # <<>>
         /\ ~q.timedOut
<1> DEFINE q == req[r]
<1>1. Fine(q) /\ q.pc = "send" /\ q.left # <<>> /\ q \in Request
  BY DEF IInv, InLoop, At, Fine
<1>2. q.left \in Seq(Allowed(q)) /\ q.took \in Seq(Allowed(q)) /\ ~q.timedOut
  BY <1>1 DEF Fine
<1>3. Head(q.left) \in Allowed(q) /\ Tail(q.left) \in Seq(Allowed(q))
  BY <1>1, <1>2, HeadTailProperties
<1>4. Append(q.took, Head(q.left)) \in Seq(Allowed(q))
  BY <1>2, <1>3, AppendProperties
<1>5. Tail(q.left) \in Seq(Runtimes) /\ Append(q.took, Head(q.left)) \in Seq(Runtimes)
  BY <1>3, <1>4, AllowedRuntimes, SeqMonotonic
<1>6. Onward(q) \in Request /\ TakenBy(q) \in Request /\ Onward(TakenBy(q)) \in Request
  BY <1>1, <1>5 DEF Onward, TakenBy, Request
<1> QED BY <1>1, <1>2, <1>3, <1>4, <1>6

LEMMA LoopKeeps ==
  ASSUME IInv, NEW r \in Requests, InLoop(r), NEW p \in Request, p.pc \in {"send", "relay"},
         p.class = req[r].class, p.mode = req[r].mode,
         p.left \in Seq(Allowed(req[r])), p.took \in Seq(Allowed(req[r])),
         p.pc = "relay" => p.left # <<>>, p.timedOut => p.left = <<>>,
         p.audits = req[r].audits, p.usage = req[r].usage, p.served = req[r].served,
         Become(r, p), UNCHANGED <<cfg, auth, applies>>
  PROVE  IInv'
<1>1. Fine(req[r]) /\ req[r].pc = "send"
  BY DEF IInv, InLoop, At
<1>2. Fine(p)
  BY <1>1, LoopMove
<1> QED BY <1>2, StepKeeps

LEMMA UnreachableKeeps ==
  ASSUME IInv, NEW r \in Requests, Unreachable(r)
  PROVE  IInv'
<1> DEFINE q == req[r]
           p == Onward(q)
<1>1. InLoop(r) /\ Become(r, p) /\ UNCHANGED <<cfg, auth, applies>>
  BY DEF Unreachable
<1>2. q \in Request /\ p \in Request /\ q.pc = "send" /\ ~q.timedOut
      /\ Tail(q.left) \in Seq(Allowed(q)) /\ q.took \in Seq(Allowed(q))
  BY <1>1, LoopFacts
<1>3. /\ p.pc = "send" /\ p.class = q.class /\ p.mode = q.mode /\ p.left = Tail(q.left)
      /\ p.took = q.took /\ p.audits = q.audits /\ p.usage = q.usage /\ p.served = q.served
      /\ ~p.timedOut
  BY <1>2 DEF Onward, Request
<1> QED BY <1>1, <1>2, <1>3, LoopKeeps

LEMMA BreaksKeeps ==
  ASSUME IInv, NEW r \in Requests, Breaks(r)
  PROVE  IInv'
<1> DEFINE q == req[r]
           p == Onward(TakenBy(q))
<1>1. InLoop(r) /\ Become(r, p) /\ UNCHANGED <<cfg, auth, applies>>
  BY DEF Breaks
<1>2. q \in Request /\ p \in Request /\ q.pc = "send" /\ ~q.timedOut
      /\ Tail(q.left) \in Seq(Allowed(q)) /\ Append(q.took, Head(q.left)) \in Seq(Allowed(q))
  BY <1>1, LoopFacts
<1>3. /\ p.pc = "send" /\ p.class = q.class /\ p.mode = q.mode /\ p.left = Tail(q.left)
      /\ p.took = Append(q.took, Head(q.left))
      /\ p.audits = q.audits /\ p.usage = q.usage /\ p.served = q.served /\ ~p.timedOut
  BY <1>2 DEF Onward, TakenBy, Request
<1> QED BY <1>1, <1>2, <1>3, LoopKeeps

LEMMA TimesOutKeeps ==
  ASSUME IInv, NEW r \in Requests, TimesOut(r)
  PROVE  IInv'
<1> DEFINE q == req[r]
<1>1. InLoop(r) /\ UNCHANGED <<cfg, auth, applies>>
  BY DEF TimesOut
<1>2. PICK t \in {q, TakenBy(q)} : Become(r, NoMoreAttempts(t))
  BY DEF TimesOut
<1>3. q \in Request /\ TakenBy(q) \in Request /\ q.pc = "send"
      /\ q.took \in Seq(Allowed(q)) /\ Append(q.took, Head(q.left)) \in Seq(Allowed(q))
  BY <1>1, LoopFacts
<1>4. /\ t \in Request /\ t.pc = "send" /\ t.class = q.class /\ t.mode = q.mode
      /\ t.took \in Seq(Allowed(q)) /\ t.audits = q.audits /\ t.usage = q.usage
      /\ t.served = q.served
  <2>1. CASE t = q
    BY <1>3, <2>1
  <2>2. CASE t = TakenBy(q)
    BY <1>3, <2>2 DEF TakenBy, Request
  <2> QED BY <2>1, <2>2
<1> DEFINE p == NoMoreAttempts(t)
<1>5. <<>> \in Seq(Runtimes) /\ <<>> \in Seq(Allowed(q))
  BY EmptySeq
<1>6. /\ p \in Request /\ p.pc = "send" /\ p.class = q.class /\ p.mode = q.mode
      /\ p.left = <<>> /\ p.took \in Seq(Allowed(q))
      /\ p.audits = q.audits /\ p.usage = q.usage /\ p.served = q.served
  BY <1>4, <1>5 DEF NoMoreAttempts, Request
<1> QED BY <1>1, <1>2, <1>5, <1>6, LoopKeeps

LEMMA DeclinesKeeps ==
  ASSUME IInv, NEW r \in Requests, Declines(r)
  PROVE  IInv'
<1> DEFINE q == req[r]
           p == [q EXCEPT !.pc = "relay", !.status = 503]
<1>1. InLoop(r) /\ ~req[r].gone /\ UNCHANGED <<cfg, auth, applies>>
  BY DEF Declines
<1>2. q \in Request /\ ~q.timedOut /\ q.left # <<>>
      /\ q.left \in Seq(Allowed(q)) /\ q.took \in Seq(Allowed(q))
  BY <1>1, LoopFacts
<1>3. CASE Become(r, Onward(q))
  BY <1>1, <1>3 , UnreachableKeeps DEF Unreachable
<1>4. CASE Become(r, p)
  <2>a. 503 \in Statuses
    BY DEF Statuses
  <2>1. /\ p \in Request /\ p.pc = "relay" /\ p.class = q.class /\ p.mode = q.mode
        /\ p.left = q.left /\ p.took = q.took /\ p.audits = q.audits /\ p.usage = q.usage
        /\ p.served = q.served /\ ~p.timedOut
    <3>1. p = Placed(q, "relay", 503)
      BY DEF Placed
    <3> HIDE DEF p, q
    <3> QED BY <1>2, <2>a, <3>1, PlacedIsTyped
  <2> QED BY <1>1, <1>2, <1>4, <2>1, LoopKeeps
<1>5. Become(r, Onward(q)) \/ Become(r, p)
  BY DEF Declines
<1> QED BY <1>3, <1>4, <1>5

LEMMA RespondsKeeps ==
  ASSUME IInv, NEW r \in Requests, Responds(r)
  PROVE  IInv'
<1> DEFINE q == req[r]
<1>1. InLoop(r) /\ UNCHANGED <<cfg, auth, applies>>
  BY DEF Responds
<1>2. PICK status \in {200, 500} :
        Become(r, [TakenBy(q) EXCEPT !.pc = "relay", !.status = status])
  BY DEF Responds
<1> DEFINE t == TakenBy(q)
           p == [t EXCEPT !.pc = "relay", !.status = status]
<1>3. q \in Request /\ t \in Request /\ ~q.timedOut /\ q.left # <<>>
      /\ q.left \in Seq(Allowed(q)) /\ Append(q.took, Head(q.left)) \in Seq(Allowed(q))
  BY <1>1, LoopFacts
<1>4. /\ t.class = q.class /\ t.mode = q.mode /\ t.left = q.left /\ t.audits = q.audits
      /\ t.took = Append(q.took, Head(q.left)) /\ t.usage = q.usage /\ t.served = q.served
      /\ t.timedOut = q.timedOut
  BY <1>3 DEF TakenBy, Request
<1>5. Become(r, p) /\ status \in Statuses
  BY <1>2 DEF Statuses
<1> HIDE DEF t
<1>6. /\ p \in Request /\ p.pc = "relay" /\ p.class = t.class /\ p.mode = t.mode
      /\ p.left = t.left /\ p.took = t.took /\ p.audits = t.audits /\ p.usage = t.usage
      /\ p.served = t.served /\ p.timedOut = t.timedOut
  <2>1. p = Placed(t, "relay", status)
    BY DEF Placed
  <2> HIDE DEF p, q
  <2> QED BY <1>3, <1>5, <2>1, PlacedIsTyped
<1> HIDE DEF p
<1>7. p.left # <<>> /\ p.left \in Seq(Allowed(q)) /\ p.took \in Seq(Allowed(q)) /\ ~p.timedOut
  BY <1>3, <1>4, <1>6
<1>8. p.class = q.class /\ p.mode = q.mode /\ p.audits = q.audits /\ p.usage = q.usage
      /\ p.served = q.served /\ p.pc \in {"send", "relay"}
  BY <1>4, <1>6
<1> QED BY <1>1, <1>5, <1>6, <1>7, <1>8, LoopKeeps

LEMMA ClientLeavesKeeps ==
  ASSUME IInv, NEW r \in Requests, ClientLeaves(r)
  PROVE  IInv'
<1> DEFINE q == req[r]
           p == [q EXCEPT !.gone = TRUE]
<1>1. Fine(q) /\ q.pc = "send" /\ Become(r, p) /\ UNCHANGED <<cfg, auth, applies>>
  BY DEF ClientLeaves, At, IInv
<1>2. /\ q \in Request /\ q.left \in Seq(Allowed(q)) /\ q.took \in Seq(Allowed(q))
      /\ (q.timedOut => q.left = <<>>)
  BY <1>1 DEF Fine
<1>3. /\ p \in Request /\ p.pc = "send" /\ p.class = q.class /\ p.mode = q.mode
      /\ p.left = q.left /\ p.took = q.took /\ p.audits = q.audits /\ p.usage = q.usage
      /\ p.served = q.served /\ p.timedOut = q.timedOut
  BY <1>1, <1>2 DEF Request
<1>4. Fine(p)
  BY <1>1, <1>2, <1>3, LoopMove
<1> QED BY <1>1, <1>4, StepKeeps

\* A request that is over, with its one line in the audit log.
LEMMA OverIsFine ==
  ASSUME NEW q, Fine(q), q.pc # "done", NEW line, NEW p \in Request,
         p.pc = "done", p.class = q.class, p.mode = q.mode, p.left = q.left,
         p.took = q.took, p.timedOut = q.timedOut, p.audits = <<line>>,
         p.usage = IF p.served THEN 1 ELSE 0,
         Tells(line, p),
         line.result = "success" => p.served /\ line.status < 400,
         line.result # "denied"
  PROVE  Fine(p)
<1>1. Allowed(p) = Allowed(q)
  BY DEF Allowed, MayLeave
<1>2. p.left \in Seq(Allowed(p)) /\ p.took \in Seq(Allowed(p)) /\ (p.timedOut => p.left = <<>>)
  BY <1>1 DEF Fine
<1>3. Len(p.audits) = 1 /\ p.audits[1] = line
  OBVIOUS
<1>4. Recorded(p)
  BY <1>3 DEF Recorded
<1> QED BY <1>2, <1>4 DEF Fine, Early

\* A line in the audit log.
Line(status, result, routing) == [status |-> status, result |-> result, routing |-> routing]

\* What Audited(Placed(q, ...)) and Closed make of a request that is not over.
LEMMA FailedFacts ==
  ASSUME NEW q, Fine(q), q.pc # "done", NEW told \in Statuses, NEW status \in Statuses,
         NEW routing \in {"local-only", "local", "hybrid-cloud", "platform"}
  PROVE  LET line == Line(status, "failed", routing)
             p == Audited(Refused(q, told), status, "failed", routing)
         IN  /\ p \in Request /\ p.pc = "done" /\ p.class = q.class /\ p.mode = q.mode
             /\ p.left = q.left /\ p.took = q.took /\ p.timedOut = q.timedOut
             /\ p.audits = <<line>> /\ p.usage = 0 /\ ~p.served /\ p.status = told
<1> DEFINE line == Line(status, "failed", routing)
           s == Refused(q, told)
<1>1. q \in Request /\ q.audits = <<>> /\ q.usage = 0 /\ ~q.served
  BY DEF Fine
<1>2. s = Placed(q, "done", told)
  BY DEF Refused, Placed
<1> HIDE DEF s
<1>3. /\ s \in Request /\ s.pc = "done" /\ s.status = told /\ s.class = q.class
      /\ s.mode = q.mode /\ s.left = q.left /\ s.took = q.took /\ s.audits = <<>>
      /\ s.usage = 0 /\ s.served = q.served /\ s.timedOut = q.timedOut
  <2>1. "done" \in {"relay", "done"} /\ told \in Statuses /\ q \in Request
    BY <1>1
  <2>2. LET t == Placed(q, "done", told) IN
        /\ t \in Request /\ t.pc = "done" /\ t.status = told /\ t.class = q.class
        /\ t.mode = q.mode /\ t.left = q.left /\ t.took = q.took /\ t.audits = q.audits
        /\ t.usage = q.usage /\ t.served = q.served /\ t.timedOut = q.timedOut
    BY <2>1, PlacedIsTyped, ZenonT(60)
  <2> QED BY <1>1, <1>2, <2>2
<1> DEFINE p == Audited(s, status, "failed", routing)
<1>4. p = [s EXCEPT !.audits = <<line>>] /\ p \in Request
  BY <1>3, OneLine DEF Line
<1> HIDE DEF p
<1>5. /\ p.pc = "done" /\ p.status = told /\ p.class = q.class /\ p.mode = q.mode
      /\ p.left = q.left /\ p.took = q.took /\ p.timedOut = q.timedOut
      /\ p.audits = <<line>> /\ p.usage = 0 /\ ~p.served
  BY <1>1, <1>3, <1>4 DEF Request
<1> QED BY <1>4, <1>5 DEF p, s

LEMMA ClosedFacts ==
  ASSUME NEW q, Fine(q), q.pc # "done", NEW status \in Statuses,
         NEW result \in {"success", "upstream", "body_error", "client_gone"},
         NEW routing \in {"local-only", "local", "hybrid-cloud", "platform"}
  PROVE  LET line == Line(status, result, routing)
             p == Closed(q, status, result, routing)
         IN  /\ p \in Request /\ p.pc = "done" /\ p.class = q.class /\ p.mode = q.mode
             /\ p.left = q.left /\ p.took = q.took /\ p.timedOut = q.timedOut
             /\ p.audits = <<line>> /\ p.usage = 1 /\ p.served /\ p.status = status
<1> DEFINE line == Line(status, result, routing)
           t == Placed(q, "done", status)
           s == [t EXCEPT !.served = TRUE, !.usage = 1]
           u == [t EXCEPT !.served = TRUE]
<1>1. q \in Request /\ q.audits = <<>> /\ q.usage = 0
  BY DEF Fine
<1>2. [q EXCEPT !.pc = "done", !.status = status, !.served = TRUE, !.usage = @ + 1] = s
  BY <1>1 DEF Placed, Request
<1> HIDE DEF t
<1>3. /\ t \in Request /\ t.pc = "done" /\ t.status = status /\ t.class = q.class
      /\ t.mode = q.mode /\ t.left = q.left /\ t.took = q.took /\ t.audits = <<>>
      /\ t.usage = 0 /\ t.timedOut = q.timedOut
  BY <1>1, PlacedIsTyped DEF t
<1>4. s = [u EXCEPT !.usage = 1]
  OBVIOUS
<1>5. /\ u \in Request /\ u.pc = "done" /\ u.status = status /\ u.class = q.class
      /\ u.mode = q.mode /\ u.left = q.left /\ u.took = q.took /\ u.audits = <<>>
      /\ u.served = TRUE /\ u.timedOut = q.timedOut
  BY <1>3 DEF Request
<1> HIDE DEF u, s
<1>6. /\ s \in Request /\ s.pc = "done" /\ s.status = status /\ s.class = q.class
      /\ s.mode = q.mode /\ s.left = q.left /\ s.took = q.took /\ s.audits = <<>>
      /\ s.served = TRUE /\ s.timedOut = q.timedOut /\ s.usage = 1
  BY <1>4, <1>5 DEF Request
<1> DEFINE p == Audited(s, status, result, routing)
<1>7. p = [s EXCEPT !.audits = <<line>>] /\ p \in Request
  BY <1>6, OneLine DEF Line
<1>8. p = Closed(q, status, result, routing)
  BY <1>2 DEF Closed
<1> HIDE DEF p
<1>9. /\ p.pc = "done" /\ p.status = status /\ p.class = q.class /\ p.mode = q.mode
      /\ p.left = q.left /\ p.took = q.took /\ p.timedOut = q.timedOut
      /\ p.audits = <<line>> /\ p.usage = 1 /\ p.served
  BY <1>6, <1>7 DEF Request
<1> QED BY <1>7, <1>8, <1>9

LEMMA NoAnswerKeeps ==
  ASSUME IInv, NEW r \in Requests, NoAnswer(r)
  PROVE  IInv'
<1> DEFINE q == req[r]
<1>1. Fine(q) /\ q.pc # "done" /\ UNCHANGED <<cfg, auth, applies>>
  BY DEF IInv, NoAnswer, At
<1>2. PICK status \in Statuses : Become(r, Audited(Refused(q, status), status, "failed", "local"))
  <2>1. CASE q.timedOut
    BY <2>1 DEF NoAnswer, Statuses
  <2>2. CASE ~q.timedOut
    BY <2>2 DEF NoAnswer, Statuses
  <2> QED BY <2>1, <2>2
<1> DEFINE p == Audited(Refused(q, status), status, "failed", "local")
           line == Line(status, "failed", "local")
<1>3. /\ p \in Request /\ p.pc = "done" /\ p.class = q.class /\ p.mode = q.mode
      /\ p.left = q.left /\ p.took = q.took /\ p.timedOut = q.timedOut
      /\ p.audits = <<line>> /\ p.usage = 0 /\ ~p.served /\ p.status = status
  BY <1>1, FailedFacts
<1>4. line.status = status /\ line.result = "failed"
  BY DEF Line
<1> HIDE DEF p, line
<1>5. Fine(p)
  BY <1>1, <1>3, <1>4, OverIsFine DEF Tells
<1> QED BY <1>1, <1>2, <1>5, StepKeeps DEF p

\* The runtime's answer, passed on.
LEMMA ClosedIsFine ==
  ASSUME NEW q, Fine(q), q.pc # "done", NEW status \in Statuses,
         NEW result \in {"success", "upstream", "body_error", "client_gone"},
         NEW routing \in {"local-only", "local", "hybrid-cloud", "platform"},
         result = "success" => status < 400
  PROVE  Fine(Closed(q, status, result, routing))
<1> DEFINE line == Line(status, result, routing)
           p == Closed(q, status, result, routing)
<1>1. /\ p \in Request /\ p.pc = "done" /\ p.class = q.class /\ p.mode = q.mode
      /\ p.left = q.left /\ p.took = q.took /\ p.timedOut = q.timedOut
      /\ p.audits = <<line>> /\ p.usage = 1 /\ p.served /\ p.status = status
  BY ClosedFacts
<1>2. line.status = status /\ line.result = result /\ line.result # "denied"
  BY DEF Line
<1> HIDE DEF p, line
<1>3. Fine(p)
  BY <1>1, <1>2, OverIsFine DEF Tells
<1> QED BY <1>3 DEF p

LEMMA RelayKeeps ==
  ASSUME IInv, NEW r \in Requests, Relay(r)
  PROVE  IInv'
<1> DEFINE q == req[r]
           Result(whole, stream) == IF ~whole /\ ~stream THEN "body_error"
                                    ELSE IF q.status >= 400 THEN "upstream" ELSE "success"
<1>1. Fine(q) /\ q \in Request /\ q.pc # "done" /\ UNCHANGED <<cfg, auth, applies>>
  BY DEF IInv, Relay, At, Fine
<1>2. q.status \in Statuses /\ q.status \in Nat
  BY <1>1 DEF Request, Statuses
<1>3. PICK routing \in {"local", "hybrid-cloud"}, stream \in BOOLEAN, whole \in BOOLEAN :
        Become(r, Closed(q, q.status, Result(whole, stream), routing))
  <2>1. CASE Head(q.left) = Cloud
    BY <2>1 DEF Relay
  <2>2. CASE Head(q.left) # Cloud
    BY <2>2 DEF Relay
  <2> QED BY <2>1, <2>2
<1>4. /\ Result(whole, stream) \in {"success", "upstream", "body_error", "client_gone"}
      /\ Result(whole, stream) = "success" => q.status < 400
  BY <1>2
<1> HIDE DEF Result
<1>5. Fine(Closed(q, q.status, Result(whole, stream), routing))
  BY <1>1, <1>2, <1>3, <1>4, ClosedIsFine
<1> QED BY <1>1, <1>3, <1>5, StepKeeps

-----------------------------------------------------------------------------
(* platformRequest *)

LEMMA PlatformDeniesKeeps ==
  ASSUME IInv, NEW r \in Requests, PlatformDenies(r)
  PROVE  IInv'
<1>1. req[r].pc \in Early /\ Deny(r, 403, "platform") /\ UNCHANGED <<cfg, auth, applies>>
      /\ auth \in [key : Key, count : Nat]
  BY DEF IInv, PlatformDenies, At, Early
<1> QED BY <1>1, DenyKeeps DEF Statuses

LEMMA PlatformServesKeeps ==
  ASSUME IInv, NEW r \in Requests, PlatformServes(r)
  PROVE  IInv'
<1> DEFINE q == req[r]
<1>1. Fine(q) /\ q.pc # "done" /\ UNCHANGED <<cfg, auth, applies>>
  BY DEF IInv, PlatformServes, At
<1>2. PICK status \in {200, 500} :
        Become(r, Closed(q, status, IF status >= 400 THEN "upstream" ELSE "success", "platform"))
  BY DEF PlatformServes
<1>3. PICK result \in {"success", "upstream", "body_error", "client_gone"} :
        /\ result = IF status >= 400 THEN "upstream" ELSE "success"
        /\ status \in Statuses /\ (result = "success" => status < 400)
  BY <1>2 DEF Statuses
<1>4. Fine(Closed(q, status, result, "platform"))
  BY <1>1, <1>3, ClosedIsFine
<1> QED BY <1>1, <1>2, <1>3, <1>4, StepKeeps

LEMMA PlatformStreamsKeeps ==
  ASSUME IInv, NEW r \in Requests, PlatformStreams(r)
  PROVE  IInv'
<1> DEFINE q == req[r]
<1>1. Fine(q) /\ q.pc # "done" /\ UNCHANGED <<cfg, auth, applies>>
  BY DEF IInv, PlatformStreams, At
<1>2. PICK status \in {200, 500}, result \in {"success", "client_gone"} :
        Become(r, [Closed(q, 200, result, "platform")
                     EXCEPT !.status = status, !.streamed = TRUE])
  BY DEF PlatformStreams
<1>3. 200 \in Statuses /\ status \in Statuses
  BY <1>2 DEF Statuses
<1> DEFINE line == Line(200, result, "platform")
           c == Closed(q, 200, result, "platform")
           d == [c EXCEPT !.status = status]
           p == [d EXCEPT !.streamed = TRUE]
<1>4. /\ c \in Request /\ c.pc = "done" /\ c.class = q.class /\ c.mode = q.mode
      /\ c.left = q.left /\ c.took = q.took /\ c.timedOut = q.timedOut
      /\ c.audits = <<line>> /\ c.usage = 1 /\ c.served
  BY <1>1, <1>3, ClosedFacts
<1>5. line.status = 200 /\ line.result = result
  BY DEF Line
<1>6. Become(r, p)
  BY <1>2
<1> HIDE DEF c, line
<1>7. /\ d \in Request /\ d.pc = "done" /\ d.class = q.class /\ d.mode = q.mode
      /\ d.left = q.left /\ d.took = q.took /\ d.timedOut = q.timedOut
      /\ d.audits = <<line>> /\ d.usage = 1 /\ d.served
  BY <1>3, <1>4 DEF Request
<1> HIDE DEF d
<1>8. /\ p \in Request /\ p.pc = "done" /\ p.class = q.class /\ p.mode = q.mode
      /\ p.left = q.left /\ p.took = q.took /\ p.timedOut = q.timedOut
      /\ p.audits = <<line>> /\ p.usage = 1 /\ p.served /\ p.streamed = TRUE
  BY <1>7 DEF Request
<1> HIDE DEF p
<1>9. Tells(line, p)
  BY <1>5, <1>8 DEF Tells
<1>10. Fine(p)
  BY <1>1, <1>2, <1>5, <1>8, <1>9, OverIsFine
<1> QED BY <1>1, <1>6, <1>10, StepKeeps

LEMMA PlatformFailsKeeps ==
  ASSUME IInv, NEW r \in Requests, PlatformFails(r)
  PROVE  IInv'
<1> DEFINE q == req[r]
<1>1. Fine(q) /\ q.pc # "done" /\ UNCHANGED <<cfg, auth, applies>>
  BY DEF IInv, PlatformFails, At
<1>2. PICK status \in {400, 409, 429, 502, 503, 504}, begun \in BOOLEAN :
        Become(r, [Audited(Refused(q, IF begun THEN 200 ELSE status), status, "failed", "platform")
                     EXCEPT !.streamed = begun])
  BY DEF PlatformFails
<1>3. PICK told \in Statuses : told = IF begun THEN 200 ELSE status
  BY <1>2 DEF Statuses
<1>a. status \in Statuses
  BY <1>2 DEF Statuses
<1> DEFINE line == Line(status, "failed", "platform")
           c == Audited(Refused(q, told), status, "failed", "platform")
           p == [c EXCEPT !.streamed = begun]
<1>4. /\ c \in Request /\ c.pc = "done" /\ c.class = q.class /\ c.mode = q.mode
      /\ c.left = q.left /\ c.took = q.took /\ c.timedOut = q.timedOut
      /\ c.audits = <<line>> /\ c.usage = 0 /\ ~c.served /\ c.status = told
  BY <1>1, <1>a, FailedFacts
<1>5. line.status = status /\ line.result = "failed"
  BY DEF Line
<1>6. Become(r, p)
  BY <1>2, <1>3
<1> HIDE DEF c, line
<1>7. /\ p \in Request /\ p.pc = c.pc /\ p.class = c.class /\ p.mode = c.mode
      /\ p.left = c.left /\ p.took = c.took /\ p.timedOut = c.timedOut
      /\ p.audits = c.audits /\ p.usage = c.usage /\ p.served = c.served
      /\ p.streamed = begun /\ p.status = c.status
  BY <1>2, <1>4 DEF Request
<1> HIDE DEF p
<1>8. ~p.served /\ Tells(line, p)
  BY <1>3, <1>4, <1>5, <1>7 DEF Tells
<1>9. Fine(p)
  BY <1>1, <1>4, <1>5, <1>7, <1>8, OverIsFine
<1> QED BY <1>1, <1>6, <1>9, StepKeeps

-----------------------------------------------------------------------------
(* The invariant *)

LEMMA InitIInv == Init => IInv
<1> SUFFICES ASSUME Init PROVE IInv
  OBVIOUS
<1> DEFINE q == [pc |-> "new", class |-> Undeclared, mode |-> "any",
                 key |-> cfg.key, left |-> <<>>, took |-> <<>>,
                 gone |-> FALSE, timedOut |-> FALSE, status |-> 0,
                 served |-> FALSE, streamed |-> FALSE,
                 usage |-> 0, audits |-> <<>>]
<1>1. cfg \in Candidates /\ Validate(cfg) /\ cfg.key \in Key
  BY LocalRuntimes DEF Init
<1>2. auth \in [key : Key, count : Nat] /\ applies \in 0 .. MaxApplies
  BY <1>1, LocalRuntimes DEF Init, NewAuthenticator
<1>3. <<>> \in Seq(Runtimes) /\ <<>> \in Seq(Audits) /\ 0 \in Statuses
  BY EmptySeq DEF Statuses
<1>4. q \in Request
  BY <1>1, <1>3 DEF Request, Early
<1>5. Fine(q)
  BY <1>4, EmptySeq DEF Fine, Early
<1>6. req = [r \in Requests |-> q]
  BY DEF Init
<1> QED BY <1>1, <1>2, <1>4, <1>5, <1>6 DEF IInv

LEMMA SetConfigKeeps ==
  ASSUME IInv, SetConfig
  PROVE  IInv'
<1>1. PICK c \in Candidates : Validate(c) /\ cfg' = c /\ auth' = NewAuthenticator(c)
  BY DEF SetConfig
<1>2. auth' \in [key : Key, count : Nat]
  BY <1>1, LocalRuntimes DEF NewAuthenticator
<1>3. applies' \in 0 .. MaxApplies /\ req' = req
  BY LocalRuntimes DEF SetConfig, IInv
<1> QED BY <1>1, <1>2, <1>3 DEF IInv, Validate

LEMMA NewWindowKeeps ==
  ASSUME IInv, NewWindow
  PROVE  IInv'
<1>1. auth' \in [key : Key, count : Nat] /\ UNCHANGED <<cfg, applies, req>>
  BY DEF NewWindow, IInv
<1> QED BY <1>1 DEF IInv, Validate

LEMMA NextIInv == IInv /\ [Next]_vars => IInv'
<1> SUFFICES ASSUME IInv, [Next]_vars PROVE IInv'
  OBVIOUS
<1>1. CASE SetConfig
  BY <1>1, SetConfigKeeps
<1>2. CASE NewWindow
  BY <1>2, NewWindowKeeps
<1>3. ASSUME NEW r \in Requests, WithAuth(r) PROVE IInv'
  BY <1>3, AuthenticateKeeps, CheckRateKeeps, CheckClassKeeps, CheckModeKeeps, RouteKeeps
  DEF WithAuth
<1>4. ASSUME NEW r \in Requests, Proxy(r) PROVE IInv'
  BY <1>4, BadBodyKeeps, ResolveKeeps, UnreachableKeeps, BreaksKeeps, TimesOutKeeps,
     DeclinesKeeps, RespondsKeeps, ClientLeavesKeeps, NoAnswerKeeps, RelayKeeps DEF Proxy
<1>5. ASSUME NEW r \in Requests, Platform(r) PROVE IInv'
  BY <1>5, PlatformDeniesKeeps, PlatformServesKeeps, PlatformStreamsKeeps, PlatformFailsKeeps
  DEF Platform
<1>6. CASE UNCHANGED vars
  BY <1>6 DEF IInv, vars, Validate
<1> QED BY <1>1, <1>2, <1>3, <1>4, <1>5, <1>6 DEF Next

\* Every request is fine at any time, whatever configurations succeed one
\* another: the invariant the theorems follow from.
THEOREM Invariance == Spec => []IInv
BY InitIInv, NextIInv, PTL DEF Spec

\* The variables have their types, for any number of requests and runtimes.
THEOREM TypeCorrect == Spec => []TypeOK
<1>1. IInv => TypeOK
  BY DEF IInv, TypeOK, Fine, At
<1> QED BY <1>1, Invariance, PTL

\* Validate, withAuth and CloudEligible together keep a request on the premises
\* unless its class may be exported and it has not asked to stay, whatever
\* configurations are applied while it is on its way.
THEOREM NothingLeaves == Spec => []NothingConfidentialLeaves
<1>1. IInv => NothingConfidentialLeaves
  <2> SUFFICES ASSUME IInv, NEW r \in Requests,
                      Cloud \in Range(req[r].left) \cup Range(req[r].took)
               PROVE  req[r].class \in Exportable /\ req[r].mode # "local-only"
    BY DEF NothingConfidentialLeaves
  <2>1. req[r].left \in Seq(Allowed(req[r])) /\ req[r].took \in Seq(Allowed(req[r]))
    BY DEF IInv, Fine
  <2>2. Range(req[r].left) \subseteq Allowed(req[r]) /\ Range(req[r].took) \subseteq Allowed(req[r])
    BY <2>1, RangeOfSeq
  <2>3. Cloud \in Allowed(req[r])
    BY <2>2
  <2> QED BY <2>3, LocalRuntimes DEF Allowed, MayLeave
<1> QED BY <1>1, Invariance, PTL

\* A request that is over has left the records RecordMatchesOutcome says, on every
\* path through withAuth, the proxy and the platform; on a platform stream the
\* line need not have the status that the client was told.
THEOREM RecordsMatch == Spec => []RecordMatchesOutcome
<1>1. IInv => RecordMatchesOutcome
  BY DEF IInv, Fine, RecordMatchesOutcome, At
<1> QED BY <1>1, Invariance, PTL

\* A request is given to a runtime only from the list of those that are left,
\* and a timeout empties the list.
LEMMA TakesFromTheList ==
  ASSUME IInv, [Next]_vars, NEW r \in Requests, req[r].timedOut
  PROVE  req'[r].took = req[r].took
<1> USE DEF At, Become
<1>1. req[r].left = <<>> /\ req[r] \in Request /\ req \in [Requests -> Request]
      /\ req[r].pc \notin Early
  BY DEF IInv, Fine
<1>2. ASSUME NEW p \in Requests, p # r, NEW q, req' = [req EXCEPT ![p] = q]
      PROVE  req'[r] = req[r]
  BY <1>1, <1>2
<1>3. CASE UNCHANGED req
  BY <1>3
<1>4. ASSUME NEW p \in Requests, WithAuth(p)
      PROVE  req'[r] = req[r]
  <2>1. p # r
    BY <1>1, <1>4, ZenonT(40)
    DEF WithAuth, Authenticate, CheckRate, CheckClass, CheckMode, Route, Early
  <2>2. \E q : req' = [req EXCEPT ![p] = q]
    BY <1>4, ZenonT(40) DEF WithAuth, Authenticate, CheckRate, CheckClass, CheckMode, Route, Deny
  <2> QED BY <1>2, <2>1, <2>2
<1>5. ASSUME NEW p \in Requests, Platform(p)
      PROVE  req'[r] = req[r]
  <2>1. p # r
    BY <1>1, <1>5, ZenonT(40)
    DEF Platform, PlatformDenies, PlatformServes, PlatformStreams, PlatformFails, Early
  <2>2. PlatformDenies(p) => \E q : req' = [req EXCEPT ![p] = q]
    BY ZenonT(40) DEF PlatformDenies, Deny
  <2>3. ASSUME PlatformServes(p) PROVE \E q : req' = [req EXCEPT ![p] = q]
    <3>1. PICK status \in {200, 500} :
            Become(p, Closed(req[p], status, IF status >= 400 THEN "upstream" ELSE "success",
                             "platform"))
      BY <2>3 DEF PlatformServes
    <3>2. PICK q : q = Closed(req[p], status, IF status >= 400 THEN "upstream" ELSE "success",
                           "platform")
      OBVIOUS
    <3>3. req' = [req EXCEPT ![p] = q]
      BY <3>1, <3>2
    <3> QED BY <3>3
  <2>4. ASSUME PlatformStreams(p) PROVE \E q : req' = [req EXCEPT ![p] = q]
    <3>1. PICK status \in {200, 500}, result \in {"success", "client_gone"} :
            req' = [req EXCEPT ![p] = [Closed(req[p], 200, result, "platform")
                                         EXCEPT !.status = status, !.streamed = TRUE]]
      BY <2>4 DEF PlatformStreams
    <3> QED BY <3>1
  <2>5. ASSUME PlatformFails(p) PROVE \E q : req' = [req EXCEPT ![p] = q]
    <3> DEFINE Failed(status, begun) ==
                 [Audited(Refused(req[p], IF begun THEN 200 ELSE status), status,
                          "failed", "platform") EXCEPT !.streamed = begun]
    <3>1. PICK status \in {400, 409, 429, 502, 503, 504}, begun \in BOOLEAN :
            req' = [req EXCEPT ![p] = Failed(status, begun)]
      BY <2>5 DEF PlatformFails
    <3> HIDE DEF Failed
    <3> QED BY <3>1, ZenonT(60)
  <2>6. \E q : req' = [req EXCEPT ![p] = q]
    BY <1>5, <2>2, <2>3, <2>4, <2>5, ZenonT(40) DEF Platform
  <2> QED BY <1>2, <2>1, <2>6
<1>6. ASSUME NEW p \in Requests, Proxy(p), p # r
      PROVE  req'[r] = req[r]
  <2>1. BadBody(p) => \E q : req' = [req EXCEPT ![p] = q]
    BY ZenonT(40) DEF BadBody
  <2>2. Resolve(p) => \E q : req' = [req EXCEPT ![p] = q]
    BY ZenonT(40) DEF Resolve, Deny
  <2>3. Unreachable(p) => \E q : req' = [req EXCEPT ![p] = q]
    BY ZenonT(40) DEF Unreachable
  <2>4. Breaks(p) => \E q : req' = [req EXCEPT ![p] = q]
    BY ZenonT(40) DEF Breaks
  <2>5. TimesOut(p) => \E q : req' = [req EXCEPT ![p] = q]
    BY ZenonT(40) DEF TimesOut
  <2>6. Declines(p) => \E q : req' = [req EXCEPT ![p] = q]
    BY ZenonT(40) DEF Declines
  <2>7. ASSUME Responds(p) PROVE \E q : req' = [req EXCEPT ![p] = q]
    <3>1. PICK status \in {200, 500} :
            Become(p, [TakenBy(req[p]) EXCEPT !.pc = "relay", !.status = status])
      BY <2>7 DEF Responds
    <3>2. PICK q : q = [TakenBy(req[p]) EXCEPT !.pc = "relay", !.status = status]
      OBVIOUS
    <3>3. req' = [req EXCEPT ![p] = q]
      BY <3>1, <3>2
    <3> QED BY <3>3
  <2>8. ClientLeaves(p) => \E q : req' = [req EXCEPT ![p] = q]
    BY ZenonT(40) DEF ClientLeaves
  <2>9. NoAnswer(p) => \E q : req' = [req EXCEPT ![p] = q]
    BY ZenonT(40) DEF NoAnswer
  <2>10. ASSUME Relay(p) PROVE \E q : req' = [req EXCEPT ![p] = q]
    <3> DEFINE Result(whole, stream) ==
                 IF ~whole /\ ~stream THEN "body_error"
                 ELSE IF req[p].status >= 400 THEN "upstream" ELSE "success"
    <3>1. PICK stream \in BOOLEAN, whole \in BOOLEAN :
            Become(p, Closed(req[p], req[p].status, Result(whole, stream),
                             IF Head(req[p].left) = Cloud THEN "hybrid-cloud" ELSE "local"))
      BY <2>10 DEF Relay
    <3> HIDE DEF Result
    <3> QED BY <3>1, ZenonT(40)
  <2> QED BY <1>2, <1>6, <2>1, <2>2, <2>3, <2>4, <2>5, <2>6,
     <2>7, <2>8, <2>9, <2>10 DEF Proxy
<1>7. CASE ClientLeaves(r)
  BY <1>1, <1>7 DEF ClientLeaves, Request
<1>8. CASE NoAnswer(r)
  <2>1. Fine(req[r]) /\ req[r].pc # "done"
    BY <1>8 DEF NoAnswer, IInv
  <2>2. PICK status \in Statuses :
          Become(r, Audited(Refused(req[r], status), status, "failed", "local"))
    <3>1. CASE req[r].timedOut
      BY <1>8, <3>1 DEF NoAnswer, Statuses
    <3> QED BY <3>1
  <2> QED BY <1>1, <2>1, <2>2, FailedFacts
<1>9. ~BadBody(r) /\ ~Resolve(r) /\ ~Unreachable(r) /\ ~Breaks(r) /\ ~TimesOut(r)
      /\ ~Declines(r) /\ ~Responds(r) /\ ~Relay(r)
  BY <1>1, ZenonT(40)
  DEF BadBody, Resolve, Unreachable, Breaks, TimesOut, Declines, Responds, Relay, InLoop,
      Early, IInv, Fine
<1>10. \/ UNCHANGED req
       \/ \E p \in Requests : WithAuth(p) \/ Proxy(p) \/ Platform(p)
  BY DEF Next, vars, SetConfig, NewWindow
<1> QED BY <1>3, <1>4, <1>5, <1>6, <1>7, <1>8, <1>9, <1>10 DEF Proxy

\* proxyRequest gives a request to no other runtime once one has timed out.
THEOREM NoRetry == Spec => NoRetryAfterTimeout
<1>1. IInv /\ [Next]_vars
        => [\A r \in Requests : req[r].timedOut => req'[r].took = req[r].took]_vars
  BY TakesFromTheList
<1> QED BY <1>1, Invariance, PTL DEF Spec, NoRetryAfterTimeout
=============================================================================
