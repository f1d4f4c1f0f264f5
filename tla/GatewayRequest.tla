--------------------------- MODULE GatewayRequest ---------------------------
(***************************************************************************)
(* Inference requests at the gateway (src/gwcore): withAuth, routeInference *)
(* and the transparent proxy, while SetConfig replaces the configuration    *)
(* and the authenticator under the requests that are on their way.          *)
(*                                                                          *)
(* One virtual key and one logical model. A configuration is a record of    *)
(* the fields the request path reads. An input of a request (data class,    *)
(* routing mode, body) is chosen by the step that first reads it. Headers   *)
(* passed on, metrics and flow: aliases (GatewayRuns) are left out.         *)
(***************************************************************************)
EXTENDS Naturals, Sequences, SequencesExt

CONSTANTS
  Requests,    \* requests, all with the one virtual key
  Locals,      \* the local runtimes of the model, a sequence in attempt order
  Cloud,       \* the approved cloud endpoint
  Undeclared,  \* the data class of a request that declares none
  Classes,     \* the data classes requests declare
  Exportable,  \* the classes Validate lets a configuration send to the cloud
  Candidates,  \* configurations somebody tries to apply
  MaxApplies   \* bound: SetConfig calls

ASSUME ConstantsAssumption ==
  /\ Exportable \subseteq Classes /\ Undeclared \notin Classes
  /\ Locals \in Seq(Range(Locals)) /\ Cloud \notin Range(Locals)
  /\ MaxApplies \in Nat
  /\ \A c \in Candidates :
       c.key \in [on : BOOLEAN, limit : Nat, model : BOOLEAN, tools : BOOLEAN]

VARIABLES
  cfg,      \* s.cfg
  auth,     \* s.auth: the key as it was when it was built, and its rate window
  applies,  \* SetConfig calls so far
  req       \* the handlers of the requests

vars == <<cfg, auth, applies, req>>

Runtimes == Range(Locals) \cup {Cloud}

-----------------------------------------------------------------------------
(* Configuration *)

\* Config.Validate, as far as it decides what may leave the site.
Validate(c) ==
  /\ c.cloudFallback => c.hybrid
  /\ c.hybrid => ~c.strict /\ c.away \subseteq Exportable

\* CloudEligible without the header that keeps a request home. (mutant)
EligibleByClass(c, class, mode) ==
  ~c.strict /\ c.hybrid /\ c.cloudFallback /\ class \in c.away

\* Config.CloudEligible: the policy comes first, an undeclared class stays home.
CloudEligible(c, class, mode) ==
  /\ ~c.strict /\ c.hybrid /\ c.cloudFallback
  /\ mode # "local-only"
  /\ class \in c.away

\* NewAuthenticator: the key of one configuration and an empty window.
NewAuthenticator(c) == [key |-> c.key, count |-> 0]

Init ==
  /\ cfg \in {c \in Candidates : Validate(c)}
  /\ auth = NewAuthenticator(cfg) /\ applies = 0
  /\ req = [r \in Requests |->
              [pc |-> "new", class |-> Undeclared, mode |-> "any",
               key |-> cfg.key, left |-> <<>>, took |-> <<>>,
               gone |-> FALSE, timedOut |-> FALSE, status |-> 0,
               served |-> FALSE, streamed |-> FALSE,
               usage |-> 0, audits |-> <<>>]]

\* SetConfig with a parsed and validated configuration: both pointers are
\* replaced under one lock, and every rate window starts anew.
SetConfig ==
  /\ applies < MaxApplies
  /\ \E c \in Candidates :
       /\ Validate(c)
       /\ cfg' = c /\ auth' = NewAuthenticator(c)
  /\ applies' = applies + 1
  /\ UNCHANGED req

\* rateLimiter.allow: a minute after it was opened the window is replaced.
NewWindow ==
  /\ auth.count > 0
  /\ auth' = [auth EXCEPT !.count = 0]
  /\ UNCHANGED <<cfg, applies, req>>

-----------------------------------------------------------------------------
(* withAuth. The authenticator and the configuration are read anew at every *)
(* step, so two steps of one request may see two configurations.            *)

At(r, pc) == req[r].pc = pc

Become(r, q) == req' = [req EXCEPT ![r] = q]

\* auditDenied and auditProxy: one line in the audit log.
Audited(q, status, result, routing) ==
  [q EXCEPT !.audits = Append(@, [status |-> status, result |-> result,
                                  routing |-> routing])]

\* writeAPIError: the handler ends.
Refused(q, status) == [q EXCEPT !.pc = "done", !.status = status]

Deny(r, status, routing) ==
  Become(r, Audited(Refused(req[r], status), status, "denied", routing))

\* withAuth, first: Authenticator.Authenticate.
Authenticate(r) ==
  /\ At(r, "new")
  /\ IF auth.key.on
     THEN Become(r, [req[r] EXCEPT !.pc = "rate", !.key = auth.key])
     ELSE Deny(r, 401, "local-only")
  /\ UNCHANGED <<cfg, auth, applies>>

\* Authenticator.CheckRate: the limit is the key's, the window that of the
\* authenticator in place now; 0 is no limit.
CheckRate(r) ==
  LET limit == req[r].key.limit IN
  /\ At(r, "rate")
  /\ \/ /\ limit = 0
        /\ Become(r, [req[r] EXCEPT !.pc = "class"]) /\ UNCHANGED auth
     \/ /\ limit > 0 /\ auth.count < limit
        /\ auth' = [auth EXCEPT !.count = @ + 1]
        /\ Become(r, [req[r] EXCEPT !.pc = "class"])
     \/ /\ limit > 0 /\ auth.count >= limit
        /\ Deny(r, 429, "local-only") /\ UNCHANGED auth
  /\ UNCHANGED <<cfg, applies>>

\* withAuth: a declared class has to be allowed on this gateway.
CheckClass(r) ==
  /\ At(r, "class")
  /\ \E class \in Classes \cup {Undeclared} :
       IF class = Undeclared \/ class \in cfg.local
       THEN Become(r, [req[r] EXCEPT !.pc = "mode", !.class = class])
       ELSE Deny(r, 403, "local-only")
  /\ UNCHANGED <<cfg, auth, applies>>

\* withAuth: a hybrid request is refused in strict local mode.
CheckMode(r) ==
  /\ At(r, "mode")
  /\ \E mode \in {"any", "local-only", "hybrid"} :
       IF mode = "hybrid" /\ cfg.strict
       THEN Deny(r, 403, "local-only")
       ELSE Become(r, [req[r] EXCEPT !.pc = "route", !.mode = mode])
  /\ UNCHANGED <<cfg, auth, applies>>

\* routeInference.
Route(r) ==
  /\ At(r, "route")
  /\ Become(r, [req[r] EXCEPT !.pc = IF cfg.platform THEN "platform" ELSE "proxy"])
  /\ UNCHANGED <<cfg, auth, applies>>

-----------------------------------------------------------------------------
(* proxyRequest *)

\* Local candidates in their order, then the cloud when the policy lets the
\* request leave and the credential can be read.
Attempts(c, q, credential) ==
  Locals \o IF CloudEligible(c, q.class, q.mode) /\ credential THEN <<Cloud>> ELSE <<>>

\* An unreadable, oversized or malformed body is refused before anything is
\* audited, whatever the route.
BadBody(r) ==
  /\ req[r].pc \in {"proxy", "platform"}
  /\ Become(r, Refused(req[r], 400))
  /\ UNCHANGED <<cfg, auth, applies>>

\* The snapshot of the configuration that serves the request: model, key and
\* tools are checked, the attempts laid out.
Resolve(r) ==
  /\ At(r, "proxy")
  /\ \E tools, credential \in BOOLEAN :
       IF ~cfg.model THEN Deny(r, 404, "local")
       ELSE IF ~req[r].key.model \/ (tools /\ ~req[r].key.tools)
       THEN Deny(r, 403, "local")
       ELSE Become(r, [req[r] EXCEPT !.pc = "send",
                                     !.left = Attempts(cfg, req[r], credential)])
  /\ UNCHANGED <<cfg, auth, applies>>

\* One attempt, to the first runtime that is left: the handler's loop body.
InLoop(r) == At(r, "send") /\ req[r].left # <<>>

Onward(q)  == [q EXCEPT !.left = Tail(@)]
TakenBy(q) == [q EXCEPT !.took = Append(@, Head(q.left))]

\* The runtime cannot be reached, or the client has left and the transport
\* does not send any more: the next candidate.
Unreachable(r) ==
  /\ InLoop(r)
  /\ Become(r, Onward(req[r]))
  /\ UNCHANGED <<cfg, auth, applies>>

\* The connection breaks after the runtime has taken the request and before it
\* has answered: an error like any other, the next candidate.
Breaks(r) ==
  /\ InLoop(r) /\ ~req[r].gone
  /\ Become(r, Onward(TakenBy(req[r])))
  /\ UNCHANGED <<cfg, auth, applies>>

\* A timeout treated like every other error: the next candidate. (mutant)
TimeoutMovesOn(q) == [q EXCEPT !.left = Tail(@), !.timedOut = TRUE]

\* A timeout ends the loop: the runtime may be at work on the request, or the
\* connection never came about.
NoMoreAttempts(q) == [q EXCEPT !.left = <<>>, !.timedOut = TRUE]

TimesOut(r) ==
  /\ InLoop(r) /\ ~req[r].gone
  /\ \E q \in {req[r], TakenBy(req[r])} : Become(r, NoMoreAttempts(q))
  /\ UNCHANGED <<cfg, auth, applies>>

\* 503: nothing was started. The next candidate, the last one's is passed on.
Declines(r) ==
  /\ InLoop(r) /\ ~req[r].gone
  /\ IF Len(req[r].left) > 1
     THEN Become(r, Onward(req[r]))
     ELSE Become(r, [req[r] EXCEPT !.pc = "relay", !.status = 503])
  /\ UNCHANGED <<cfg, auth, applies>>

\* Response headers of any other status: this runtime serves the request.
Responds(r) ==
  /\ InLoop(r) /\ ~req[r].gone
  /\ \E status \in {200, 500} :
       Become(r, [TakenBy(req[r]) EXCEPT !.pc = "relay", !.status = status])
  /\ UNCHANGED <<cfg, auth, applies>>

\* The client's connection closes: the context of the request is cancelled.
ClientLeaves(r) ==
  /\ At(r, "send") /\ ~req[r].gone
  /\ Become(r, [req[r] EXCEPT !.gone = TRUE])
  /\ UNCHANGED <<cfg, auth, applies>>

\* upstreamFailure: no runtime has answered.
NoAnswer(r) ==
  LET status == IF req[r].timedOut THEN 504 ELSE 503 IN
  /\ At(r, "send") /\ req[r].left = <<>>
  /\ Become(r, Audited(Refused(req[r], status), status, "failed", "local"))
  /\ UNCHANGED <<cfg, auth, applies>>

\* Only a successful answer is counted. (mutant)
ClosedIfFine(q, status, result, routing) ==
  Audited([q EXCEPT !.pc = "done", !.status = status, !.served = TRUE,
                    !.usage = IF result = "success" THEN @ + 1 ELSE @],
          status, result, routing)

\* usageCounter.add and auditProxy close a request that a runtime has answered.
Closed(q, status, result, routing) ==
  Audited([q EXCEPT !.pc = "done", !.status = status, !.served = TRUE, !.usage = @ + 1],
          status, result, routing)

\* The body is passed on, whole or cut short. Only a body that is not a stream
\* is known to be cut.
Relay(r) ==
  LET routing == IF Head(req[r].left) = Cloud THEN "hybrid-cloud" ELSE "local" IN
  /\ At(r, "relay")
  /\ \E stream, whole \in BOOLEAN :
       LET result == IF ~whole /\ ~stream THEN "body_error"
                     ELSE IF req[r].status >= 400 THEN "upstream" ELSE "success"
       IN  Become(r, Closed(req[r], req[r].status, result, routing))
  /\ UNCHANGED <<cfg, auth, applies>>

-----------------------------------------------------------------------------
(* platformRequest: the backend (Orchestrator) answers for all runtimes. *)

PlatformDenies(r) ==
  /\ At(r, "platform")
  /\ ~req[r].key.model \/ ~req[r].key.tools
  /\ Deny(r, 403, "platform")
  /\ UNCHANGED <<cfg, auth, applies>>

\* Execute: the runtime's answer, be it an error, is passed on.
PlatformServes(r) ==
  /\ At(r, "platform") /\ req[r].key.model
  /\ \E status \in {200, 500} :
       Become(r, Closed(req[r], status, IF status >= 400 THEN "upstream" ELSE "success",
                        "platform"))
  /\ UNCHANGED <<cfg, auth, applies>>

\* ExecuteStream: the runtime's status is passed on and 200 is audited, for an
\* error of the runtime as for a stream, to its end or until the client leaves.
PlatformStreams(r) ==
  /\ At(r, "platform") /\ req[r].key.model
  /\ \E status \in {200, 500}, result \in {"success", "client_gone"} :
       Become(r, [Closed(req[r], 200, result, "platform")
                    EXCEPT !.status = status, !.streamed = TRUE])
  /\ UNCHANGED <<cfg, auth, applies>>

\* writePlatformError: an error of the backend is audited and not counted; a
\* stream that has begun has told the client 200 by then.
PlatformFails(r) ==
  /\ At(r, "platform") /\ req[r].key.model
  /\ \E status \in {400, 409, 429, 502, 503, 504}, begun \in BOOLEAN :
       Become(r, [Audited(Refused(req[r], IF begun THEN 200 ELSE status),
                          status, "failed", "platform") EXCEPT !.streamed = begun])
  /\ UNCHANGED <<cfg, auth, applies>>

-----------------------------------------------------------------------------
WithAuth(r) == \/ Authenticate(r) \/ CheckRate(r) \/ CheckClass(r) \/ CheckMode(r)
               \/ Route(r)

Proxy(r) == \/ BadBody(r) \/ Resolve(r) \/ Unreachable(r) \/ Breaks(r) \/ TimesOut(r)
            \/ Declines(r) \/ Responds(r) \/ ClientLeaves(r) \/ NoAnswer(r) \/ Relay(r)

Platform(r) ==
  PlatformDenies(r) \/ PlatformServes(r) \/ PlatformStreams(r) \/ PlatformFails(r)

Next == \/ SetConfig \/ NewWindow
        \/ \E r \in Requests : WithAuth(r) \/ Proxy(r) \/ Platform(r)

Spec == Init /\ [][Next]_vars

-----------------------------------------------------------------------------
(* Properties *)

Statuses == {0, 200, 400, 401, 403, 404, 409, 429, 500, 502, 503, 504}

Audits == [status : Statuses,
           result : {"denied", "failed", "success", "upstream", "body_error", "client_gone"},
           routing : {"local-only", "local", "hybrid-cloud", "platform"}]

Key == [on : BOOLEAN, limit : Nat, model : BOOLEAN, tools : BOOLEAN]

Early == {"new", "rate", "class", "mode", "route", "proxy", "platform"}

Request ==
  [pc : Early \cup {"send", "relay", "done"},
   class : Classes \cup {Undeclared}, mode : {"any", "local-only", "hybrid"},
   key : Key, left : Seq(Runtimes), took : Seq(Runtimes), gone : BOOLEAN,
   timedOut : BOOLEAN, status : Statuses, served : BOOLEAN, streamed : BOOLEAN,
   usage : Nat, audits : Seq(Audits)]

\* The variables have their types; an answer is relayed from a runtime.
TypeOK ==
  /\ cfg \in {c \in Candidates : Validate(c)}
  /\ auth \in [key : Key, count : Nat] /\ applies \in 0 .. MaxApplies
  /\ req \in [Requests -> Request]
  /\ \A r \in Requests : At(r, "relay") => req[r].left # <<>>

\* Whatever configurations succeed one another while a request is on its way,
\* it is never lined up for the cloud, let alone sent there, unless it has
\* declared a class that any valid configuration may export and has not asked
\* to stay: Validate, withAuth and CloudEligible together.
NothingConfidentialLeaves ==
  \A r \in Requests :
    Cloud \in Range(req[r].left) \cup Range(req[r].took)
      => req[r].class \in Exportable /\ req[r].mode # "local-only"

\* The line has the status the client was told; but the line of a platform stream
\* says 200 whatever status the runtime gave, and one that fails after its client
\* was told 200 has the status of the failure.
Tells(line, q) ==
  \/ line.status = q.status
  \/ q.streamed /\ q.served /\ line.status = 200
  \/ q.streamed /\ q.status = 200 /\ line.result = "failed"

\* What a request that is over left behind.
Recorded(q) ==
  /\ q.usage = IF q.served THEN 1 ELSE 0
  /\ \/ q.status = 400 /\ q.audits = <<>> /\ ~q.served
     \/ /\ Len(q.audits) = 1
        /\ Tells(q.audits[1], q)
        /\ q.audits[1].result = "success" => q.served /\ q.audits[1].status < 400
        /\ q.audits[1].result = "denied" => q.took = <<>> /\ ~q.served

\* A request that is over has left one audit line, a malformed one none, and a
\* count exactly if a runtime's answer was passed on; a denial was asked of no
\* runtime; and except for streams of the platform, whose lines say 200 even for an
\* error of the runtime (Tells), the line has the status the client was told.
RecordMatchesOutcome ==
  \A r \in Requests :
    IF At(r, "done") THEN Recorded(req[r]) ELSE req[r].audits = <<>> /\ req[r].usage = 0

\* proxyRequest: after a timeout no further runtime is given the request, since
\* the one that timed out may be at work on it.
NoRetryAfterTimeout ==
  [][\A r \in Requests : req[r].timedOut => req'[r].took = req[r].took]_vars
=============================================================================
