------------------------------ MODULE RunEvents ------------------------------
(***************************************************************************)
(* The event log of one workflow run and the SSE streams that follow it.   *)
(*                                                                         *)
(* RunStore.Emit appends an event and copies the list of subscribers under *)
(* the lock, then offers the event to each of their channels outside it,   *)
(* without waiting: a full channel loses the event.  The execute           *)
(* goroutine and the CancelRun calls emit side by side.  A client          *)
(* subscribes with the id of the last event it received (Last-Event-ID),   *)
(* gets the later events replayed, then what arrives on its channel, until *)
(* an event that ends the run, or until it goes away.                      *)
(*                                                                         *)
(* An event is its sequence number; its type is kept in the log.           *)
(***************************************************************************)
EXTENDS Integers, Sequences, FiniteSets

CONSTANTS
  Clients,         \* SSE clients
  Runner,          \* the execute goroutine
  Cancels,         \* CancelRun calls
  NPlain,          \* bound: events of the run before the one that ends it
  Buffer,          \* capacity of a subscriber's channel (64)
  MayDisconnect,   \* whether clients lose their connection
  MayReturn        \* whether a client connects again after its stream ended

ASSUME EventConstants ==
  /\ Runner \notin Cancels
  /\ IsFiniteSet(Cancels)
  /\ NPlain \in Nat \ {0}
  /\ Buffer \in Nat \ {0}
  /\ {MayDisconnect, MayReturn} \subseteq BOOLEAN

Emitters == {Runner} \cup Cancels
Outcomes == {"completed", "failed"}
EventTypes == Outcomes \cup {"plain", "cancelling"}

CompletedOnly(type) == type = "completed"   \* (mutant) a failure does not end a stream
terminal(type) == type \in Outcomes   \* "cancelled" ends a stream as "failed" does

VARIABLES
  log,       \* Run.events: types, by sequence number
  status,    \* Run.Status: running or its outcome; a completed run has its output
  subs,      \* Run.subs: subscribed clients
  chan,      \* client -> channel of its subscription
  pending,   \* emitter -> subscribers it still has to offer its event to
  emitting,  \* emitter -> sequence number of that event, 0 before the first
  cancel,    \* CancelRun calls: idle, then cancelling, then returned
  stream,    \* handler of a client: pc, events to replay, Last-Event-ID it came with
  last,      \* id of the last event a client received
  got,       \* history: ids a client received, over all its connections
  lost,      \* history: ids its full channel lost, unless they were replayed since
  output     \* history: clients that were sent the output of the run

runState == <<log, status>>
clientState == <<stream, last, got, output>>
vars == <<runState, subs, chan, pending, emitting, cancel, clientState, lost>>

Seqs == DOMAIN log
Off == [pc |-> "off", replay |-> <<>>, since |-> 0]

Init ==
  /\ log = <<"plain">>        \* workflow.queued is emitted before StartRun answers
  /\ status = "running"
  /\ subs = {}
  /\ chan = [c \in Clients |-> <<>>]
  /\ pending = [e \in Emitters |-> {}]
  /\ emitting = [e \in Emitters |-> 0]
  /\ cancel = [x \in Cancels |-> "idle"]
  /\ stream = [c \in Clients |-> Off]
  /\ last = [c \in Clients |-> 0]
  /\ got = [c \in Clients |-> <<>>]
  /\ lost = [c \in Clients |-> {}]
  /\ output = {}

-----------------------------------------------------------------------------
(***************************************************************************)
(* Emit                                                                    *)
(***************************************************************************)

\* (mutant) a client is served only once its replay is written
AppendForLive(e, type) ==
  /\ log' = Append(log, type)
  /\ emitting' = [emitting EXCEPT ![e] = Len(log) + 1]
  /\ pending' = [pending EXCEPT ![e] = {c \in subs : stream[c].pc = "live"}]

\* Under the lock: append, and remember who is subscribed now.
AppendEvent(e, type) ==
  /\ log' = Append(log, type)
  /\ emitting' = [emitting EXCEPT ![e] = Len(log) + 1]
  /\ pending' = [pending EXCEPT ![e] = subs]

\* A subscriber whose channel is full loses the event.
Send(e, c) ==
  \/ /\ Len(chan[c]) < Buffer
     /\ chan' = [chan EXCEPT ![c] = Append(@, emitting[e])]
     /\ UNCHANGED lost
  \/ /\ Len(chan[c]) = Buffer
     /\ lost' = [lost EXCEPT ![c] = @ \cup {emitting[e]}]
     /\ UNCHANGED chan

\* Outside the lock: the next subscriber of the copied list, in map order.
Offer(e, c) ==
  /\ c \in pending[e]
  /\ Send(e, c)
  /\ pending' = [pending EXCEPT ![e] = @ \ {c}]
  /\ UNCHANGED <<runState, subs, emitting, cancel, clientState>>

EmitPlain ==
  /\ pending[Runner] = {}
  /\ status = "running"
  /\ Cardinality({n \in Seqs : log[n] = "plain"}) < NPlain
  /\ AppendEvent(Runner, "plain")
  /\ UNCHANGED <<status, subs, chan, cancel, clientState, lost>>

\* execute, failRun and finishInterrupted settle the run (and set its output)
\* before they emit the event that says so.
Settle ==
  /\ pending[Runner] = {}
  /\ status = "running"
  /\ \E o \in Outcomes : status' = o
  /\ UNCHANGED <<log, subs, chan, pending, emitting, cancel, clientState, lost>>

Announced == \E n \in Seqs : log[n] \in Outcomes

EmitTerminal ==
  /\ pending[Runner] = {}
  /\ status # "running"
  /\ ~Announced
  /\ AppendEvent(Runner, status)
  /\ UNCHANGED <<status, subs, chan, cancel, clientState, lost>>

\* CancelRun leaves a settled run alone; else it emits, sooner or later.
CancelRun(x) ==
  /\ cancel[x] = "idle"
  /\ status = "running"
  /\ cancel' = [cancel EXCEPT ![x] = "cancelling"]
  /\ UNCHANGED <<runState, subs, chan, pending, emitting, clientState, lost>>

EmitCancelling(x) ==
  /\ cancel[x] = "cancelling"
  /\ AppendEvent(x, "cancelling")
  /\ cancel' = [cancel EXCEPT ![x] = "returned"]
  /\ UNCHANGED <<status, subs, chan, clientState, lost>>

-----------------------------------------------------------------------------
(***************************************************************************)
(* Subscribe and streamWorkflowRun                                         *)
(***************************************************************************)
\* The events after lastSeq: the sequence numbers of a run are 1, 2, 3, ...
After(lastSeq) == [n \in 1..(Len(log) - lastSeq) |-> lastSeq + n]

\* The replay is cut and the channel registered in one critical section.
Subscribe(c) ==
  /\ \/ stream[c].pc = "off"
     \/ stream[c].pc = "ended" /\ MayReturn
  /\ stream' = [stream EXCEPT ![c] =
       [pc |-> "replay", since |-> last[c], replay |-> After(last[c])]]
  /\ lost' = [lost EXCEPT ![c] = {n \in @ : n <= last[c]}]
  /\ subs' = subs \cup {c}
  /\ chan' = [chan EXCEPT ![c] = <<>>]
  /\ UNCHANGED <<runState, pending, emitting, cancel, last, got, output>>

\* (mutant) the handler returns without its deferred unsub
KeepSubscribed(c) == UNCHANGED <<subs, chan, pending>>

\* The deferred unsub.  An emitter that copied the channel before may still
\* send to it, which nobody sees.
Unsubscribe(c) ==
  /\ subs' = subs \ {c}
  /\ chan' = [chan EXCEPT ![c] = <<>>]
  /\ pending' = [e \in Emitters |-> pending[e] \ {c}]

\* writeEvent and, after an event that ends the run, finish with the output.
Write(c, seq, replay) ==
  /\ last' = [last EXCEPT ![c] = seq]
  /\ got' = [got EXCEPT ![c] = Append(@, seq)]
  /\ stream' = [stream EXCEPT ![c] =
       [@ EXCEPT !.replay = replay,
                 !.pc = IF terminal(log[seq]) THEN "ended" ELSE stream[c].pc]]
  /\ output' = IF log[seq] = "completed" /\ status = "completed" THEN output \cup {c} ELSE output

WriteReplay(c) ==
  /\ stream[c].pc = "replay"
  /\ stream[c].replay # <<>>
  /\ LET seq == Head(stream[c].replay) IN
     /\ Write(c, seq, Tail(stream[c].replay))
     /\ IF terminal(log[seq]) THEN Unsubscribe(c) ELSE UNCHANGED <<subs, chan, pending>>
  /\ UNCHANGED <<runState, emitting, cancel, lost>>

GoLive(c) ==
  /\ stream[c].pc = "replay"
  /\ stream[c].replay = <<>>
  /\ stream' = [stream EXCEPT ![c].pc = "live"]
  /\ UNCHANGED <<runState, subs, chan, pending, emitting, cancel, last, got, output, lost>>

WriteLive(c) ==
  /\ stream[c].pc = "live"
  /\ chan[c] # <<>>
  /\ LET seq == Head(chan[c]) IN
     /\ Write(c, seq, <<>>)
     /\ IF terminal(log[seq]) THEN Unsubscribe(c)
        ELSE chan' = [chan EXCEPT ![c] = Tail(@)] /\ UNCHANGED <<subs, pending>>
  /\ UNCHANGED <<runState, emitting, cancel, lost>>

\* A write fails or the request context ends.
Disconnect(c) ==
  /\ MayDisconnect
  /\ stream[c].pc \in {"replay", "live"}
  /\ stream' = [stream EXCEPT ![c] = Off]
  /\ Unsubscribe(c)
  /\ UNCHANGED <<runState, emitting, cancel, last, got, output, lost>>

-----------------------------------------------------------------------------
EmitterStep(e) == \E c \in Clients : Offer(e, c)
RunnerStep == EmitPlain \/ Settle \/ EmitTerminal
HandlerStep(c) == WriteReplay(c) \/ GoLive(c) \/ WriteLive(c)

Next ==
  \/ RunnerStep
  \/ \E e \in Emitters : EmitterStep(e)
  \/ \E x \in Cancels : CancelRun(x) \/ EmitCancelling(x)
  \/ \E c \in Clients : Subscribe(c) \/ HandlerStep(c) \/ Disconnect(c)

Spec == Init /\ [][Next]_vars

\* Goroutines are scheduled and the run ends by its deadline; clients come and
\* go as they like.
Fairness ==
  /\ WF_vars(RunnerStep)
  /\ \A e \in Emitters : WF_vars(EmitterStep(e))
  /\ \A x \in Cancels : WF_vars(EmitCancelling(x))
  /\ \A c \in Clients : WF_vars(HandlerStep(c))

FairSpec == Spec /\ Fairness

-----------------------------------------------------------------------------
StreamRecord == [pc : {"off", "replay", "live", "ended"}, replay : Seq(Nat), since : Nat]

Types ==
  /\ log \in Seq(EventTypes)
  /\ status \in {"running"} \cup Outcomes
  /\ subs \subseteq Clients
  /\ chan \in [Clients -> Seq(Nat)]
  /\ pending \in [Emitters -> SUBSET Clients]
  /\ emitting \in [Emitters -> 0..Len(log)]
  /\ cancel \in [Cancels -> {"idle", "cancelling", "returned"}]
  /\ stream \in [Clients -> StreamRecord]
  /\ last \in [Clients -> 0..Len(log)]
  /\ got \in [Clients -> Seq(Nat)]
  /\ lost \in [Clients -> SUBSET Seqs]
  /\ output \subseteq Clients

Open(c) == stream[c].pc \in {"replay", "live"}

\* Types, bounds, and no leaked subscription: exactly the open streams are
\* subscribed (workflow_api.go 277), over any number of lost connections.
TypeOK ==
  /\ Types
  /\ Len(log) <= NPlain + 1 + Cardinality(Cancels)
  /\ \A c \in Clients : Len(chan[c]) <= Buffer
  /\ subs = {c \in Clients : Open(c)}

-----------------------------------------------------------------------------
(***************************************************************************)
(* Safety                                                                  *)
(***************************************************************************)

\* The events of the execute goroutine.
Own == {n \in Seqs : log[n] # "cancelling"}

\* Before its i-th event c received exactly the run's own events before that
\* one, but for those its channel lost.
Before(c, i) == {got[c][k] : k \in 1..(i - 1)}
InPlace(c, i) == Before(c, i) \cap Own = {n \in Own : n < got[c][i]} \ lost[c]

CancelsInPlace(c) == \A i \in DOMAIN got[c] : got[c][i] \notin Own => InPlace(c, i)

\* IT-08 (service_test.go 346): a client that loses its connection any number of
\* times and resumes with Last-Event-ID receives what the execute goroutine
\* emits in order, once and without gaps, except what a full channel lost.
\* Nothing falls between the replay and the channel, nor into both.  Only the
\* event of a CancelRun call that overtook another, or was overtaken, can make
\* a reconnecting client miss an event or get one twice.
RunEventsOnceInOrder ==
  \A c \in Clients : CancelsInPlace(c) =>
    \A i \in DOMAIN got[c] : got[c][i] \in Own => InPlace(c, i)

-----------------------------------------------------------------------------
(***************************************************************************)
(* Liveness                                                                *)
(***************************************************************************)

\* A client that stays connected is told the end of the run, unless it came
\* with an id of that end or later, or its full channel lost the end.
StreamEnds ==
  \A c \in Clients :
    (Open(c) /\ \A n \in 1..stream[c].since : log[n] \notin Outcomes) ~>
      (~Open(c) \/ \E n \in lost[c] : log[n] \in Outcomes)
=============================================================================
