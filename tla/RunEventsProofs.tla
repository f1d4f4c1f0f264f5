--------------------------- MODULE RunEventsProofs ---------------------------
(***************************************************************************)
(* Proofs about RunEvents, for any clients, CancelRun calls, numbers of    *)
(* events and capacities of the channels.                                  *)
(***************************************************************************)
EXTENDS RunEvents, SequencesExt, SequenceTheorems, FiniteSetTheorems, TLAPS

\* The event of the execute goroutine that c is still to be offered.
Fly(c) == IF c \in pending[Runner] THEN {emitting[Runner]} ELSE {}

Received(c) == ToSet(got[c])
Queued(c) == ToSet(stream[c].replay) \cup ToSet(chan[c])

\* The event an emitter has in hand is its own; the execute goroutine's is the
\* newest of the run.  Only the settled run has an event that says how it ended.
Emitting ==
  /\ \A n \in Seqs : log[n] \in Outcomes => log[n] = status
  /\ pending[Runner] # {} => emitting[Runner] \in Own /\ \A n \in Own : n <= emitting[Runner]
  /\ \A x \in Cancels : pending[x] # {} => emitting[x] \in Seqs \ Own
  /\ \A e \in Emitters : pending[e] \subseteq subs

\* No event of the run is in two of these places: in flight, received or queued, lost.
Fresh(c) ==
  /\ Received(c) \cup Queued(c) \subseteq Seqs
  /\ Fly(c) \cap (Received(c) \cup Queued(c) \cup lost[c]) = {}
  /\ \A n \in Own : n \in lost[c] => n \notin Received(c) \cup Queued(c)
  /\ stream[c].pc = "live" => stream[c].replay = <<>>
  /\ last[c] = 0 \/ last[c] \in Received(c)

\* The events of the CancelRun calls are in place, but for what is in flight.
Placed(c) ==
  \A i \in DOMAIN got[c] : got[c][i] \notin Own =>
    \A n \in Own : n \in Before(c, i) <=> n < got[c][i] /\ n \notin lost[c] \cup Fly(c)

\* What c received are the run's events up to last, and each was in place.
Caught(c) ==
  /\ \A n \in Own : n \in Received(c) <=> n <= last[c] /\ n \notin lost[c] \cup Fly(c)
  /\ \A i \in DOMAIN got[c] : got[c][i] \in Own =>
       \A n \in Own : n \in Before(c, i) <=> n < got[c][i] /\ n \notin lost[c]

Ascending(s) == \A i, j \in DOMAIN s : i < j /\ s[i] \in Own /\ s[j] \in Own => s[i] < s[j]

InOrder(c) ==
  /\ Ascending(stream[c].replay) /\ Ascending(chan[c])
  /\ \A m \in ToSet(stream[c].replay) \cap Own, n \in ToSet(chan[c]) \cap Own : m < n

\* What is queued for c are the run's later events, in order, but for what is
\* in flight or lost.
Coming(c) ==
  /\ \A n \in Own : n \in Queued(c) => n > last[c]
  /\ \A n \in Own : n > last[c] => n \in Queued(c) \cup lost[c] \cup Fly(c)
  /\ InOrder(c)

Sound(c) == Caught(c) /\ (Open(c) => Coming(c))

Stream(c) == Fresh(c) /\ (Placed(c) => Sound(c))

-----------------------------------------------------------------------------
(* Sequences. *)

\* What Append does.
LEMMA Appends ==
  ASSUME NEW S, NEW s \in Seq(S), NEW e \in S
  PROVE  /\ ToSet(Append(s, e)) = ToSet(s) \cup {e}
         /\ DOMAIN s = 1..Len(s) /\ DOMAIN Append(s, e) = 1..(Len(s) + 1) /\ Len(s) \in Nat
         /\ Len(Append(s, e)) = Len(s) + 1
         /\ Append(s, e)[Len(s) + 1] = e /\ \A i \in 1..Len(s) : Append(s, e)[i] = s[i]
<1>1. /\ DOMAIN s = 1..Len(s) /\ DOMAIN Append(s, e) = 1..(Len(s) + 1) /\ Len(s) \in Nat
      /\ Len(Append(s, e)) = Len(s) + 1
      /\ Append(s, e)[Len(s) + 1] = e /\ \A i \in 1..Len(s) : Append(s, e)[i] = s[i]
  OBVIOUS
<1>2. 1..(Len(s) + 1) = 1..Len(s) \cup {Len(s) + 1}
  BY <1>1
<1>3. ToSet(Append(s, e)) = ToSet(s) \cup {e}
  BY <1>1, <1>2 DEF ToSet
<1> QED BY <1>1, <1>3

\* What Head and Tail do.
LEMMA Heads ==
  ASSUME NEW S, NEW s \in Seq(S), s # <<>>
  PROVE  /\ Head(s) = s[1] /\ Len(s) \in Nat \ {0} /\ DOMAIN s = 1..Len(s)
         /\ DOMAIN Tail(s) = 1..(Len(s) - 1) /\ Len(Tail(s)) = Len(s) - 1
         /\ \A i \in 1..(Len(s) - 1) : Tail(s)[i] = s[i + 1]
         /\ ToSet(s) = {Head(s)} \cup ToSet(Tail(s))
<1>1. /\ Head(s) = s[1] /\ Len(s) \in Nat \ {0} /\ DOMAIN s = 1..Len(s)
      /\ DOMAIN Tail(s) = 1..(Len(s) - 1) /\ Len(Tail(s)) = Len(s) - 1
      /\ \A i \in 1..(Len(s) - 1) : Tail(s)[i] = s[i + 1]
  OBVIOUS
<1>2. \A i \in 2..Len(s) : i - 1 \in 1..(Len(s) - 1) /\ (i - 1) + 1 = i
  BY <1>1
<1>3. ToSet(s) \subseteq {Head(s)} \cup ToSet(Tail(s))
  <2> SUFFICES ASSUME NEW e \in ToSet(s) PROVE e \in {Head(s)} \cup ToSet(Tail(s))
    OBVIOUS
  <2>1. PICK i \in 1..Len(s) : e = s[i]
    BY <1>1 DEF ToSet
  <2>2. CASE i = 1
    BY <1>1, <2>1, <2>2
  <2>3. CASE i # 1
    <3>1. i \in 2..Len(s)
      BY <1>1, <2>1, <2>3
    <3>2. PICK k : k = i - 1
      OBVIOUS
    <3>3. k \in DOMAIN Tail(s) /\ Tail(s)[k] = e
      BY <1>1, <1>2, <2>1, <3>1, <3>2
    <3> QED BY <3>3 DEF ToSet
  <2> QED BY <2>2, <2>3
<1>4. ToSet(Tail(s)) \subseteq ToSet(s)
  BY <1>1 DEF ToSet
<1>5. Head(s) \in ToSet(s)
  BY <1>1 DEF ToSet
<1> QED BY <1>1, <1>3, <1>4, <1>5

-----------------------------------------------------------------------------
(* What happens to one client.  Its types: *)

Typed(c) ==
  /\ c \in Clients
  /\ log \in Seq(EventTypes)
  /\ got[c] \in Seq(Nat) /\ chan[c] \in Seq(Nat) /\ stream[c].replay \in Seq(Nat)
  /\ last[c] \in Nat

SameClient(c) ==
  /\ got'[c] = got[c] /\ last'[c] = last[c] /\ stream'[c] = stream[c]

\* What a client received stays what it was.
LEMMA SameBefore ==
  ASSUME NEW c, got'[c] = got[c]
  PROVE  /\ DOMAIN got'[c] = DOMAIN got[c] /\ Received(c)' = Received(c)
         /\ \A i \in DOMAIN got[c] : Before(c, i)' = Before(c, i) /\ got'[c][i] = got[c][i]
BY DEF Before, Received

\* Nothing happens to c.
LEMMA Untouched ==
  ASSUME NEW c, Typed(c), Stream(c), SameClient(c), UNCHANGED log,
         chan'[c] = chan[c], lost'[c] = lost[c], Fly(c)' = Fly(c)
  PROVE  Stream(c)'
<1>1. Own' = Own /\ Seqs' = Seqs
  BY DEF Own, Seqs
<1>2. Queued(c)' = Queued(c) /\ Received(c)' = Received(c)
  BY DEF Queued, Received, SameClient
<1>3. Fresh(c)'
  BY <1>1, <1>2 DEF Stream, Fresh, SameClient
<1>4. Placed(c)' => Placed(c)
  BY <1>1, SameBefore DEF Placed, SameClient
<1>5. Sound(c) => Sound(c)'
  BY <1>1, <1>2, SameBefore DEF Sound, Caught, Coming, InOrder, Ascending, SameClient, Open
<1> QED BY <1>3, <1>4, <1>5 DEF Stream

\* The log grows by one event.
LEMMA Grows ==
  ASSUME NEW c, Typed(c), NEW type \in EventTypes, log' = Append(log, type)
  PROVE  /\ Seqs = 1..Len(log) /\ Len(log) \in Nat
         /\ Seqs' = Seqs \cup {Len(log) + 1} /\ Len(log) + 1 \notin Seqs
         /\ \A n \in Seqs : log'[n] = log[n]
         /\ Own' = IF type = "cancelling" THEN Own ELSE Own \cup {Len(log) + 1}
         /\ log'[Len(log) + 1] = type
<1>1. /\ DOMAIN log = 1..Len(log) /\ DOMAIN log' = 1..(Len(log) + 1) /\ Len(log) \in Nat
      /\ log'[Len(log) + 1] = type /\ \A i \in 1..Len(log) : log'[i] = log[i]
  BY Appends DEF Typed
<1>2. Seqs' = Seqs \cup {Len(log) + 1} /\ Seqs = 1..Len(log) /\ Len(log) + 1 \notin Seqs
  BY <1>1 DEF Seqs
<1>3. Own' = IF type = "cancelling" THEN Own ELSE Own \cup {Len(log) + 1}
  BY <1>1, <1>2 DEF Own
<1> QED BY <1>1, <1>2, <1>3

\* The execute goroutine emits: if c is subscribed the event is in flight to it.
LEMMA Emits ==
  ASSUME NEW c, Typed(c), Stream(c), SameClient(c), NEW type \in EventTypes \ {"cancelling"},
         log' = Append(log, type), chan'[c] = chan[c], lost'[c] = lost[c], lost[c] \subseteq Seqs,
         Fly(c) = {}, Fly(c)' \in {{}, {Len(log) + 1}}, Open(c) => Fly(c)' = {Len(log) + 1}
  PROVE  Stream(c)'
<1> DEFINE new == Len(log) + 1
<1>1. /\ Seqs = 1..Len(log) /\ Len(log) \in Nat /\ Seqs' = Seqs \cup {new} /\ new \notin Seqs
      /\ Own' = Own \cup {new} /\ Own \subseteq Seqs
  BY Grows DEF Own
<1>n. new \in Nat \ {0} /\ \A n \in Seqs : n \in Nat /\ n < new
  BY <1>1
<1> HIDE DEF new
<1>f. Fly(c)' \subseteq {new} /\ (Open(c) => Fly(c)' = {new})
  BY DEF new
<1>2. Queued(c)' = Queued(c) /\ Received(c)' = Received(c) /\ Received(c) \cup Queued(c) \subseteq Seqs
  BY DEF Queued, Received, SameClient, Stream, Fresh
<1>3. Fresh(c)'
  <2>1. \A n \in Own' : n \in lost'[c] => n \notin Received(c) \cup Queued(c)
    BY <1>1, <1>2 DEF Stream, Fresh
  <2>2. Fly(c)' \cap (Received(c) \cup Queued(c) \cup lost'[c]) = {}
    BY <1>1, <1>2, <1>f
  <2> QED BY <1>1, <1>2, <2>1, <2>2 DEF Stream, Fresh, SameClient
<1>g. \A i \in DOMAIN got[c] : got[c][i] \in Seqs /\ Before(c, i) \subseteq Received(c)
  <2>1. DOMAIN got[c] = 1..Len(got[c]) /\ Len(got[c]) \in Nat
    BY Appends DEF Typed
  <2> QED BY <1>2, <2>1 DEF Received, ToSet, Before
<1>l. last[c] < new
  <2>1. last[c] = 0 \/ last[c] \in Seqs
    BY <1>2 DEF Stream, Fresh
  <2> QED BY <1>n, <2>1
<1>4. Placed(c)' => Placed(c)
  <2> SUFFICES ASSUME Placed(c)', NEW i \in DOMAIN got[c], got[c][i] \notin Own, NEW n \in Own
               PROVE  n \in Before(c, i) <=> n < got[c][i] /\ n \notin lost[c] \cup Fly(c)
    BY DEF Placed
  <2>1. got'[c][i] \notin Own' /\ n \in Own' /\ i \in DOMAIN got'[c]
    BY <1>1, <1>g, SameBefore DEF SameClient
  <2>2. n \in Before(c, i)' <=> n < got'[c][i] /\ n \notin lost'[c] \cup Fly(c)'
    BY <2>1 DEF Placed
  <2>3. n \notin Fly(c)' /\ n \notin Fly(c)
    BY <1>1, <1>f
  <2> QED BY <2>2, <2>3, SameBefore DEF SameClient
<1>5. Caught(c) => Caught(c)'
  <2> SUFFICES ASSUME Caught(c) PROVE Caught(c)'
    OBVIOUS
  <2>1. \A n \in Own' : n \in Received(c) <=> n <= last[c] /\ n \notin lost[c] \cup Fly(c)'
    <3> TAKE n \in Own'
    <3>1. CASE n = new
      BY <1>1, <1>2, <1>l, <3>1 DEF Typed
    <3>2. CASE n # new
      BY <1>1, <1>f, <3>2 DEF Caught
    <3> QED BY <3>1, <3>2
  <2>2. ASSUME NEW i \in DOMAIN got[c], got[c][i] \in Own', NEW n \in Own'
        PROVE  n \in Before(c, i) <=> n < got[c][i] /\ n \notin lost[c]
    <3>1. got[c][i] \in Own
      BY <1>1, <1>g, <2>2
    <3>2. CASE n = new
      BY <1>1, <1>2, <1>g, <1>n, <3>2
    <3>3. CASE n # new
      BY <1>1, <2>2, <3>1, <3>3 DEF Caught
    <3> QED BY <3>2, <3>3
  <2> QED BY <1>2, <2>1, <2>2, SameBefore DEF Caught, SameClient
<1>6. Open(c) /\ Coming(c) => Coming(c)'
  <2> SUFFICES ASSUME Open(c), Coming(c) PROVE Coming(c)'
    OBVIOUS
  <2>1. \A n \in Own' : n \in Queued(c) => n > last[c]
    BY <1>1, <1>2 DEF Coming, InOrder
  <2>2. \A n \in Own' : n > last[c] => n \in Queued(c) \cup lost[c] \cup Fly(c)'
    BY <1>1, <1>f DEF Coming, InOrder
  <2>3. \A n \in ToSet(stream[c].replay) \cup ToSet(chan[c]) : n \in Own' => n \in Own
    BY <1>1, <1>2 DEF Queued
  <2>4. \A s : (\A n \in ToSet(s) : n \in Own' => n \in Own) => (Ascending(s) => Ascending(s)')
    BY DEF Ascending, ToSet
  <2>5. Ascending(stream[c].replay)' /\ Ascending(chan[c])'
    BY <2>3, <2>4 DEF Coming, InOrder, SameClient
  <2> QED BY <1>2, <2>1, <2>2, <2>3, <2>5 DEF Coming, InOrder, SameClient
<1> QED BY <1>3, <1>4, <1>5, <1>6 DEF Stream, Sound, SameClient, Open

\* A CancelRun call emits, which is not an event of the run.
LEMMA EmitsCancelling ==
  ASSUME NEW c, Typed(c), Stream(c), SameClient(c), log' = Append(log, "cancelling"),
         chan'[c] = chan[c], lost'[c] = lost[c], Fly(c)' = Fly(c)
  PROVE  Stream(c)'
<1>1. Own' = Own /\ Seqs \subseteq Seqs'
  BY Grows DEF EventTypes
<1>2. Queued(c)' = Queued(c) /\ Received(c)' = Received(c)
  BY DEF Queued, Received, SameClient
<1>3. Fresh(c)'
  BY <1>1, <1>2 DEF Stream, Fresh, SameClient
<1>4. Placed(c)' => Placed(c)
  BY <1>1, SameBefore DEF Placed, SameClient
<1>5. Sound(c) => Sound(c)'
  BY <1>1, <1>2, SameBefore DEF Sound, Caught, Coming, InOrder, Ascending, SameClient, Open
<1> QED BY <1>3, <1>4, <1>5 DEF Stream

\* If what was in flight to c is not any more, and the CancelRun events are in
\* place, then it was not overtaken.
LEMMA NotOvertaken ==
  ASSUME NEW c, Typed(c), Fresh(c), Emitting, UNCHANGED log, got'[c] = got[c], lost'[c] = lost[c],
         Fly(c)' = {}, Placed(c)'
  PROVE  Placed(c) /\ (Caught(c) => \A n \in Fly(c) : n > last[c])
<1>0. Own' = Own /\ Own \subseteq Seqs /\ Seqs \subseteq Nat
  BY Appends DEF Own, Seqs, Typed
<1>g. \A i \in DOMAIN got[c] : got[c][i] \in Seqs /\ Before(c, i) \subseteq Received(c)
  <2>1. DOMAIN got[c] = 1..Len(got[c]) /\ Len(got[c]) \in Nat
    BY Appends DEF Typed
  <2> QED BY <2>1 DEF Fresh, Received, ToSet, Before
<1>1. \A n \in Fly(c) : n \in Own /\ n \notin Received(c) /\ n \notin lost[c] /\ \A m \in Own : m <= n
  BY DEF Fly, Emitting, Fresh
<1>2. \A i \in DOMAIN got[c] : got[c][i] \notin Own =>
        \A n \in Own : n \in Before(c, i) <=> n < got[c][i] /\ n \notin lost[c]
  BY <1>0, SameBefore DEF Placed
<1>3. \A n \in Fly(c), i \in DOMAIN got[c] : got[c][i] \notin Own => ~(n < got[c][i])
  BY <1>1, <1>2, <1>g
<1>4. Placed(c)
  BY <1>2, <1>3 DEF Placed
<1>5. ASSUME Caught(c), NEW n \in Fly(c) PROVE n > last[c]
  <2>0. n \in Nat /\ last[c] \in Nat
    BY <1>0, <1>1 DEF Typed
  <2>1. CASE last[c] = 0
    <3>1. n # 0
      BY <1>0, <1>1, Appends DEF Seqs, Typed
    <3> QED BY <2>0, <2>1, <3>1
  <2>2. CASE last[c] \in Received(c)
    <3>1. last[c] # n
      BY <1>1, <2>2
    <3>2. PICK i \in DOMAIN got[c] : last[c] = got[c][i]
      BY <2>2 DEF Received, ToSet
    <3>3. CASE last[c] \in Own
      BY <1>0, <1>1, <1>5, <2>0, <2>2, <3>1, <3>3 DEF Caught
    <3>4. CASE last[c] \notin Own
      BY <1>3, <2>0, <3>1, <3>2, <3>4
    <3> QED BY <3>3, <3>4
  <2> QED BY <2>1, <2>2 DEF Fresh
<1> QED BY <1>4, <1>5

\* The event in flight arrives in the channel.
LEMMA Arrives ==
  ASSUME NEW c, Typed(c), Stream(c), Emitting, UNCHANGED log, SameClient(c), lost'[c] = lost[c],
         NEW f, Fly(c) = {f}, Fly(c)' = {}, chan'[c] = Append(chan[c], f), Open(c)
  PROVE  Stream(c)'
<1>0. Own' = Own /\ Own \subseteq Seqs /\ Seqs \subseteq Nat /\ Seqs' = Seqs
  BY Appends DEF Own, Seqs, Typed
<1>1. f \in Own /\ f \in Nat /\ \A n \in Own : n <= f
  BY <1>0 DEF Fly, Emitting
<1>f. f \notin Received(c) /\ f \notin Queued(c) /\ f \notin lost[c] /\ Received(c) \cup Queued(c) \subseteq Seqs
  BY DEF Stream, Fresh
<1>2. /\ Queued(c)' = Queued(c) \cup {f} /\ Received(c)' = Received(c)
      /\ ToSet(chan'[c]) = ToSet(chan[c]) \cup {f}
  <2>1. ToSet(Append(chan[c], f)) = ToSet(chan[c]) \cup {f}
    <3>1. chan[c] \in Seq(Nat) /\ f \in Nat
      BY <1>1 DEF Typed
    <3> QED BY <3>1, Appends
  <2> QED BY <2>1 DEF Queued, Received, SameClient
<1>3. Fresh(c)'
  BY <1>0, <1>1, <1>2, <1>f DEF Stream, Fresh, SameClient
<1>4. ASSUME Placed(c)' PROVE Sound(c)'
  <2>1. Caught(c) /\ Coming(c) /\ f > last[c]
    BY <1>4, NotOvertaken DEF Stream, Sound, SameClient
  <2>2. Caught(c)'
    <3>1. last[c] \in Nat /\ ~(f <= last[c])
      BY <1>1, <2>1 DEF Typed
    <3>2. \A n \in Own : n \in Received(c) <=> n <= last[c] /\ n \notin lost[c]
      BY <1>f, <2>1, <3>1 DEF Caught
    <3> QED BY <1>0, <1>2, <2>1, <3>2, SameBefore DEF Caught, SameClient
  <2>3. ASSUME NEW n \in Own, n \in Queued(c) PROVE n < f
    <3>1. n \in Nat /\ n <= f /\ n # f
      BY <1>0, <1>1, <1>f, <2>3
    <3> QED BY <1>1, <3>1
  <2>4. \A n \in Own : n \in Queued(c) \cup {f} => n > last[c]
    BY <2>1 DEF Coming, InOrder
  <2>5. \A n \in Own : n > last[c] => n \in Queued(c) \cup {f} \cup lost[c]
    BY <2>1 DEF Coming, InOrder
  <2>6. Ascending(stream[c].replay)
    BY <2>1 DEF Coming, InOrder
  <2>7. \A i, j \in DOMAIN chan'[c] : i < j /\ chan'[c][i] \in Own /\ chan'[c][j] \in Own => chan'[c][i] < chan'[c][j]
    <3>1. /\ DOMAIN chan[c] = 1..Len(chan[c]) /\ DOMAIN chan'[c] = 1..(Len(chan[c]) + 1) /\ Len(chan[c]) \in Nat
          /\ chan'[c][Len(chan[c]) + 1] = f /\ \A i \in 1..Len(chan[c]) : chan'[c][i] = chan[c][i]
      BY <1>1, Appends DEF Typed
    <3>2. \A i \in 1..Len(chan[c]) : chan[c][i] \in Queued(c)
      BY <3>1 DEF Queued, ToSet
    <3>3. \A i, j \in 1..Len(chan[c]) : i < j /\ chan[c][i] \in Own /\ chan[c][j] \in Own => chan[c][i] < chan[c][j]
      BY <2>1, <3>1 DEF Coming, InOrder, Ascending
    <3> SUFFICES ASSUME NEW i \in 1..(Len(chan[c]) + 1), NEW j \in 1..(Len(chan[c]) + 1), i < j,
                        chan'[c][i] \in Own, chan'[c][j] \in Own
                 PROVE  chan'[c][i] < chan'[c][j]
      BY <3>1
    <3>4. i \in 1..Len(chan[c])
      BY <3>1
    <3>5. CASE j = Len(chan[c]) + 1
      BY <2>3, <3>1, <3>2, <3>4, <3>5
    <3>6. CASE j # Len(chan[c]) + 1
      <4>1. j \in 1..Len(chan[c])
        BY <3>1, <3>6
      <4> QED BY <3>1, <3>3, <3>4, <4>1
    <3> QED BY <3>5, <3>6
  <2>8. \A m \in ToSet(stream[c].replay) \cap Own, n \in (ToSet(chan[c]) \cup {f}) \cap Own : m < n
    BY <2>1, <2>3 DEF Coming, InOrder, Queued
  <2>9. Ascending(chan[c])' /\ Ascending(stream[c].replay)'
    BY <1>0, <2>6, <2>7 DEF Ascending, SameClient
  <2>10. Coming(c)'
    BY <1>0, <1>2, <2>4, <2>5, <2>8, <2>9 DEF Coming, InOrder, SameClient
  <2> QED BY <2>2, <2>10 DEF Sound
<1> QED BY <1>3, <1>4 DEF Stream

\* The event in flight finds the channel full.
LEMMA Lost ==
  ASSUME NEW c, Typed(c), Stream(c), Emitting, UNCHANGED log, SameClient(c),
         NEW f, Fly(c) = {f}, Fly(c)' = {}, lost'[c] = lost[c] \cup {f}, chan'[c] = chan[c]
  PROVE  Stream(c)'
<1>0. Own' = Own /\ Own \subseteq Seqs /\ Seqs \subseteq Nat /\ Seqs' = Seqs
  BY Appends DEF Own, Seqs, Typed
<1>1. f \in Own /\ f \in Nat /\ \A n \in Own : n <= f
  BY <1>0 DEF Fly, Emitting
<1>f. f \notin Received(c) /\ f \notin Queued(c) /\ f \notin lost[c] /\ Received(c) \cup Queued(c) \subseteq Seqs
  BY DEF Stream, Fresh
<1>2. Queued(c)' = Queued(c) /\ Received(c)' = Received(c) /\ (lost[c] \cup Fly(c)) = (lost[c] \cup Fly(c))'
  BY DEF Queued, Received, SameClient
<1>g. \A i \in DOMAIN got[c] : got[c][i] \in Received(c) /\ Before(c, i) \subseteq Received(c)
  <2>1. DOMAIN got[c] = 1..Len(got[c]) /\ Len(got[c]) \in Nat
    BY Appends DEF Typed
  <2> QED BY <2>1 DEF Received, ToSet, Before
<1>3. Fresh(c)'
  BY <1>0, <1>1, <1>2, <1>f DEF Stream, Fresh, SameClient
<1>4. Placed(c)' => Placed(c)
  BY <1>0, <1>2, SameBefore DEF Placed, SameClient
<1>5. ASSUME Caught(c) PROVE Caught(c)'
  <2>1. \A i \in DOMAIN got[c] : got[c][i] \in Own =>
          \A n \in Own : n \in Before(c, i) <=> n < got[c][i] /\ n \notin lost[c] \cup {f}
    <3> SUFFICES ASSUME NEW i \in DOMAIN got[c], got[c][i] \in Own
                 PROVE  f \notin Before(c, i) /\ ~(f < got[c][i])
      BY <1>5 DEF Caught
    <3>1. got[c][i] \in Nat /\ got[c][i] <= f
      BY <1>0, <1>1
    <3> QED BY <1>1, <1>f, <1>g, <3>1
  <2> QED BY <1>0, <1>2, <1>5, <2>1, SameBefore DEF Caught, SameClient
<1>6. Coming(c) => Coming(c)'
  BY <1>0, <1>2 DEF Coming, InOrder, Ascending, SameClient
<1> QED BY <1>3, <1>4, <1>5, <1>6 DEF Stream, Sound, SameClient, Open

\* An event of a CancelRun call arrives in the channel, or is lost.
LEMMA CancelArrives ==
  ASSUME NEW c, Typed(c), Stream(c), Emitting, UNCHANGED log, SameClient(c), Fly(c)' = Fly(c),
         NEW g \in Seqs \ Own, lost'[c] = lost[c], chan'[c] = Append(chan[c], g)
  PROVE  Stream(c)'
<1>0. Own' = Own /\ Own \subseteq Seqs /\ Seqs \subseteq Nat /\ Seqs' = Seqs
  BY Appends DEF Own, Seqs, Typed
<1>2. /\ Queued(c)' = Queued(c) \cup {g} /\ Received(c)' = Received(c)
      /\ ToSet(chan'[c]) = ToSet(chan[c]) \cup {g}
  <2>1. ToSet(Append(chan[c], g)) = ToSet(chan[c]) \cup {g}
    <3>1. chan[c] \in Seq(Nat) /\ g \in Nat
      BY <1>0 DEF Typed
    <3> QED BY <3>1, Appends
  <2> QED BY <2>1 DEF Queued, Received, SameClient
<1>f. \A n \in Fly(c) : n \in Own
  BY DEF Fly, Emitting
<1>3. Fresh(c)'
  BY <1>0, <1>2, <1>f DEF Stream, Fresh, SameClient
<1>4. Placed(c)' => Placed(c)
  BY <1>0, SameBefore DEF Placed, SameClient
<1>5. Caught(c) => Caught(c)'
  BY <1>0, <1>2, SameBefore DEF Caught, SameClient
<1>6. Coming(c) => Coming(c)'
  <2> SUFFICES ASSUME Coming(c) PROVE Coming(c)'
    OBVIOUS
  <2>1. /\ DOMAIN chan[c] = 1..Len(chan[c]) /\ DOMAIN chan'[c] = 1..(Len(chan[c]) + 1) /\ Len(chan[c]) \in Nat
        /\ chan'[c][Len(chan[c]) + 1] = g /\ \A i \in 1..Len(chan[c]) : chan'[c][i] = chan[c][i]
    BY <1>0, Appends DEF Typed
  <2>2. \A i \in DOMAIN chan'[c] : chan'[c][i] \in Own => i \in DOMAIN chan[c] /\ chan'[c][i] = chan[c][i]
    BY <2>1
  <2>3. Ascending(chan[c])' /\ Ascending(stream[c].replay)'
    BY <1>0, <2>2 DEF Coming, InOrder, Ascending, SameClient
  <2>4. \A m \in ToSet(stream[c].replay) \cap Own, n \in (ToSet(chan[c]) \cup {g}) \cap Own : m < n
    BY DEF Coming, InOrder
  <2> QED BY <1>0, <1>2, <2>3, <2>4 DEF Coming, InOrder, SameClient
<1> QED BY <1>3, <1>4, <1>5, <1>6 DEF Stream, Sound, SameClient, Open

\* The event of a CancelRun call finds the channel full.
LEMMA CancelLost ==
  ASSUME NEW c, Typed(c), Stream(c), Emitting, UNCHANGED log, SameClient(c), Fly(c)' = Fly(c),
         NEW g \in Seqs \ Own, lost'[c] = lost[c] \cup {g}, chan'[c] = chan[c]
  PROVE  Stream(c)'
<1>0. Own' = Own /\ Seqs' = Seqs
  BY DEF Own, Seqs
<1>1. \A n \in Own : n \in lost'[c] <=> n \in lost[c]
  OBVIOUS
<1>2. Queued(c)' = Queued(c) /\ Received(c)' = Received(c)
  BY DEF Queued, Received, SameClient
<1>f. \A n \in Fly(c) : n \in Own
  BY DEF Fly, Emitting
<1>3. Fresh(c)'
  BY <1>0, <1>1, <1>2, <1>f DEF Stream, Fresh, SameClient
<1>4. Placed(c)' => Placed(c)
  BY <1>0, <1>1, SameBefore DEF Placed, SameClient
<1>5. Caught(c) => Caught(c)'
  BY <1>0, <1>1, <1>2, SameBefore DEF Caught, SameClient
<1>6. Coming(c) => Coming(c)'
  BY <1>0, <1>1, <1>2 DEF Coming, InOrder, Ascending, SameClient
<1> QED BY <1>3, <1>4, <1>5, <1>6 DEF Stream, Sound, SameClient, Open

\* The connection is lost: what was in flight to c is not any more.
LEMMA Leaves ==
  ASSUME NEW c, Typed(c), Stream(c), Emitting, UNCHANGED log, got'[c] = got[c], last'[c] = last[c],
         lost'[c] = lost[c], Fly(c)' = {}, chan'[c] = <<>>, stream'[c] = Off
  PROVE  Stream(c)'
<1>0. Own' = Own /\ Seqs' = Seqs /\ Own \subseteq Nat
  BY Appends DEF Own, Seqs, Typed
<1>1. ~Open(c)' /\ Queued(c)' = {} /\ Received(c)' = Received(c) /\ stream'[c].replay = <<>>
  BY DEF Open, Off, Queued, Received, ToSet
<1>2. Fresh(c)'
  BY <1>0, <1>1 DEF Stream, Fresh
<1>3. ASSUME Placed(c)' PROVE Caught(c)'
  <2>1. Placed(c) /\ Caught(c) /\ \A n \in Fly(c) : n > last[c]
    BY <1>3, NotOvertaken DEF Stream, Sound
  <2>2. \A n \in Fly(c) : n \in Own /\ n \notin Received(c)
    BY DEF Fly, Emitting, Stream, Fresh
  <2>3. \A n \in Own : n \in Received(c) <=> n <= last[c] /\ n \notin lost[c]
    BY <1>0, <2>1, <2>2 DEF Caught, Typed
  <2> QED BY <1>0, <1>1, <2>1, <2>3, SameBefore DEF Caught
<1> QED BY <1>1, <1>2, <1>3 DEF Stream, Sound

\* c subscribes: it is sent what comes after last.
LEMMA Subscribes ==
  ASSUME NEW c, Typed(c), Stream(c), UNCHANGED log, got'[c] = got[c], last'[c] = last[c],
         last[c] <= Len(log), lost[c] \subseteq Seqs, lost'[c] = {n \in lost[c] : n <= last[c]},
         Fly(c) = {}, Fly(c)' = {}, chan'[c] = <<>>,
         stream'[c].pc = "replay", stream'[c].replay = After(last[c])
  PROVE  Stream(c)'
<1>0. Own' = Own /\ Seqs' = Seqs /\ Seqs = 1..Len(log) /\ Len(log) \in Nat /\ Own \subseteq Seqs /\ last[c] \in Nat
  BY Appends DEF Own, Seqs, Typed
<1>r. /\ DOMAIN After(last[c]) = 1..(Len(log) - last[c])
      /\ \A i \in 1..(Len(log) - last[c]) : After(last[c])[i] = last[c] + i
  BY DEF After
<1>q. ToSet(After(last[c])) = {n \in Seqs : n > last[c]}
  <2>1. ASSUME NEW n \in Seqs, n > last[c] PROVE n \in ToSet(After(last[c]))
    <3>1. PICK i : i = n - last[c]
      OBVIOUS
    <3>2. i \in 1..(Len(log) - last[c]) /\ last[c] + i = n
      BY <1>0, <2>1, <3>1
    <3> QED BY <1>r, <3>2 DEF ToSet
  <2>2. \A i \in 1..(Len(log) - last[c]) : last[c] + i \in Seqs /\ last[c] + i > last[c]
    BY <1>0
  <2>3. \A n \in ToSet(After(last[c])) : n \in Seqs /\ n > last[c]
    BY <1>r, <2>2 DEF ToSet
  <2> QED BY <2>1, <2>3
<1>1. Open(c)' /\ Queued(c)' = {n \in Seqs : n > last[c]} /\ Received(c)' = Received(c)
  <2>1. ToSet(<<>>) = {}
    BY DEF ToSet
  <2> QED BY <1>q, <2>1 DEF Open, Queued, Received
<1>2. Fresh(c)'
  BY <1>0, <1>1 DEF Stream, Fresh
<1>g. \A i \in DOMAIN got[c] : got[c][i] \in Received(c) /\ Before(c, i) \subseteq Received(c)
  <2>1. DOMAIN got[c] = 1..Len(got[c]) /\ Len(got[c]) \in Nat
    BY Appends DEF Typed
  <2> QED BY <2>1 DEF Received, ToSet, Before
<1>l. \A n \in Own : n \in lost[c] => n \notin Received(c)
  BY DEF Stream, Fresh
<1>3. Placed(c)' => Placed(c)
  <2> SUFFICES ASSUME Placed(c)' PROVE Placed(c)
    OBVIOUS
  <2>1. \A i \in DOMAIN got[c] : got[c][i] \notin Own =>
          \A n \in Own : n \in Before(c, i) <=> n < got[c][i] /\ n \notin lost'[c]
    BY <1>0, SameBefore DEF Placed
  <2>2. \A i \in DOMAIN got[c] : got[c][i] \notin Own =>
          \A n \in Own : n \in Before(c, i) <=> n < got[c][i] /\ n \notin lost[c]
    BY <1>g, <1>l, <2>1
  <2> QED BY <2>2 DEF Placed
<1>4. Caught(c) => Caught(c)'
  <2> SUFFICES ASSUME Caught(c) PROVE Caught(c)'
    OBVIOUS
  <2>1. \A n \in Own : n \in Received(c) <=> n <= last[c] /\ n \notin lost'[c]
    BY DEF Caught
  <2>2. ASSUME NEW i \in DOMAIN got[c], got[c][i] \in Own, NEW n \in Own
        PROVE  n \in Before(c, i) <=> n < got[c][i] /\ n \notin lost'[c]
    <3>1. got[c][i] <= last[c]
      BY <1>g, <2>2 DEF Caught
    <3>2. n < got[c][i] => n <= last[c]
      BY <1>0, <2>2, <3>1
    <3> QED BY <2>2, <3>2 DEF Caught
  <2> QED BY <1>0, <1>1, <2>1, <2>2, SameBefore DEF Caught
<1>5. Coming(c)'
  <2>1. \A i, j \in DOMAIN After(last[c]) : i < j => After(last[c])[i] < After(last[c])[j]
    BY <1>0, <1>r
  <2>2. DOMAIN <<>> = {} /\ ToSet(<<>>) = {}
    BY DEF ToSet
  <2>3. InOrder(c)'
    BY <2>1, <2>2 DEF InOrder, Ascending
  <2>4. \A n \in Own : n \in Queued(c)' <=> n > last[c]
    BY <1>0, <1>1
  <2> QED BY <1>0, <2>3, <2>4 DEF Coming
<1> QED BY <1>2, <1>3, <1>4, <1>5 DEF Stream, Sound

\* c goes on with its channel, or has the end of a stream behind it.
LEMMA Goes ==
  ASSUME NEW c, Typed(c), Stream(c), UNCHANGED log, got'[c] = got[c], last'[c] = last[c], Open(c),
         lost'[c] = lost[c], Fly(c)' = Fly(c), chan'[c] = chan[c], stream'[c].replay = stream[c].replay,
         stream[c].replay = <<>>
  PROVE  Stream(c)'
<1>1. Own' = Own /\ Seqs' = Seqs /\ Queued(c)' = Queued(c) /\ Received(c)' = Received(c)
  BY DEF Own, Seqs, Queued, Received
<1>2. Fresh(c)'
  BY <1>1 DEF Stream, Fresh
<1>3. Placed(c)' => Placed(c)
  BY <1>1, SameBefore DEF Placed
<1>4. Sound(c) => Sound(c)'
  BY <1>1, SameBefore DEF Sound, Caught, Coming, InOrder, Ascending
<1> QED BY <1>2, <1>3, <1>4 DEF Stream

\* c writes an event to its client.  If that event ends the stream, nothing is
\* queued for it and in flight to it any more.
LEMMA Writes ==
  ASSUME NEW c, Typed(c), Stream(c), Emitting, UNCHANGED log, Open(c), NEW e \in Queued(c),
         got'[c] = Append(got[c], e), last'[c] = e, lost'[c] = lost[c],
         Queued(c)' \subseteq Queued(c), stream'[c].pc = "live" => stream'[c].replay = <<>>,
         InOrder(c) /\ e \in Own => \A n \in Own : n \in Queued(c) => n = e \/ n > e,
         \/ Fly(c)' = Fly(c)
         \/ Fly(c)' = {} /\ e \in Own /\ ~Open(c)',
         Open(c)' /\ InOrder(c) =>
           InOrder(c)' /\ \A n \in Own : n \in Queued(c)' <=> n \in Queued(c) /\ n # e
  PROVE  Stream(c)'
<1>0. Own' = Own /\ Seqs' = Seqs /\ Own \subseteq Seqs /\ Seqs \subseteq Nat
  BY Appends DEF Own, Seqs, Typed
<1>e. e \in Seqs /\ e \in Nat /\ e \notin Fly(c) /\ (e \in Own => e \notin lost[c])
  BY <1>0 DEF Stream, Fresh
<1>f. \A n \in Fly(c) : n \in Own /\ n \notin Received(c) \cup Queued(c) /\ n \notin lost[c] /\ \A m \in Own : m <= n
  BY DEF Fly, Emitting, Stream, Fresh
<1>m. PICK m : m = Len(got[c]) + 1
  OBVIOUS
<1>a. /\ Received(c)' = Received(c) \cup {e} /\ m \in Nat /\ m - 1 = Len(got[c])
      /\ DOMAIN got[c] = 1..Len(got[c]) /\ DOMAIN got'[c] = 1..m /\ Len(got[c]) \in Nat
      /\ got'[c][m] = e /\ \A i \in 1..Len(got[c]) : got'[c][i] = got[c][i]
  <2>1. got[c] \in Seq(Nat)
    BY DEF Typed
  <2>2. /\ ToSet(Append(got[c], e)) = ToSet(got[c]) \cup {e} /\ Len(got[c]) \in Nat
        /\ DOMAIN got[c] = 1..Len(got[c]) /\ DOMAIN Append(got[c], e) = 1..(Len(got[c]) + 1)
        /\ Append(got[c], e)[Len(got[c]) + 1] = e
        /\ \A i \in 1..Len(got[c]) : Append(got[c], e)[i] = got[c][i]
    BY <2>1, <1>e, Appends
  <2> QED BY <1>m, <2>2 DEF Received
<1>b. /\ \A i \in 1..Len(got[c]) : Before(c, i)' = Before(c, i) /\ Before(c, i) \subseteq Received(c)
      /\ Before(c, m)' = Received(c)
  <2>1. \A i \in 1..Len(got[c]) : \A k \in 1..(i - 1) : k \in 1..Len(got[c]) /\ got'[c][k] = got[c][k]
    BY <1>a
  <2>2. \A i \in 1..Len(got[c]) : {got'[c][k] : k \in 1..(i - 1)} = {got[c][k] : k \in 1..(i - 1)}
    BY <2>1
  <2>3. \A i \in 1..Len(got[c]) : {got[c][k] : k \in 1..(i - 1)} \subseteq Received(c)
    BY <1>a, <2>1 DEF Received, ToSet
  <2>4. {got'[c][k] : k \in 1..(m - 1)} = Received(c)
    BY <1>a DEF Received, ToSet
  <2> QED BY <2>2, <2>3, <2>4 DEF Before
<1>1. Fresh(c)'
  <2>1. Received(c)' \cup Queued(c)' \subseteq Received(c) \cup Queued(c) /\ Fly(c)' \subseteq Fly(c)
    BY <1>a
  <2> QED BY <1>0, <1>a, <2>1 DEF Stream, Fresh
<1> SUFFICES ASSUME Placed(c)' PROVE Sound(c)'
  BY <1>1 DEF Stream
<1>p. ASSUME NEW i \in DOMAIN got'[c], got'[c][i] \notin Own, NEW n \in Own
      PROVE  n \in Before(c, i)' <=> n < got'[c][i] /\ n \notin lost[c] \cup Fly(c)'
  BY <1>0, <1>p DEF Placed
<1>2. Placed(c)
  <2> SUFFICES ASSUME NEW i \in 1..Len(got[c]), got[c][i] \notin Own, NEW n \in Own
               PROVE  n \in Before(c, i) <=> n < got[c][i] /\ n \notin lost[c] \cup Fly(c)
    BY <1>a DEF Placed
  <2>1. n \in Before(c, i) <=> n < got[c][i] /\ n \notin lost[c] \cup Fly(c)'
    <3>1. i \in DOMAIN got'[c] /\ got'[c][i] = got[c][i] /\ Before(c, i)' = Before(c, i)
      BY <1>a, <1>b
    <3> QED BY <1>p, <3>1
  <2>2. n \in Fly(c) => n \notin Before(c, i)
    BY <1>b, <1>f
  <2> QED BY <1>f, <2>1, <2>2
<1>3. Caught(c) /\ Coming(c)
  BY <1>2 DEF Stream, Sound
<1>4. \A n \in Own : n \in Queued(c) => n > last[c] /\ n \notin Received(c)
  BY <1>0, <1>3 DEF Caught, Coming, Typed
<1>5. CASE e \in Own
  <2>1. \A n \in Own : n \in Queued(c) => n = e \/ n > e
    BY <1>3, <1>5 DEF Coming
  <2>2. \A n \in Fly(c) : n > e
    <3> TAKE n \in Fly(c)
    <3>1. n \in Nat /\ e <= n /\ n # e
      BY <1>0, <1>5, <1>e, <1>f
    <3> QED BY <1>e, <3>1
  <2>3. e > last[c] /\ last[c] \in Nat
    BY <1>4, <1>5 DEF Typed
  <2>4. \A n \in Own : n \in Received(c) <=> n < e /\ n \notin lost[c]
    <3> TAKE n \in Own
    <3>0. n \in Nat
      BY <1>0
    <3>1. CASE n <= last[c]
      <4>1. n < e /\ n \notin Fly(c)
        BY <1>e, <2>2, <2>3, <3>0, <3>1
      <4> QED BY <1>3, <3>1, <4>1 DEF Caught
    <3>2. CASE n > last[c]
      <4>1. n \notin Received(c)
        BY <1>3, <2>3, <3>0, <3>2 DEF Caught
      <4>2. n < e => n \notin Queued(c) /\ n \notin Fly(c)
        BY <1>e, <2>1, <2>2, <3>0
      <4>3. n \in Queued(c) \cup lost[c] \cup Fly(c)
        BY <1>3, <3>2 DEF Coming
      <4> QED BY <4>1, <4>2, <4>3
    <3> QED BY <2>3, <3>0, <3>1, <3>2
  <2>5. Caught(c)'
    <3>1. \A n \in Own : n \in Received(c)' <=> n <= e /\ n \notin lost[c] \cup Fly(c)'
      <4> TAKE n \in Own
      <4>1. n \in Nat /\ (n \in Fly(c) => n > e) /\ Fly(c)' \subseteq Fly(c)
        BY <1>0, <2>2
      <4>2. CASE n = e
        BY <1>a, <1>e, <1>5, <4>1, <4>2
      <4>3. CASE n # e
        <5>1. n <= e <=> n < e
          BY <1>e, <4>1, <4>3
        <5>2. n <= e => n \notin Fly(c)
          BY <1>e, <4>1
        <5> QED BY <1>a, <2>4, <4>1, <4>3, <5>1, <5>2
      <4> QED BY <4>2, <4>3
    <3>2. ASSUME NEW i \in 1..m, got'[c][i] \in Own, NEW n \in Own
          PROVE  n \in Before(c, i)' <=> n < got'[c][i] /\ n \notin lost[c]
      <4>1. CASE i = m
        BY <1>a, <1>b, <2>4, <4>1
      <4>2. CASE i # m
        <5>1. i \in 1..Len(got[c])
          BY <1>a, <4>2
        <5> QED BY <1>3, <1>a, <1>b, <3>2, <5>1 DEF Caught
      <4> QED BY <4>1, <4>2
    <3> QED BY <1>0, <1>a, <3>1, <3>2 DEF Caught
  <2>6. ASSUME Open(c)' PROVE Coming(c)'
    <3>1. InOrder(c)' /\ \A n \in Own : n \in Queued(c)' <=> n \in Queued(c) /\ n # e
      BY <1>3, <2>6 DEF Coming
    <3>2. Fly(c)' = Fly(c)
      BY <2>6
    <3>3. \A n \in Own : n \in Queued(c)' => n > e
      BY <2>1, <3>1
    <3>4. \A n \in Own : n > e => n > last[c]
      BY <1>0, <1>e, <2>3
    <3>5. \A n \in Own : n > e => n \in Queued(c)' \cup lost[c] \cup Fly(c)
      BY <1>0, <1>3, <1>e, <3>1, <3>4 DEF Coming
    <3> QED BY <1>0, <3>1, <3>2, <3>3, <3>5 DEF Coming
  <2> QED BY <2>5, <2>6 DEF Sound
<1>6. CASE e \notin Own
  <2>0. Fly(c)' = Fly(c)
    BY <1>6
  <2>1. \A n \in Own : n \in Received(c) <=> n < e /\ n \notin lost[c] \cup Fly(c)
    <3>1. m \in DOMAIN got'[c]
      BY <1>a
    <3> QED BY <1>a, <1>b, <1>p, <1>6, <2>0, <3>1
  <2>2. Caught(c)'
    <3>1. \A n \in Own : n \in Received(c)' <=> n <= e /\ n \notin lost[c] \cup Fly(c)'
      <4> TAKE n \in Own
      <4>1. n \in Nat /\ n # e
        BY <1>0, <1>6
      <4>2. n <= e <=> n < e
        BY <1>e, <4>1
      <4> QED BY <1>a, <2>0, <2>1, <4>1, <4>2
    <3>2. ASSUME NEW i \in 1..m, got'[c][i] \in Own, NEW n \in Own
          PROVE  n \in Before(c, i)' <=> n < got'[c][i] /\ n \notin lost[c]
      <4>1. i \in 1..Len(got[c])
        BY <1>6, <1>a, <3>2
      <4> QED BY <1>3, <1>a, <1>b, <3>2, <4>1 DEF Caught
    <3> QED BY <1>0, <1>a, <3>1, <3>2 DEF Caught
  <2>3. ASSUME Open(c)' PROVE Coming(c)'
    <3>1. InOrder(c)' /\ \A n \in Own : n \in Queued(c)' <=> n \in Queued(c)
      BY <1>3, <1>6, <2>3 DEF Coming
    <3>2. ASSUME NEW n \in Own, n \in Queued(c) PROVE n > e
      <4>1. n \notin Received(c) /\ n \notin lost[c] \cup Fly(c)
        BY <1>4, <1>f, <3>2 DEF Stream, Fresh
      <4>2. ~(n < e) /\ n # e /\ n \in Nat
        BY <1>0, <1>6, <2>1, <4>1
      <4> QED BY <1>e, <4>2
    <3>3. ASSUME NEW n \in Own, n > e PROVE n \in Queued(c) \cup lost[c] \cup Fly(c)
      <4>0. n \in Nat /\ last[c] \in Nat /\ ~(n < e)
        BY <1>0, <1>e, <3>3 DEF Typed
      <4>1. n \notin Received(c)
        BY <2>1, <4>0
      <4>2. CASE n > last[c]
        BY <1>3, <4>2 DEF Coming
      <4>3. CASE n <= last[c]
        BY <1>3, <4>1, <4>3 DEF Caught
      <4> QED BY <4>0, <4>2, <4>3
    <3> QED BY <1>0, <2>0, <3>1, <3>2, <3>3 DEF Coming
  <2> QED BY <2>2, <2>3 DEF Sound
<1> QED BY <1>5, <1>6

-----------------------------------------------------------------------------
(* The steps. *)

\* How many events there are of each kind.
Counted ==
  /\ Cardinality({n \in Seqs : log[n] = "plain"}) <= NPlain
  /\ \A m, n \in Seqs : log[m] \in Outcomes /\ log[n] \in Outcomes => m = n
  /\ \A n \in Seqs : log[n] = "cancelling" => \E x \in Cancels : emitting[x] = n
  /\ \A x \in Cancels : cancel[x] # "returned" => emitting[x] = 0

\* A client that was told of the completion was sent the output.
OutputSent ==
  \A c \in Clients : \A i \in DOMAIN got[c] : log[got[c][i]] = "completed" => c \in output

Subscribed ==
  /\ \A c \in Clients : Len(chan[c]) <= Buffer
  /\ subs = {c \in Clients : Open(c)}

IInv ==
  /\ Types /\ Subscribed /\ Emitting /\ Counted /\ OutputSent
  /\ \A c \in Clients : Stream(c)

\* The types of one client.
LEMMA EachTyped ==
  ASSUME Types, NEW c \in Clients
  PROVE  /\ Typed(c) /\ last[c] <= Len(log) /\ lost[c] \subseteq Seqs
         /\ stream[c] \in StreamRecord /\ DOMAIN got[c] = 1..Len(got[c])
         /\ Seqs = 1..Len(log) /\ Len(log) \in Nat
<1>1. stream[c] \in StreamRecord /\ got[c] \in Seq(Nat) /\ log \in Seq(EventTypes)
  BY DEF Types
<1> QED BY <1>1, Appends DEF Types, Typed, StreamRecord, Seqs

\* The rest of an ascending sequence lies above its head.
LEMMA Rest ==
  ASSUME NEW s \in Seq(Nat), s # <<>>, Ascending(s)
  PROVE  /\ Ascending(Tail(s))
         /\ Head(s) \in Own => \A n \in Own : n \in ToSet(Tail(s)) => n > Head(s)
<1>1. /\ Head(s) = s[1] /\ Len(s) \in Nat \ {0} /\ DOMAIN s = 1..Len(s)
      /\ DOMAIN Tail(s) = 1..(Len(s) - 1)
      /\ \A i \in 1..(Len(s) - 1) : Tail(s)[i] = s[i + 1]
  BY Heads
<1>2. \A i \in 1..(Len(s) - 1) : s[i + 1] \in Nat /\ i + 1 \in 1..Len(s)
  BY <1>1
<1>3. Ascending(Tail(s))
  BY <1>1, <1>2 DEF Ascending
<1>4. ASSUME Head(s) \in Own, NEW n \in Own, n \in ToSet(Tail(s)) PROVE n > Head(s)
  <2>1. PICK i \in 1..(Len(s) - 1) : n = s[i + 1]
    BY <1>1, <1>4 DEF ToSet
  <2>2. s[1] < s[i + 1]
    BY <1>1, <1>2, <1>4, <2>1 DEF Ascending
  <2>3. s[1] \in Nat /\ s[i + 1] \in Nat
    BY <1>1, <1>2
  <2> QED BY <1>1, <2>1, <2>2, <2>3
<1> QED BY <1>3, <1>4

\* The end of a stream is an event of the run.
LEMMA EndIsOwn ==
  ASSUME NEW n \in Seqs, terminal(log[n])
  PROVE  n \in Own
BY DEF terminal, Own, Outcomes

\* Nothing is in flight to a client that has left.
LEMMA UnsubscribedFly ==
  ASSUME Types, NEW c \in Clients, Unsubscribe(c), UNCHANGED emitting
  PROVE  Fly(c)' = {} /\ chan'[c] = <<>> /\ \A d \in Clients \ {c} : Fly(d)' = Fly(d) /\ chan'[d] = chan[d]
BY DEF Types, Unsubscribe, Fly, Emitters

\* What a write leaves behind, for c and for the others.
LEMMA WriteEffect ==
  ASSUME Types, NEW c \in Clients, NEW e, NEW rest, Write(c, e, rest)
  PROVE  /\ got'[c] = Append(got[c], e) /\ last'[c] = e
         /\ stream'[c].replay = rest
         /\ stream'[c].pc = IF terminal(log[e]) THEN "ended" ELSE stream[c].pc
         /\ \A d \in Clients \ {c} : got'[d] = got[d] /\ last'[d] = last[d] /\ stream'[d] = stream[d]
<1>0. DOMAIN got = Clients /\ DOMAIN last = Clients /\ DOMAIN stream = Clients
  BY DEF Types
<1>1. stream[c] \in StreamRecord
  BY DEF Types
<1>2. stream'[c] = [stream[c] EXCEPT !.replay = rest, !.pc = IF terminal(log[e]) THEN "ended" ELSE @]
  BY <1>0 DEF Write
<1>3. stream'[c].replay = rest /\ stream'[c].pc = IF terminal(log[e]) THEN "ended" ELSE stream[c].pc
  BY <1>1, <1>2 DEF StreamRecord
<1> QED BY <1>0, <1>3 DEF Write

\* c is written the next event of its replay.
LEMMA WritesReplay ==
  ASSUME Types, Emitting, NEW c \in Clients, Stream(c), WriteReplay(c)
  PROVE  Stream(c)'
<1>0. Typed(c) /\ stream[c] \in StreamRecord
  BY EachTyped
<1>r. PICK r : r = stream[c].replay
  OBVIOUS
<1>e. PICK e : e = Head(r)
  OBVIOUS
<1>1. /\ r \in Seq(Nat) /\ r # <<>> /\ ToSet(r) = {e} \cup ToSet(Tail(r)) /\ e \in Queued(c)
      /\ Queued(c) = {e} \cup ToSet(Tail(r)) \cup ToSet(chan[c])
  <2>1. r \in Seq(Nat) /\ r # <<>>
    BY <1>0, <1>r DEF Typed, WriteReplay
  <2> QED BY <1>r, <1>e, <2>1, Heads DEF Queued
<1>2. e \in Seqs /\ Open(c) /\ stream[c].pc = "replay"
  BY <1>1 DEF Stream, Fresh, Open, WriteReplay
<1>3. /\ got'[c] = Append(got[c], e) /\ last'[c] = e /\ lost'[c] = lost[c]
      /\ UNCHANGED log /\ UNCHANGED emitting
      /\ stream'[c].replay = Tail(r)
      /\ stream'[c].pc = IF terminal(log[e]) THEN "ended" ELSE "replay"
  <2>1. Write(c, e, Tail(r)) /\ UNCHANGED <<runState, emitting, cancel, lost>>
    BY <1>e, <1>r DEF WriteReplay
  <2>2. UNCHANGED <<log, emitting, lost>>
    BY <2>1 DEF runState
  <2>3. /\ got'[c] = Append(got[c], e) /\ last'[c] = e /\ stream'[c].replay = Tail(r)
        /\ stream'[c].pc = IF terminal(log[e]) THEN "ended" ELSE stream[c].pc
    <3>1. PICK rest : rest = Tail(r)
      OBVIOUS
    <3>2. Write(c, e, rest)
      BY <2>1, <3>1
    <3>3. /\ got'[c] = Append(got[c], e) /\ last'[c] = e /\ stream'[c].replay = rest
          /\ stream'[c].pc = IF terminal(log[e]) THEN "ended" ELSE stream[c].pc
      BY <3>2, WriteEffect
    <3> QED BY <3>1, <3>3
  <2> QED BY <1>2, <2>2, <2>3
<1>4. ASSUME InOrder(c), e \in Own PROVE \A n \in Own : n \in Queued(c) => n = e \/ n > e
  <2>1. \A n \in Own : n \in ToSet(Tail(r)) => n > e
    BY <1>1, <1>4, <1>e, <1>r, Rest DEF InOrder
  <2>2. \A n \in Own : n \in ToSet(chan[c]) => e < n
    BY <1>1, <1>4, <1>r DEF InOrder
  <2>3. Own \subseteq Nat
    BY EachTyped DEF Own
  <2> QED BY <1>1, <1>4, <2>1, <2>2, <2>3
<1>5. CASE terminal(log[e])
  <2>1. Fly(c)' = {} /\ chan'[c] = <<>> /\ e \in Own /\ ~Open(c)' /\ stream'[c].pc # "live"
    <3>1. Unsubscribe(c)
      BY <1>5, <1>e, <1>r DEF WriteReplay
    <3> QED BY <1>2, <1>3, <1>5, <3>1, UnsubscribedFly, EndIsOwn DEF Open
  <2>2. Queued(c)' \subseteq Queued(c)
    <3>1. ToSet(<<>>) = {}
      BY DEF ToSet
    <3> QED BY <1>1, <1>3, <2>1, <3>1 DEF Queued
  <2> QED BY <1>0, <1>1, <1>2, <1>3, <1>4, <2>1, <2>2, Writes
<1>6. CASE ~terminal(log[e])
  <2>1. UNCHANGED <<subs, chan, pending>> /\ stream'[c].pc = "replay"
    BY <1>3, <1>6, <1>e, <1>r DEF WriteReplay
  <2>2. Fly(c)' = Fly(c)
    BY <1>3, <2>1 DEF Fly
  <2>3. Queued(c)' = ToSet(Tail(r)) \cup ToSet(chan[c])
    BY <1>3, <2>1 DEF Queued
  <2>4. ASSUME InOrder(c)
        PROVE  InOrder(c)' /\ \A n \in Own : n \in Queued(c)' <=> n \in Queued(c) /\ n # e
    <3>0. Own' = Own /\ Own \subseteq Nat
      BY <1>3, EachTyped DEF Own, Seqs
    <3>1. Ascending(Tail(r)) /\ (e \in Own => \A n \in Own : n \in ToSet(Tail(r)) => n > e)
      BY <1>1, <1>e, <1>r, <2>4, Rest DEF InOrder
    <3>2. \A n \in Own : n \in ToSet(chan[c]) => (e \in Own => e < n)
      BY <1>1, <1>r, <2>4 DEF InOrder
    <3>3. \A n \in Own : n \in Queued(c)' <=> n \in Queued(c) /\ n # e
      <4>1. ASSUME NEW n \in Own, n \in Queued(c)' PROVE n # e
        <5>1. e \in Own => n > e /\ n \in Nat
          BY <2>3, <3>0, <3>1, <3>2, <4>1
        <5> QED BY <4>1, <5>1
      <4> QED BY <1>1, <2>3, <4>1
    <3>4. InOrder(c)'
      <4>1. ToSet(Tail(r)) \subseteq ToSet(r)
        BY <1>1
      <4>2. \A m \in ToSet(Tail(r)) \cap Own, n \in ToSet(chan[c]) \cap Own : m < n
        BY <1>r, <2>4, <4>1 DEF InOrder
      <4> QED BY <1>3, <2>1, <2>4, <3>0, <3>1, <4>2 DEF InOrder, Ascending
    <3> QED BY <3>3, <3>4
  <2> QED BY <1>0, <1>1, <1>2, <1>3, <1>4, <2>1, <2>2, <2>3, <2>4, Writes
<1> QED BY <1>5, <1>6

\* c is written the next event of its channel.
LEMMA WritesLive ==
  ASSUME Types, Emitting, NEW c \in Clients, Stream(c), WriteLive(c)
  PROVE  Stream(c)'
<1>0. Typed(c) /\ stream[c] \in StreamRecord
  BY EachTyped
<1>e. PICK e : e = Head(chan[c])
  OBVIOUS
<1>n. ToSet(<<>>) = {} /\ DOMAIN <<>> = {}
  BY DEF ToSet
<1>1. /\ chan[c] \in Seq(Nat) /\ chan[c] # <<>> /\ ToSet(chan[c]) = {e} \cup ToSet(Tail(chan[c]))
      /\ e \in Queued(c) /\ stream[c].replay = <<>>
      /\ Queued(c) = {e} \cup ToSet(Tail(chan[c]))
  <2>1. chan[c] \in Seq(Nat) /\ chan[c] # <<>> /\ stream[c].replay = <<>>
    BY <1>0 DEF Typed, WriteLive, Stream, Fresh
  <2> QED BY <1>e, <1>n, <2>1, Heads DEF Queued
<1>2. e \in Seqs /\ Open(c) /\ stream[c].pc = "live"
  BY <1>1 DEF Stream, Fresh, Open, WriteLive
<1>3. /\ got'[c] = Append(got[c], e) /\ last'[c] = e /\ lost'[c] = lost[c]
      /\ UNCHANGED log /\ UNCHANGED emitting
      /\ stream'[c].replay = <<>>
      /\ stream'[c].pc = IF terminal(log[e]) THEN "ended" ELSE "live"
  <2>1. Write(c, e, <<>>) /\ UNCHANGED <<runState, emitting, cancel, lost>>
    BY <1>e DEF WriteLive
  <2>2. UNCHANGED <<log, emitting, lost>>
    BY <2>1 DEF runState
  <2> QED BY <1>0, <1>2, <2>1, <2>2, WriteEffect
<1>4. ASSUME InOrder(c), e \in Own PROVE \A n \in Own : n \in Queued(c) => n = e \/ n > e
  BY <1>1, <1>4, <1>e, Rest DEF InOrder
<1>5. CASE terminal(log[e])
  <2>1. Fly(c)' = {} /\ chan'[c] = <<>> /\ e \in Own /\ ~Open(c)' /\ stream'[c].pc # "live"
    <3>1. Unsubscribe(c)
      BY <1>5, <1>e DEF WriteLive
    <3> QED BY <1>2, <1>3, <1>5, <3>1, UnsubscribedFly, EndIsOwn DEF Open
  <2>2. Queued(c)' \subseteq Queued(c)
    BY <1>1, <1>3, <1>n, <2>1 DEF Queued
  <2> QED BY <1>0, <1>1, <1>2, <1>3, <1>4, <2>1, <2>2, Writes
<1>6. CASE ~terminal(log[e])
  <2>1. UNCHANGED <<subs, pending>> /\ stream'[c].pc = "live" /\ chan'[c] = Tail(chan[c])
    BY <1>3, <1>6, <1>e DEF WriteLive, Types
  <2>2. Fly(c)' = Fly(c)
    BY <1>3, <2>1 DEF Fly
  <2>3. Queued(c)' = ToSet(Tail(chan[c]))
    BY <1>3, <1>n, <2>1 DEF Queued
  <2>4. ASSUME InOrder(c)
        PROVE  InOrder(c)' /\ \A n \in Own : n \in Queued(c)' <=> n \in Queued(c) /\ n # e
    <3>0. Own' = Own /\ Own \subseteq Nat
      BY <1>3, EachTyped DEF Own, Seqs
    <3>1. Ascending(Tail(chan[c])) /\ (e \in Own => \A n \in Own : n \in ToSet(Tail(chan[c])) => n > e)
      BY <1>1, <1>e, <2>4, Rest DEF InOrder
    <3>3. \A n \in Own : n \in Queued(c)' <=> n \in Queued(c) /\ n # e
      BY <1>1, <2>3, <3>0, <3>1
    <3>4. InOrder(c)'
      BY <1>n, <1>3, <2>1, <3>0, <3>1 DEF InOrder, Ascending
    <3> QED BY <3>3, <3>4
  <2> QED BY <1>0, <1>1, <1>2, <1>3, <1>4, <2>1, <2>2, <2>3, <2>4, Writes
<1> QED BY <1>5, <1>6

\* The clients no action is about.
LEMMA OthersUntouched ==
  ASSUME IInv, NEW c \in Clients, SameClient(c), UNCHANGED <<log, emitting>>,
         chan'[c] = chan[c], lost'[c] = lost[c],
         c \in pending'[Runner] <=> c \in pending[Runner]
  PROVE  Stream(c)'
<1>1. Fly(c)' = Fly(c)
  BY DEF Fly
<1>2. Typed(c) /\ Stream(c)
  BY EachTyped DEF IInv
<1> QED BY <1>1, <1>2, Untouched

\* Every step keeps every client's stream sound.
LEMMA StreamsKeep ==
  ASSUME IInv, [Next]_vars, NEW c \in Clients
  PROVE  Stream(c)'
<1>0. /\ Typed(c) /\ last[c] <= Len(log) /\ lost[c] \subseteq Seqs /\ Stream(c) /\ Types /\ Emitting
      /\ stream[c] \in StreamRecord
  BY EachTyped DEF IInv
<1>d. /\ DOMAIN stream = Clients /\ DOMAIN last = Clients /\ DOMAIN got = Clients /\ DOMAIN lost = Clients
      /\ DOMAIN chan = Clients /\ DOMAIN pending = Emitters /\ DOMAIN emitting = Emitters
      /\ Runner \in Emitters /\ Runner \notin Cancels /\ Cancels \subseteq Emitters
  BY EventConstants DEF IInv, Types, Emitters
<1>1. ASSUME NEW type \in EventTypes \ {"cancelling"}, AppendEvent(Runner, type), pending[Runner] = {},
             UNCHANGED <<subs, chan, clientState, lost>>
      PROVE  Stream(c)'
  <2>1. Fly(c) = {} /\ Fly(c)' = IF c \in subs THEN {Len(log) + 1} ELSE {}
    BY <1>1, <1>d DEF AppendEvent, Fly
  <2>2. Open(c) => c \in subs
    BY DEF IInv, Subscribed
  <2>3. log' = Append(log, type) /\ SameClient(c)
    BY <1>1 DEF AppendEvent, clientState, SameClient
  <2> QED BY <1>0, <1>1, <2>1, <2>2, <2>3, Emits
<1>2. CASE EmitPlain
  BY <1>1, <1>2 DEF EmitPlain, EventTypes, Outcomes
<1>3. CASE EmitTerminal
  <2>1. status \in EventTypes \ {"cancelling"}
    BY <1>3 DEF EmitTerminal, IInv, Types, EventTypes, Outcomes
  <2> QED BY <1>1, <1>3, <2>1 DEF EmitTerminal
<1>4. ASSUME NEW x \in Cancels, EmitCancelling(x) PROVE Stream(c)'
  <2>1. Fly(c)' = Fly(c)
    BY <1>4, <1>d DEF EmitCancelling, AppendEvent, Fly
  <2>2. log' = Append(log, "cancelling") /\ SameClient(c) /\ chan'[c] = chan[c] /\ lost'[c] = lost[c]
    BY <1>4 DEF EmitCancelling, AppendEvent, clientState, SameClient
  <2> QED BY <1>0, <2>1, <2>2, EmitsCancelling
<1>5. ASSUME UNCHANGED <<log, chan, pending, emitting, clientState, lost>> PROVE Stream(c)'
  BY <1>5, OthersUntouched DEF SameClient, clientState
<1>6. ASSUME NEW e \in Emitters, NEW d \in Clients, Offer(e, d) PROVE Stream(c)'
  <2>1. /\ SameClient(c) /\ UNCHANGED <<log, emitting>> /\ d \in pending[e]
        /\ pending' = [pending EXCEPT ![e] = @ \ {d}]
    BY <1>6 DEF Offer, runState, clientState, SameClient
  <2>2. CASE c # d
    <3>1. chan'[c] = chan[c] /\ lost'[c] = lost[c]
      BY <1>6, <1>d, <2>2 DEF Offer, Send
    <3>2. c \in pending'[Runner] <=> c \in pending[Runner]
      BY <1>d, <2>1, <2>2
    <3> QED BY <2>1, <3>1, <3>2, OthersUntouched
  <2>3. CASE c = d /\ e = Runner
    <3>1. Fly(c) = {emitting[Runner]} /\ Fly(c)' = {}
      BY <1>d, <2>1, <2>3 DEF Fly
    <3>2. Open(c)
      BY <2>1, <2>3, <1>d DEF IInv, Subscribed, Emitting
    <3>3. CASE chan'[c] = Append(chan[c], emitting[Runner]) /\ lost'[c] = lost[c]
      BY <1>0, <2>1, <3>1, <3>2, <3>3, Arrives
    <3>4. CASE lost'[c] = lost[c] \cup {emitting[Runner]} /\ chan'[c] = chan[c]
      BY <1>0, <2>1, <3>1, <3>4, Lost
    <3> QED BY <1>6, <1>d, <2>3, <3>3, <3>4 DEF Offer, Send
  <2>4. CASE c = d /\ e # Runner
    <3>1. Fly(c)' = Fly(c)
      BY <1>d, <2>1, <2>4 DEF Fly
    <3>2. emitting[e] \in Seqs \ Own
      BY <2>1, <2>4 DEF IInv, Emitting, Emitters
    <3>3. CASE chan'[c] = Append(chan[c], emitting[e]) /\ lost'[c] = lost[c]
      BY <1>0, <2>1, <3>1, <3>2, <3>3, CancelArrives
    <3>4. CASE lost'[c] = lost[c] \cup {emitting[e]} /\ chan'[c] = chan[c]
      BY <1>0, <2>1, <3>1, <3>2, <3>4, CancelLost
    <3> QED BY <1>6, <1>d, <2>4, <3>3, <3>4 DEF Offer, Send
  <2> QED BY <2>2, <2>3, <2>4
<1>7. ASSUME NEW d \in Clients, Subscribe(d) PROVE Stream(c)'
  <2>1. CASE c # d
    <3>1. /\ SameClient(c) /\ chan'[c] = chan[c] /\ lost'[c] = lost[c]
          /\ UNCHANGED <<log, emitting, pending>>
      BY <1>7, <1>d, <2>1 DEF Subscribe, runState, SameClient
    <3> QED BY <3>1, OthersUntouched
  <2>2. CASE c = d
    <3>1. /\ stream'[c] = [pc |-> "replay", since |-> last[c], replay |-> After(last[c])]
          /\ lost'[c] = {n \in lost[c] : n <= last[c]} /\ chan'[c] = <<>>
          /\ UNCHANGED <<log, emitting, pending, got, last>>
      BY <1>7, <1>d, <2>2 DEF Subscribe, runState
    <3>2. ~Open(c)
      BY <1>7, <2>2 DEF Subscribe, Open
    <3>3. Fly(c) = {} /\ Fly(c)' = {}
      BY <1>d, <3>1, <3>2 DEF Fly, IInv, Subscribed, Emitting
    <3>4. stream'[c].pc = "replay" /\ stream'[c].replay = After(last[c])
      BY <3>1
    <3> QED BY <1>0, <3>1, <3>3, <3>4, Subscribes
  <2> QED BY <2>1, <2>2
<1>u. ASSUME NEW d \in Clients \ {c}, Unsubscribe(d) \/ UNCHANGED <<chan, pending>> \/
             (UNCHANGED pending /\ chan' = [chan EXCEPT ![d] = Tail(@)])
      PROVE  chan'[c] = chan[c] /\ (c \in pending'[Runner] <=> c \in pending[Runner])
  BY <1>u, <1>d DEF Unsubscribe
<1>8. ASSUME NEW d \in Clients, WriteReplay(d) PROVE Stream(c)'
  <2>1. CASE c # d
    <3>1. PICK e : Write(d, e, Tail(stream[d].replay))
      BY <1>8 DEF WriteReplay
    <3>2. SameClient(c)
      BY <1>0, <2>1, <3>1, WriteEffect DEF SameClient
    <3>3. Unsubscribe(d) \/ UNCHANGED <<subs, chan, pending>>
      BY <1>8 DEF WriteReplay
    <3>4. UNCHANGED <<log, emitting, lost>>
      BY <1>8 DEF WriteReplay, runState
    <3> QED BY <1>u, <2>1, <3>2, <3>3, <3>4, OthersUntouched
  <2>2. CASE c = d
    BY <1>0, <1>8, <2>2, WritesReplay
  <2> QED BY <2>1, <2>2
<1>9. ASSUME NEW d \in Clients, WriteLive(d) PROVE Stream(c)'
  <2>1. CASE c # d
    <3>1. PICK e : Write(d, e, <<>>)
      BY <1>9 DEF WriteLive
    <3>2. SameClient(c)
      BY <1>0, <2>1, <3>1, WriteEffect DEF SameClient
    <3>3. Unsubscribe(d) \/ (UNCHANGED pending /\ chan' = [chan EXCEPT ![d] = Tail(@)])
      BY <1>9 DEF WriteLive
    <3>4. UNCHANGED <<log, emitting, lost>>
      BY <1>9 DEF WriteLive, runState
    <3> QED BY <1>u, <2>1, <3>2, <3>3, <3>4, OthersUntouched
  <2>2. CASE c = d
    BY <1>0, <1>9, <2>2, WritesLive
  <2> QED BY <2>1, <2>2
<1>10. ASSUME NEW d \in Clients, GoLive(d) PROVE Stream(c)'
  <2>0. UNCHANGED <<log, emitting, pending, chan, lost, last, got>>
    BY <1>10 DEF GoLive, runState
  <2>1. CASE c # d
    <3>1. SameClient(c)
      BY <1>10, <1>d, <2>0, <2>1 DEF GoLive, SameClient
    <3> QED BY <2>0, <3>1, OthersUntouched
  <2>2. CASE c = d
    <3>1. stream[c].replay = <<>> /\ stream[c].pc = "replay" /\ stream' = [stream EXCEPT ![c].pc = "live"]
      BY <1>10, <2>2 DEF GoLive
    <3>2. stream'[c] = [stream[c] EXCEPT !.pc = "live"]
      BY <1>d, <3>1
    <3>3. stream'[c].replay = <<>>
      BY <1>0, <3>1, <3>2 DEF StreamRecord
    <3>4. Open(c) /\ Fly(c)' = Fly(c)
      BY <2>0, <3>1 DEF Open, Fly
    <3> QED BY <1>0, <2>0, <3>1, <3>3, <3>4, Goes
  <2> QED BY <2>1, <2>2
<1>11. ASSUME NEW d \in Clients, Disconnect(d) PROVE Stream(c)'
  <2>0. UNCHANGED <<log, emitting, lost, last, got>> /\ Unsubscribe(d) /\ stream' = [stream EXCEPT ![d] = Off]
    BY <1>11 DEF Disconnect, runState
  <2>1. CASE c # d
    <3>1. SameClient(c)
      BY <1>d, <2>0, <2>1 DEF SameClient
    <3> QED BY <1>u, <2>0, <2>1, <3>1, OthersUntouched
  <2>2. CASE c = d
    BY <1>0, <1>d, <2>0, <2>2, UnsubscribedFly, Leaves
  <2> QED BY <2>1, <2>2
<1>12. CASE Settle
  BY <1>5, <1>12 DEF Settle
<1>13. ASSUME NEW x \in Cancels, CancelRun(x) PROVE Stream(c)'
  BY <1>5, <1>13 DEF CancelRun, runState
<1>14. CASE UNCHANGED vars
  BY <1>5, <1>14 DEF vars, runState
<1> QED
  BY <1>2, <1>3, <1>4, <1>6, <1>7, <1>8, <1>9, <1>10, <1>11, <1>12, <1>13, <1>14
     DEF Next, RunnerStep, EmitterStep, HandlerStep

\* An event is appended by its emitter.
LEMMA AppendKeeps ==
  ASSUME IInv, NEW e \in Emitters, NEW type \in EventTypes, AppendEvent(e, type),
         UNCHANGED <<subs, chan, clientState, lost>>
  PROVE  /\ log' \in Seq(EventTypes)
         /\ pending' \in [Emitters -> SUBSET Clients] /\ emitting' \in [Emitters -> 0..Len(log')]
         /\ last' \in [Clients -> 0..Len(log')] /\ lost' \in [Clients -> SUBSET Seqs']
         /\ Subscribed'
         /\ \A d \in Emitters : pending'[d] \subseteq subs'
         /\ \A n \in Seqs : log'[n] = log[n] /\ Seqs' = Seqs \cup {Len(log) + 1} /\ log'[Len(log) + 1] = type
         /\ (\A c \in Clients : \A i \in DOMAIN got[c] : log'[got[c][i]] = "completed" => c \in output)
         /\ emitting'[e] = Len(log) + 1 /\ pending'[e] = subs
         /\ \A d \in Emitters \ {e} : emitting'[d] = emitting[d] /\ pending'[d] = pending[d]
<1>0. /\ log \in Seq(EventTypes) /\ Len(log) \in Nat /\ Types
      /\ emitting \in [Emitters -> 0..Len(log)] /\ pending \in [Emitters -> SUBSET Clients]
      /\ last \in [Clients -> 0..Len(log)] /\ lost \in [Clients -> SUBSET Seqs] /\ subs \subseteq Clients
  BY DEF IInv, Types
<1>1. /\ DOMAIN log = 1..Len(log) /\ DOMAIN log' = 1..(Len(log) + 1)
      /\ log'[Len(log) + 1] = type /\ \A i \in 1..Len(log) : log'[i] = log[i]
      /\ Len(log') = Len(log) + 1 /\ log' \in Seq(EventTypes)
  BY <1>0, Appends DEF AppendEvent
<1>2. Seqs' = Seqs \cup {Len(log) + 1} /\ Seqs = 1..Len(log)
  BY <1>0, <1>1 DEF Seqs
<1>3. 0..Len(log') = 0..Len(log) \cup {Len(log) + 1}
  BY <1>0, <1>1
<1>4. emitting' = [emitting EXCEPT ![e] = Len(log) + 1] /\ pending' = [pending EXCEPT ![e] = subs]
  BY DEF AppendEvent
<1>5. pending' \in [Emitters -> SUBSET Clients] /\ emitting' \in [Emitters -> 0..Len(log')]
  BY <1>0, <1>3, <1>4
<1>6. last' \in [Clients -> 0..Len(log')] /\ lost' \in [Clients -> SUBSET Seqs']
  <2>1. last' = last /\ lost' = lost
    BY DEF clientState
  <2> QED BY <1>0, <1>2, <1>3, <2>1
<1>7. \A d \in Emitters : pending'[d] \subseteq subs'
  BY <1>0, <1>4 DEF IInv, Emitting
<1>8. Subscribed'
  BY DEF IInv, Subscribed, Open, clientState
<1>9. \A c \in Clients : \A i \in DOMAIN got[c] : got[c][i] \in Seqs
  BY DEF IInv, Stream, Fresh, Received, ToSet
<1> QED BY <1>0, <1>1, <1>2, <1>4, <1>5, <1>6, <1>7, <1>8, <1>9 DEF IInv, OutputSent

\* The events are finitely many.
LEMMA PlainFinite ==
  ASSUME Types
  PROVE  /\ IsFiniteSet({n \in Seqs : log[n] = "plain"}) /\ IsFiniteSet(Seqs) /\ Cardinality(Seqs) = Len(log)
<1>1. Seqs = 1..Len(log) /\ Len(log) \in Nat
  BY DEF Types, Seqs
<1>2. IsFiniteSet(Seqs) /\ Cardinality(Seqs) = Len(log)
  <2>1. PICK n \in Nat : n = Len(log) /\ Seqs = 1..n
    BY <1>1
  <2>2. /\ IsFiniteSet(1..n)
        /\ Cardinality(1..n) = IF 1 > n THEN 0 ELSE n - 1 + 1
    BY FS_Interval
  <2>3. (IF 1 > n THEN 0 ELSE n - 1 + 1) = n
    OBVIOUS
  <2> QED BY <2>1, <2>2, <2>3
<1> QED BY <1>2, FS_Subset

\* The log never outgrows what its emitters have to say.
LEMMA LogBound ==
  ASSUME Types, Counted
  PROVE  Len(log) <= NPlain + 1 + Cardinality(Cancels)
<1> DEFINE P == {n \in Seqs : log[n] = "plain"}
           O == {n \in Seqs : log[n] \in Outcomes}
           C == {n \in Seqs : log[n] = "cancelling"}
<1>1. IsFiniteSet(P) /\ IsFiniteSet(O) /\ IsFiniteSet(C) /\ Cardinality(Seqs) = Len(log)
  BY PlainFinite, FS_Subset
<1>2. Cardinality(P) \in Nat /\ Cardinality(O) \in Nat /\ Cardinality(C) \in Nat
  BY <1>1, FS_CardinalityType
<1>3. Cardinality(P) <= NPlain
  BY DEF Counted
<1>4. Cardinality(O) <= 1
  <2>1. CASE O = {}
    BY <2>1, FS_EmptySet
  <2>2. CASE O # {}
    <3>1. PICK n \in O : TRUE
      BY <2>2
    <3>2. O = {n}
      BY <3>1 DEF Counted
    <3> QED BY <3>2, FS_Singleton
  <2> QED BY <2>1, <2>2
<1>5. Cardinality(C) <= Cardinality(Cancels)
  <2>1. PICK at : at = [x \in Cancels |-> emitting[x]]
    OBVIOUS
  <2>2. PICK I : I = {at[x] : x \in Cancels}
    OBVIOUS
  <2>3. IsFiniteSet(Cancels)
    BY EventConstants
  <2>4. C \subseteq I
    BY <2>1, <2>2 DEF Counted
  <2>5. IsFiniteSet(I) /\ Cardinality(I) <= Cardinality(Cancels)
    <3>1. at \in Surjection(Cancels, I)
      BY <2>1, <2>2 DEF Surjection
    <3> QED BY <2>3, <3>1, FS_Surjection
  <2>6. Cardinality(C) <= Cardinality(I)
    BY <2>4, <2>5, FS_Subset
  <2>7. Cardinality(I) \in Nat /\ Cardinality(Cancels) \in Nat
    BY <2>3, <2>5, FS_CardinalityType
  <2> QED BY <1>2, <2>5, <2>6, <2>7
<1>6. Seqs = (P \cup O) \cup C
  <2>1. \A n \in Seqs : log[n] \in EventTypes
    BY DEF Types, Seqs
  <2> QED BY <2>1 DEF EventTypes
<1>7. IsFiniteSet(P \cup O) /\ Cardinality(P \cup O) <= Cardinality(P) + Cardinality(O)
  <2>1. /\ IsFiniteSet(P \cup O) /\ IsFiniteSet(P \cap O)
        /\ Cardinality(P \cup O) = Cardinality(P) + Cardinality(O) - Cardinality(P \cap O)
    BY <1>1, FS_Union, FS_Intersection
  <2>2. Cardinality(P \cap O) \in Nat
    BY <2>1, FS_CardinalityType
  <2> QED BY <1>2, <2>1, <2>2
<1>8. Cardinality(Seqs) <= Cardinality(P \cup O) + Cardinality(C) /\ Cardinality(P \cup O) \in Nat
  <2>1. /\ IsFiniteSet((P \cup O) \cap C)
        /\ Cardinality((P \cup O) \cup C) = Cardinality(P \cup O) + Cardinality(C) - Cardinality((P \cup O) \cap C)
    BY <1>1, <1>7, FS_Union, FS_Intersection
  <2>2. Cardinality((P \cup O) \cap C) \in Nat /\ Cardinality(P \cup O) \in Nat
    BY <1>7, <2>1, FS_CardinalityType
  <2> HIDE DEF P, O, C
  <2> QED BY <1>2, <1>6, <2>1, <2>2
<1>9. Cardinality(Cancels) \in Nat /\ NPlain \in Nat /\ Len(log) \in Nat
  BY EventConstants, FS_CardinalityType DEF Types
<1> HIDE DEF P, O, C
<1> QED BY <1>1, <1>2, <1>3, <1>4, <1>5, <1>7, <1>8, <1>9

\* The execute goroutine emits an event before the end.
LEMMA EmitPlainKeeps ==
  ASSUME IInv, EmitPlain
  PROVE  Types' /\ Subscribed' /\ Emitting' /\ Counted' /\ OutputSent'
<1>0. Runner \in Emitters /\ Runner \notin Cancels /\ Cancels \subseteq Emitters /\ "plain" \in EventTypes
  BY EventConstants DEF Emitters, EventTypes
<1>c. UNCHANGED <<subs, chan, clientState, lost, status, cancel, stream, last, got, output>> /\ AppendEvent(Runner, "plain")
      /\ pending[Runner] = {} /\ status = "running"
  BY DEF EmitPlain, clientState
<1>1. PICK new : new = Len(log) + 1
  OBVIOUS
<1>2. /\ log' \in Seq(EventTypes)
      /\ pending' \in [Emitters -> SUBSET Clients] /\ emitting' \in [Emitters -> 0..Len(log')]
      /\ last' \in [Clients -> 0..Len(log')] /\ lost' \in [Clients -> SUBSET Seqs']
      /\ Subscribed'
      /\ \A d \in Emitters : pending'[d] \subseteq subs'
      /\ \A n \in Seqs : log'[n] = log[n]
      /\ Seqs' = Seqs \cup {new} /\ log'[new] = "plain" /\ new \notin Seqs /\ Seqs \subseteq Nat /\ new \in Nat
      /\ \A n \in Seqs : n < new
      /\ \A c \in Clients : \A i \in DOMAIN got[c] : log'[got[c][i]] = "completed" => c \in output
      /\ emitting'[Runner] = new
      /\ \A d \in Emitters \ {Runner} : emitting'[d] = emitting[d] /\ pending'[d] = pending[d]
  <2>1. Len(log) \in Nat /\ Seqs = 1..Len(log)
    BY DEF IInv, Types, Seqs
  <2>2. Seqs' = Seqs \cup {new} /\ log'[new] = "plain" /\ \A n \in Seqs : log'[n] = log[n]
    BY <1>0, <1>1, <1>c, <2>1, Grows, Appends DEF AppendEvent, IInv, Types, Seqs
  <2> QED BY <1>0, <1>1, <1>c, <2>1, <2>2, AppendKeeps
<1>3. Types'
  <2>1. Types
    BY DEF IInv
  <2>2. log' \in Seq(EventTypes) /\ pending' \in [Emitters -> SUBSET Clients] /\ emitting' \in [Emitters -> 0..Len(log')]
        /\ last' \in [Clients -> 0..Len(log')] /\ lost' \in [Clients -> SUBSET Seqs']
    BY <1>2
  <2> QED BY <1>c, <2>1, <2>2 DEF Types
<1>4. Emitting'
  <2>1. Own' = Own \cup {new} /\ Own \subseteq Seqs
    BY <1>2 DEF Own
  <2>2. \A n \in Seqs' : log'[n] \in Outcomes => log'[n] = status
    BY <1>2 DEF IInv, Emitting, Outcomes
  <2>3. emitting'[Runner] \in Own' /\ \A n \in Own' : n <= emitting'[Runner]
    BY <1>2, <2>1
  <2>4. \A x \in Cancels : pending'[x] # {} => emitting'[x] \in Seqs' \ Own'
    BY <1>0, <1>2, <2>1 DEF IInv, Emitting
  <2> QED BY <1>2, <1>c, <2>2, <2>3, <2>4 DEF Emitting
<1>5. Counted'
  <2>p. PICK P : P = {n \in Seqs : log[n] = "plain"}
    OBVIOUS
  <2>1. {n \in Seqs' : log'[n] = "plain"} = P \cup {new} /\ new \notin P
    BY <1>2, <2>p
  <2>2. Cardinality(P) < NPlain /\ IsFiniteSet(P)
    BY <2>p, PlainFinite DEF IInv, EmitPlain
  <2>3. Cardinality(P \cup {new}) = Cardinality(P) + 1
    BY <2>1, <2>2, FS_AddElement
  <2>4. Cardinality({n \in Seqs' : log'[n] = "plain"}) <= NPlain
    <3>1. Cardinality(P) \in Nat /\ NPlain \in Nat
      BY <2>2, FS_CardinalityType, EventConstants
    <3>2. Cardinality(P) + 1 <= NPlain
      BY <2>2, <3>1
    <3> QED BY <2>1, <2>3, <3>2
  <2>5. \A m, n \in Seqs' : log'[m] \in Outcomes /\ log'[n] \in Outcomes => m = n
    <3>1. \A n \in Seqs' : log'[n] \in Outcomes => n \in Seqs /\ log[n] \in Outcomes
      BY <1>2 DEF Outcomes
    <3>2. \A m, n \in Seqs : log[m] \in Outcomes /\ log[n] \in Outcomes => m = n
      BY DEF IInv, Counted
    <3> QED BY <3>1, <3>2
  <2>6. \A n \in Seqs' : log'[n] = "cancelling" => \E x \in Cancels : emitting'[x] = n
    <3>1. \A n \in Seqs' : log'[n] = "cancelling" => n \in Seqs /\ log[n] = "cancelling"
      BY <1>2
    <3>2. \A n \in Seqs : log[n] = "cancelling" => \E x \in Cancels : emitting[x] = n
      BY DEF IInv, Counted
    <3>3. \A x \in Cancels : emitting'[x] = emitting[x]
      BY <1>0, <1>2
    <3> QED BY <3>1, <3>2, <3>3
  <2>7. \A x \in Cancels : cancel'[x] # "returned" => emitting'[x] = 0
    BY <1>0, <1>2, <1>c DEF IInv, Counted
  <2> QED BY <2>4, <2>5, <2>6, <2>7 DEF Counted
<1>6. OutputSent'
  BY <1>2, <1>c DEF OutputSent
<1> QED BY <1>2, <1>3, <1>4, <1>5, <1>6

\* The execute goroutine announces how the run ended, once.
LEMMA EmitTerminalKeeps ==
  ASSUME IInv, EmitTerminal
  PROVE  Types' /\ Subscribed' /\ Emitting' /\ Counted' /\ OutputSent'
<1>0. Runner \in Emitters /\ Runner \notin Cancels /\ Cancels \subseteq Emitters /\ status \in Outcomes
  BY EventConstants DEF Emitters, EmitTerminal, IInv, Types
<1>t. status \in EventTypes /\ status # "plain" /\ status # "cancelling"
  BY <1>0 DEF Outcomes, EventTypes
<1>c. UNCHANGED <<subs, chan, clientState, lost, status, cancel, stream, last, got, output>> /\ AppendEvent(Runner, status)
      /\ pending[Runner] = {} /\ ~Announced
  BY DEF EmitTerminal, clientState
<1>1. PICK new : new = Len(log) + 1
  OBVIOUS
<1>2. /\ log' \in Seq(EventTypes)
      /\ pending' \in [Emitters -> SUBSET Clients] /\ emitting' \in [Emitters -> 0..Len(log')]
      /\ last' \in [Clients -> 0..Len(log')] /\ lost' \in [Clients -> SUBSET Seqs']
      /\ Subscribed'
      /\ \A d \in Emitters : pending'[d] \subseteq subs'
      /\ \A n \in Seqs : log'[n] = log[n]
      /\ Seqs' = Seqs \cup {new} /\ log'[new] = status /\ new \notin Seqs /\ Seqs \subseteq Nat /\ new \in Nat
      /\ \A n \in Seqs : n < new
      /\ \A c \in Clients : \A i \in DOMAIN got[c] : log'[got[c][i]] = "completed" => c \in output
      /\ emitting'[Runner] = new
      /\ \A d \in Emitters \ {Runner} : emitting'[d] = emitting[d] /\ pending'[d] = pending[d]
  <2>1. Len(log) \in Nat /\ Seqs = 1..Len(log)
    BY DEF IInv, Types, Seqs
  <2>2. Seqs' = Seqs \cup {new} /\ log'[new] = status /\ \A n \in Seqs : log'[n] = log[n]
    BY <1>0, <1>t, <1>1, <1>c, <2>1, Appends DEF AppendEvent, IInv, Types, Seqs
  <2> QED BY <1>0, <1>t, <1>1, <1>c, <2>1, <2>2, AppendKeeps
<1>3. Types'
  <2>1. Types
    BY DEF IInv
  <2>2. log' \in Seq(EventTypes) /\ pending' \in [Emitters -> SUBSET Clients] /\ emitting' \in [Emitters -> 0..Len(log')]
        /\ last' \in [Clients -> 0..Len(log')] /\ lost' \in [Clients -> SUBSET Seqs']
    BY <1>2
  <2> QED BY <1>c, <2>1, <2>2 DEF Types
<1>4. Emitting'
  <2>0. Seqs' = Seqs \cup {new} /\ log'[new] = status /\ \A n \in Seqs : log'[n] = log[n] /\ n # new
    BY <1>2
  <2>1. Own' = Own \cup {new} /\ Own \subseteq Seqs
    BY <1>t, <2>0 DEF Own
  <2>2. \A n \in Seqs' : log'[n] \in Outcomes => log'[n] = status
    BY <1>2 DEF IInv, Emitting
  <2>3. emitting'[Runner] \in Own' /\ \A n \in Own' : n <= emitting'[Runner]
    BY <1>2, <2>1
  <2>4. \A x \in Cancels : pending'[x] # {} => emitting'[x] \in Seqs' \ Own'
    BY <1>0, <1>2, <2>1 DEF IInv, Emitting
  <2> QED BY <1>2, <1>c, <2>2, <2>3, <2>4 DEF Emitting
<1>5. Counted'
  <2>1. {n \in Seqs' : log'[n] = "plain"} = {n \in Seqs : log[n] = "plain"}
    BY <1>2, <1>t
  <2>2. \A n \in Seqs : log[n] \notin Outcomes
    BY <1>c DEF Announced
  <2>5. \A m, n \in Seqs' : log'[m] \in Outcomes /\ log'[n] \in Outcomes => m = n
    <3>1. \A n \in Seqs' : log'[n] \in Outcomes => n = new
      BY <1>2, <2>2
    <3> QED BY <3>1
  <2>6. \A n \in Seqs' : log'[n] = "cancelling" => \E x \in Cancels : emitting'[x] = n
    <3>1. \A n \in Seqs' : log'[n] = "cancelling" => n \in Seqs /\ log[n] = "cancelling"
      BY <1>2, <1>t
    <3>2. \A n \in Seqs : log[n] = "cancelling" => \E x \in Cancels : emitting[x] = n
      BY DEF IInv, Counted
    <3>3. \A x \in Cancels : emitting'[x] = emitting[x]
      BY <1>0, <1>2
    <3> QED BY <3>1, <3>2, <3>3
  <2>7. \A x \in Cancels : cancel'[x] # "returned" => emitting'[x] = 0
    BY <1>0, <1>2, <1>c DEF IInv, Counted
  <2> QED BY <2>1, <2>5, <2>6, <2>7 DEF IInv, Counted
<1>6. OutputSent'
  BY <1>2, <1>c DEF OutputSent
<1> QED BY <1>2, <1>3, <1>4, <1>5, <1>6

\* A CancelRun call emits its event, once.
LEMMA EmitCancellingKeeps ==
  ASSUME IInv, NEW x \in Cancels, EmitCancelling(x)
  PROVE  Types' /\ Subscribed' /\ Emitting' /\ Counted' /\ OutputSent'
<1>0. /\ Runner \in Emitters /\ Runner # x /\ Cancels \subseteq Emitters /\ "cancelling" \in EventTypes
      /\ "cancelling" \notin Outcomes
  BY EventConstants DEF Emitters, EventTypes, Outcomes
<1>c. UNCHANGED <<subs, chan, clientState, lost, status, stream, last, got, output>> /\ AppendEvent(x, "cancelling")
      /\ cancel[x] = "cancelling" /\ cancel' = [cancel EXCEPT ![x] = "returned"]
  BY DEF EmitCancelling, clientState
<1>1. PICK new : new = Len(log) + 1
  OBVIOUS
<1>2. /\ log' \in Seq(EventTypes)
      /\ pending' \in [Emitters -> SUBSET Clients] /\ emitting' \in [Emitters -> 0..Len(log')]
      /\ last' \in [Clients -> 0..Len(log')] /\ lost' \in [Clients -> SUBSET Seqs']
      /\ Subscribed'
      /\ \A d \in Emitters : pending'[d] \subseteq subs'
      /\ \A n \in Seqs : log'[n] = log[n]
      /\ Seqs' = Seqs \cup {new} /\ log'[new] = "cancelling" /\ new \notin Seqs /\ 0 \notin Seqs
      /\ \A c \in Clients : \A i \in DOMAIN got[c] : log'[got[c][i]] = "completed" => c \in output
      /\ emitting'[x] = new
      /\ \A d \in Emitters \ {x} : emitting'[d] = emitting[d] /\ pending'[d] = pending[d]
  <2>1. Len(log) \in Nat /\ Seqs = 1..Len(log)
    BY DEF IInv, Types, Seqs
  <2>2. Seqs' = Seqs \cup {new} /\ log'[new] = "cancelling" /\ \A n \in Seqs : log'[n] = log[n]
    BY <1>0, <1>1, <1>c, <2>1, Appends DEF AppendEvent, IInv, Types, Seqs
  <2> QED BY <1>0, <1>1, <1>c, <2>1, <2>2, AppendKeeps
<1>3. Types'
  BY <1>2, <1>c DEF IInv, Types
<1>4. Emitting'
  <2>1. Own' = Own /\ Own \subseteq Seqs
    BY <1>2 DEF Own
  <2>2. \A n \in Seqs' : log'[n] \in Outcomes => log'[n] = status
    BY <1>0, <1>2 DEF IInv, Emitting
  <2>3. pending'[Runner] # {} => emitting'[Runner] \in Own' /\ \A n \in Own' : n <= emitting'[Runner]
    BY <1>0, <1>2, <2>1 DEF IInv, Emitting
  <2>4. \A y \in Cancels : pending'[y] # {} => emitting'[y] \in Seqs' \ Own'
    BY <1>0, <1>2, <2>1 DEF IInv, Emitting
  <2> QED BY <1>2, <1>c, <2>2, <2>3, <2>4 DEF Emitting
<1>5. Counted'
  <2>1. {n \in Seqs' : log'[n] = "plain"} = {n \in Seqs : log[n] = "plain"}
    BY <1>2
  <2>3. \A n \in Seqs' : log'[n] \in Outcomes => n \in Seqs /\ log[n] \in Outcomes
    BY <1>0, <1>2
  <2>4. \A m, n \in Seqs : log[m] \in Outcomes /\ log[n] \in Outcomes => m = n
    BY DEF IInv, Counted
  <2>5. \A m, n \in Seqs' : log'[m] \in Outcomes /\ log'[n] \in Outcomes => m = n
    BY <2>3, <2>4
  <2>6. \A n \in Seqs' : log'[n] = "cancelling" => \E y \in Cancels : emitting'[y] = n
    <3> SUFFICES ASSUME NEW n \in Seqs, log[n] = "cancelling" PROVE \E y \in Cancels : emitting'[y] = n
      BY <1>2
    <3>1. PICK y \in Cancels : emitting[y] = n
      BY DEF IInv, Counted
    <3>2. y # x
      BY <1>2, <1>c, <3>1 DEF IInv, Counted
    <3> QED BY <1>0, <1>2, <3>1, <3>2
  <2>7. \A y \in Cancels : cancel'[y] # "returned" => emitting'[y] = 0
    BY <1>0, <1>2, <1>c DEF IInv, Counted, Types
  <2> QED BY <2>1, <2>5, <2>6, <2>7 DEF IInv, Counted
<1>6. OutputSent'
  BY <1>2, <1>c DEF OutputSent
<1> QED BY <1>2, <1>3, <1>4, <1>5, <1>6

\* Nothing is emitted.
LEMMA SameLog ==
  ASSUME IInv, UNCHANGED <<log, status, emitting, cancel>>,
         \A e \in Emitters : pending'[e] \subseteq pending[e] /\ pending'[e] \subseteq subs'
  PROVE  Emitting' /\ Counted'
<1>1. Own' = Own /\ Seqs' = Seqs
  BY DEF Own, Seqs
<1>2. Runner \in Emitters /\ Cancels \subseteq Emitters
  BY DEF Emitters
<1>3. Emitting'
  BY <1>1, <1>2 DEF IInv, Emitting
<1>4. Counted'
  BY <1>1 DEF IInv, Counted
<1> QED BY <1>3, <1>4

\* An emitter offers its event to one subscriber.
LEMMA OfferKeeps ==
  ASSUME IInv, NEW e \in Emitters, NEW c \in Clients, Offer(e, c)
  PROVE  Types' /\ Subscribed' /\ Emitting' /\ Counted' /\ OutputSent'
<1>1. /\ UNCHANGED <<log, status, subs, emitting, cancel, stream, last, got, output>>
      /\ c \in pending[e] /\ pending' = [pending EXCEPT ![e] = @ \ {c}]
  BY DEF Offer, runState, clientState
<1>2. emitting[e] \in Seqs /\ Seqs' = Seqs /\ Seqs \subseteq Nat
  <2>1. emitting[e] \in Seqs
    BY <1>1 DEF IInv, Emitting, Emitters, Own
  <2> QED BY <1>1, <2>1 DEF IInv, Types, Seqs
<1>3. pending' \in [Emitters -> SUBSET Clients] /\ \A d \in Emitters : pending'[d] \subseteq pending[d]
  BY <1>1 DEF IInv, Types
<1>4. /\ chan' \in [Clients -> Seq(Nat)] /\ lost' \in [Clients -> SUBSET Seqs]
      /\ \A d \in Clients : Len(chan'[d]) <= Buffer
  <2>0. chan \in [Clients -> Seq(Nat)] /\ lost \in [Clients -> SUBSET Seqs] /\ Buffer \in Nat
        /\ \A d \in Clients : Len(chan[d]) <= Buffer
    BY EventConstants DEF IInv, Types, Subscribed
  <2>1. CASE Len(chan[c]) < Buffer /\ chan' = [chan EXCEPT ![c] = Append(@, emitting[e])] /\ UNCHANGED lost
    <3>0. chan[c] \in Seq(Nat) /\ emitting[e] \in Nat
      BY <1>2, <2>0
    <3>1. Append(chan[c], emitting[e]) \in Seq(Nat) /\ Len(Append(chan[c], emitting[e])) = Len(chan[c]) + 1
          /\ Len(chan[c]) \in Nat
      BY <3>0
    <3>2. Len(Append(chan[c], emitting[e])) <= Buffer
      BY <2>0, <2>1, <3>1
    <3> QED BY <2>0, <2>1, <3>1, <3>2
  <2>2. CASE lost' = [lost EXCEPT ![c] = @ \cup {emitting[e]}] /\ UNCHANGED chan
    BY <1>2, <2>0, <2>2
  <2> QED BY <2>1, <2>2 DEF Offer, Send
<1>5. Types' /\ Subscribed'
  BY <1>1, <1>2, <1>3, <1>4 DEF IInv, Types, Subscribed, Open
<1>6. Emitting' /\ Counted'
  <2>1. \A d \in Emitters : pending'[d] \subseteq subs'
    BY <1>1, <1>3 DEF IInv, Emitting
  <2> QED BY <1>1, <1>3, <2>1, SameLog
<1> QED BY <1>1, <1>5, <1>6 DEF IInv, OutputSent

\* A step of the handler of c.
LEMMA HandlerKeeps ==
  ASSUME IInv, NEW c \in Clients, UNCHANGED <<log, status, emitting, cancel>>,
         NEW s \in StreamRecord, stream' = [stream EXCEPT ![c] = s],
         NEW q \in Seq(Nat), chan' = [chan EXCEPT ![c] = q], Len(q) <= Buffer,
         subs' = IF s.pc \in {"replay", "live"} THEN subs \cup {c} ELSE subs \ {c},
         pending' \in [Emitters -> SUBSET Clients],
         \A e \in Emitters : pending'[e] \subseteq pending[e] /\ pending'[e] \subseteq subs',
         lost' \in [Clients -> SUBSET Seqs], got' \in [Clients -> Seq(Nat)],
         last' \in [Clients -> 0..Len(log)], output' \subseteq Clients
  PROVE  Types' /\ Subscribed' /\ Emitting' /\ Counted'
<1>0. Types /\ Subscribed /\ Seqs' = Seqs
  BY DEF IInv, Seqs
<1>1. stream' \in [Clients -> StreamRecord] /\ stream'[c] = s /\ \A d \in Clients \ {c} : stream'[d] = stream[d]
  BY <1>0 DEF Types
<1>2. chan' \in [Clients -> Seq(Nat)] /\ chan'[c] = q /\ \A d \in Clients \ {c} : chan'[d] = chan[d]
  BY <1>0 DEF Types
<1>3. Types'
  BY <1>0, <1>1, <1>2 DEF Types
<1>4. Subscribed'
  BY <1>0, <1>1, <1>2 DEF Subscribed, Open
<1> QED BY <1>3, <1>4, SameLog

\* c subscribes.
LEMMA SubscribeKeeps ==
  ASSUME IInv, NEW c \in Clients, Subscribe(c)
  PROVE  Types' /\ Subscribed' /\ Emitting' /\ Counted' /\ OutputSent'
<1>0. Types /\ Typed(c) /\ last[c] \in 0..Len(log) /\ Len(log) \in Nat
  BY EachTyped DEF IInv, Types
<1>1. UNCHANGED <<log, status, emitting, cancel, pending, last, got, output>>
  BY DEF Subscribe, runState
<1>2. PICK s : s = [pc |-> "replay", since |-> last[c], replay |-> After(last[c])]
  OBVIOUS
<1>3. After(last[c]) \in Seq(Nat)
  <2>1. PICK k : k = Len(log) - last[c]
    OBVIOUS
  <2>2. k \in Nat /\ \A n \in 1..k : last[c] + n \in Nat
    BY <1>0, <2>1
  <2>3. [n \in 1..k |-> last[c] + n] \in [1..k -> Nat]
    BY <2>2
  <2>4. [n \in 1..k |-> last[c] + n] \in Seq(Nat)
    BY <2>2, <2>3, IsASeq
  <2> QED BY <2>1, <2>4 DEF After
<1>4. s \in StreamRecord /\ stream' = [stream EXCEPT ![c] = s] /\ s.pc = "replay"
  BY <1>0, <1>2, <1>3 DEF StreamRecord, Subscribe
<1>5. PICK q : q = <<>>
  OBVIOUS
<1>6. q \in Seq(Nat) /\ Len(q) <= Buffer /\ chan' = [chan EXCEPT ![c] = q]
  BY <1>5, EventConstants DEF Subscribe
<1>7. lost' \in [Clients -> SUBSET Seqs] /\ subs' = subs \cup {c}
  BY <1>0 DEF Subscribe, Types
<1>8. pending' \in [Emitters -> SUBSET Clients]
      /\ \A e \in Emitters : pending'[e] \subseteq pending[e] /\ pending'[e] \subseteq subs'
  BY <1>1, <1>7 DEF IInv, Types, Emitting
<1>9. got' \in [Clients -> Seq(Nat)] /\ last' \in [Clients -> 0..Len(log)] /\ output' \subseteq Clients
  BY <1>0, <1>1 DEF Types
<1>10. Types' /\ Subscribed' /\ Emitting' /\ Counted'
  BY <1>1, <1>4, <1>6, <1>7, <1>8, <1>9, HandlerKeeps
<1> QED BY <1>1, <1>10 DEF IInv, OutputSent

\* c has been written its replay.
LEMMA GoLiveKeeps ==
  ASSUME IInv, NEW c \in Clients, GoLive(c)
  PROVE  Types' /\ Subscribed' /\ Emitting' /\ Counted' /\ OutputSent'
<1>1. UNCHANGED <<log, status, emitting, cancel, pending, last, got, output, subs, chan, lost>>
      /\ stream[c].pc = "replay" /\ stream' = [stream EXCEPT ![c].pc = "live"]
  BY DEF GoLive, runState
<1>2. Types /\ stream \in [Clients -> StreamRecord] /\ stream[c] \in StreamRecord /\ c \in subs
  BY <1>1, EachTyped DEF IInv, Types, Subscribed, Open
<1>3. PICK s : s = [stream[c] EXCEPT !.pc = "live"]
  OBVIOUS
<1>4. s \in StreamRecord /\ s.pc = "live"
  BY <1>2, <1>3 DEF StreamRecord
<1>5. stream' = [stream EXCEPT ![c] = s]
  BY <1>1, <1>2, <1>3
<1>6. PICK q : q = chan[c]
  OBVIOUS
<1>7. q \in Seq(Nat) /\ Len(q) <= Buffer /\ chan' = [chan EXCEPT ![c] = q] /\ subs' = subs \cup {c}
  BY <1>1, <1>2, <1>6 DEF IInv, Types, Subscribed
<1>8. pending' \in [Emitters -> SUBSET Clients]
      /\ \A e \in Emitters : pending'[e] \subseteq pending[e] /\ pending'[e] \subseteq subs'
  BY <1>1 DEF IInv, Types, Emitting
<1>9. /\ lost' \in [Clients -> SUBSET Seqs] /\ got' \in [Clients -> Seq(Nat)]
      /\ last' \in [Clients -> 0..Len(log)] /\ output' \subseteq Clients
  BY <1>1, <1>2 DEF Types
<1>10. Types' /\ Subscribed' /\ Emitting' /\ Counted'
  BY <1>1, <1>4, <1>5, <1>7, <1>8, <1>9, HandlerKeeps
<1> QED BY <1>1, <1>10 DEF IInv, OutputSent

\* What the deferred unsub leaves behind.
LEMMA Unsubscribed ==
  ASSUME IInv, NEW c \in Clients, Unsubscribe(c)
  PROVE  /\ subs' = subs \ {c} /\ chan' = [chan EXCEPT ![c] = <<>>]
         /\ pending' \in [Emitters -> SUBSET Clients]
         /\ \A e \in Emitters : pending'[e] \subseteq pending[e] /\ pending'[e] \subseteq subs'
BY DEF Unsubscribe, IInv, Types, Emitting

\* c loses its connection.
LEMMA DisconnectKeeps ==
  ASSUME IInv, NEW c \in Clients, Disconnect(c)
  PROVE  Types' /\ Subscribed' /\ Emitting' /\ Counted' /\ OutputSent'
<1>1. UNCHANGED <<log, status, emitting, cancel, last, got, output, lost>> /\ Unsubscribe(c)
  BY DEF Disconnect, runState
<1>2. PICK s : s = Off
  OBVIOUS
<1>3. s \in StreamRecord /\ s.pc = "off" /\ stream' = [stream EXCEPT ![c] = s]
  BY <1>2 DEF StreamRecord, Off, Disconnect
<1>4. PICK q : q = <<>>
  OBVIOUS
<1>5. q \in Seq(Nat) /\ Len(q) <= Buffer
  BY <1>4, EventConstants
<1>6. /\ lost' \in [Clients -> SUBSET Seqs] /\ got' \in [Clients -> Seq(Nat)]
      /\ last' \in [Clients -> 0..Len(log)] /\ output' \subseteq Clients
  BY <1>1 DEF IInv, Types
<1>7. Types' /\ Subscribed' /\ Emitting' /\ Counted'
  BY <1>1, <1>3, <1>4, <1>5, <1>6, Unsubscribed, HandlerKeeps
<1> QED BY <1>1, <1>7 DEF IInv, OutputSent

\* A handler writes the next event it has queued, and the output after the completion.
LEMMA WriteKeeps ==
  ASSUME IInv, NEW c \in Clients, Open(c), NEW e \in Seqs, NEW rest \in Seq(Nat), Write(c, e, rest),
         UNCHANGED <<log, status, emitting, cancel, lost>>,
         \/ terminal(log[e]) /\ Unsubscribe(c)
         \/ /\ ~terminal(log[e]) /\ UNCHANGED <<subs, pending>>
            /\ chan' \in {chan, [chan EXCEPT ![c] = Tail(@)]} /\ (chan' = chan \/ chan[c] # <<>>)
  PROVE  Types' /\ Subscribed' /\ Emitting' /\ Counted' /\ OutputSent'
<1>0. /\ Types /\ Typed(c) /\ stream \in [Clients -> StreamRecord] /\ stream[c] \in StreamRecord
      /\ Seqs = 1..Len(log) /\ Len(log) \in Nat /\ e \in Nat /\ c \in subs /\ DOMAIN got[c] = 1..Len(got[c])
      /\ got \in [Clients -> Seq(Nat)]
  BY EachTyped DEF IInv, Types, Subscribed
<1>1. PICK s : s = [stream[c] EXCEPT !.replay = rest, !.pc = IF terminal(log[e]) THEN "ended" ELSE stream[c].pc]
  OBVIOUS
<1>2. s \in StreamRecord /\ s.pc = IF terminal(log[e]) THEN "ended" ELSE stream[c].pc
  BY <1>0, <1>1 DEF StreamRecord
<1>3. stream' = [stream EXCEPT ![c] = s]
  BY <1>0, <1>1 DEF Write
<1>4. got' \in [Clients -> Seq(Nat)] /\ got'[c] = Append(got[c], e) /\ \A d \in Clients \ {c} : got'[d] = got[d]
  <2>1. Append(got[c], e) \in Seq(Nat)
    BY <1>0
  <2> QED BY <1>0, <2>1 DEF Write
<1>5. last' \in [Clients -> 0..Len(log)] /\ output' \subseteq Clients /\ lost' \in [Clients -> SUBSET Seqs]
      /\ output \subseteq output'
  BY <1>0 DEF Write, Types
<1>6. Types' /\ Subscribed' /\ Emitting' /\ Counted'
  <2>1. CASE terminal(log[e]) /\ Unsubscribe(c)
    <3>1. PICK q : q = <<>>
      OBVIOUS
    <3>2. q \in Seq(Nat) /\ Len(q) <= Buffer /\ s.pc = "ended"
      BY <1>2, <2>1, <3>1, EventConstants
    <3> QED BY <1>2, <1>3, <1>4, <1>5, <2>1, <3>1, <3>2, Unsubscribed, HandlerKeeps
  <2>2. CASE /\ ~terminal(log[e]) /\ UNCHANGED <<subs, pending>>
             /\ chan' \in {chan, [chan EXCEPT ![c] = Tail(@)]} /\ (chan' = chan \/ chan[c] # <<>>)
    <3>1. PICK q : q = IF chan' = chan THEN chan[c] ELSE Tail(chan[c])
      OBVIOUS
    <3>2. q \in Seq(Nat) /\ Len(q) <= Buffer /\ chan' = [chan EXCEPT ![c] = q]
      <4>1. chan[c] \in Seq(Nat) /\ Len(chan[c]) <= Buffer /\ Buffer \in Nat /\ chan \in [Clients -> Seq(Nat)]
        BY EventConstants DEF IInv, Types, Subscribed
      <4>2. CASE chan' = chan
        BY <3>1, <4>1, <4>2
      <4>3. CASE chan' # chan
        <5>1. Tail(chan[c]) \in Seq(Nat) /\ Len(Tail(chan[c])) <= Buffer
          BY <2>2, <4>1, <4>3
        <5> QED BY <2>2, <3>1, <4>3, <5>1
      <4> QED BY <4>2, <4>3
    <3>3. s.pc \in {"replay", "live"} /\ subs' = subs \cup {c}
      BY <1>0, <1>2, <2>2 DEF Open
    <3>4. pending' \in [Emitters -> SUBSET Clients]
          /\ \A d \in Emitters : pending'[d] \subseteq pending[d] /\ pending'[d] \subseteq subs'
      BY <2>2 DEF IInv, Types, Emitting
    <3> QED BY <1>2, <1>3, <1>4, <1>5, <3>2, <3>3, <3>4, HandlerKeeps
  <2> QED BY <2>1, <2>2
<1>7. OutputSent'
  <2> SUFFICES ASSUME NEW d \in Clients, NEW i \in DOMAIN got'[d], log[got'[d][i]] = "completed"
               PROVE  d \in output'
    BY DEF OutputSent
  <2>1. CASE i \in DOMAIN got[d] /\ got'[d][i] = got[d][i]
    BY <1>5, <2>1 DEF IInv, OutputSent
  <2>2. CASE ~(i \in DOMAIN got[d] /\ got'[d][i] = got[d][i])
    <3>1. d = c
      BY <1>4, <2>2
    <3>2. got'[c][i] = e
      <4>1. /\ DOMAIN got'[c] = 1..(Len(got[c]) + 1) /\ got'[c][Len(got[c]) + 1] = e /\ Len(got[c]) \in Nat
            /\ \A k \in 1..Len(got[c]) : got'[c][k] = got[c][k]
        <5>1. got[c] \in Seq(Nat) /\ e \in Nat
          BY <1>0
        <5> QED BY <1>4, <5>1, Appends
      <4> QED BY <1>0, <2>2, <3>1, <4>1
    <3>3. log[e] = "completed" /\ status = "completed"
      BY <3>1, <3>2 DEF IInv, Emitting, Outcomes
    <3> QED BY <3>1, <3>3 DEF Write
  <2> QED BY <2>1, <2>2
<1> QED BY <1>6, <1>7

\* c is written an event of its replay.
LEMMA WriteReplayKeeps ==
  ASSUME IInv, NEW c \in Clients, WriteReplay(c)
  PROVE  Types' /\ Subscribed' /\ Emitting' /\ Counted' /\ OutputSent'
<1>0. Typed(c) /\ Types /\ Open(c) /\ stream[c].replay # <<>>
  BY EachTyped DEF IInv, WriteReplay, Open
<1>r. PICK r : r = stream[c].replay
  OBVIOUS
<1>1. r \in Seq(Nat) /\ r # <<>>
  BY <1>0, <1>r DEF Typed
<1>e. PICK e : e = Head(r)
  OBVIOUS
<1>2. e \in Seqs /\ Tail(r) \in Seq(Nat)
  <2>1. e \in Queued(c)
    BY <1>1, <1>e, <1>r, Heads DEF Queued
  <2> QED BY <1>1, <2>1 DEF IInv, Stream, Fresh
<1>3. Write(c, e, Tail(r)) /\ UNCHANGED <<log, status, emitting, cancel, lost>>
      /\ IF terminal(log[e]) THEN Unsubscribe(c) ELSE UNCHANGED <<subs, chan, pending>>
  BY <1>e, <1>r DEF WriteReplay, runState
<1> QED BY <1>0, <1>2, <1>3, WriteKeeps

\* c is written an event of its channel.
LEMMA WriteLiveKeeps ==
  ASSUME IInv, NEW c \in Clients, WriteLive(c)
  PROVE  Types' /\ Subscribed' /\ Emitting' /\ Counted' /\ OutputSent'
<1>0. Typed(c) /\ Types /\ Open(c) /\ chan[c] # <<>>
  BY EachTyped DEF IInv, WriteLive, Open
<1>1. chan[c] \in Seq(Nat)
  BY <1>0 DEF Typed
<1>e. PICK e : e = Head(chan[c])
  OBVIOUS
<1>2. e \in Seqs
  <2>1. e \in Queued(c)
    BY <1>0, <1>1, <1>e, Heads DEF Queued
  <2> QED BY <2>1 DEF IInv, Stream, Fresh
<1>3. PICK rest : rest = <<>>
  OBVIOUS
<1>4. rest \in Seq(Nat) /\ Write(c, e, rest) /\ UNCHANGED <<log, status, emitting, cancel, lost>>
      /\ IF terminal(log[e]) THEN Unsubscribe(c) ELSE chan' = [chan EXCEPT ![c] = Tail(@)] /\ UNCHANGED <<subs, pending>>
  BY <1>e, <1>3 DEF WriteLive, runState
<1> QED BY <1>0, <1>2, <1>4, WriteKeeps

\* Before anything happened, nobody received anything of the one event there is.
LEMMA InitHolds == ASSUME Init PROVE IInv
<1>0. /\ log = <<"plain">> /\ Len(log) = 1 /\ Seqs = {1} /\ log[1] = "plain" /\ log \in Seq(EventTypes)
      /\ "plain" \in EventTypes /\ Buffer \in Nat /\ NPlain \in Nat \ {0}
      /\ "plain" \notin Outcomes /\ "plain" # "cancelling"
  BY EventConstants DEF Init, Seqs, EventTypes, Outcomes
<1>1. Own = {1}
  BY <1>0 DEF Own
<1>2. Types
  BY <1>0 DEF Init, Types, StreamRecord, Off, Outcomes
<1>3. Subscribed
  BY <1>0 DEF Init, Subscribed, Open, Off
<1>4. Emitting
  BY <1>0 DEF Init, Emitting, Emitters
<1>5. Counted
  <2>1. PICK one : one = 1
    OBVIOUS
  <2>2. {n \in Seqs : log[n] = "plain"} = {one}
    BY <1>0, <2>1
  <2>3. Cardinality({n \in Seqs : log[n] = "plain"}) = 1
    BY <2>2, FS_Singleton
  <2> QED BY <1>0, <2>3 DEF Init, Counted, Emitters
<1>6. OutputSent
  BY DEF Init, OutputSent
<1>7. ASSUME NEW c \in Clients PROVE Stream(c)
  <2>1. /\ got[c] = <<>> /\ chan[c] = <<>> /\ stream[c].replay = <<>> /\ lost[c] = {} /\ last[c] = 0
        /\ stream[c].pc = "off" /\ Fly(c) = {}
    BY DEF Init, Fly, Off, Emitters
  <2>2. Received(c) = {} /\ Queued(c) = {}
    BY <2>1 DEF Received, Queued, ToSet
  <2>3. Fresh(c)
    BY <2>1, <2>2 DEF Fresh
  <2>4. Caught(c)
    BY <1>1, <2>1, <2>2 DEF Caught
  <2> QED BY <2>1, <2>3, <2>4 DEF Stream, Sound, Open
<1> QED BY <1>2, <1>3, <1>4, <1>5, <1>6, <1>7 DEF IInv

\* The invariant is inductive.
LEMMA StepHolds == ASSUME IInv, [Next]_vars PROVE IInv'
<1> DEFINE Kept == Types' /\ Subscribed' /\ Emitting' /\ Counted' /\ OutputSent'
<1>0. \A c \in Clients : Stream(c)'
  BY StreamsKeep
<1>s. ASSUME UNCHANGED <<log, subs, chan, pending, emitting, clientState, lost>>,
             status' = status \/ (status = "running" /\ status' \in Outcomes),
             cancel' = cancel \/ \E x \in Cancels : cancel[x] = "idle" /\ cancel' = [cancel EXCEPT ![x] = "cancelling"]
      PROVE  Kept
  <2>1. UNCHANGED <<stream, last, got, output>> /\ Seqs' = Seqs /\ Own' = Own
    BY <1>s DEF clientState, Seqs, Own
  <2>2. Types'
    BY <1>s, <2>1 DEF IInv, Types
  <2>3. Subscribed' /\ OutputSent'
    BY <1>s, <2>1 DEF IInv, Subscribed, OutputSent, Open
  <2>4. Emitting'
    <3>1. \A n \in Seqs : log[n] \in Outcomes => log[n] = status'
      BY <1>s DEF IInv, Emitting, Outcomes
    <3> QED BY <1>s, <2>1, <3>1 DEF IInv, Emitting
  <2>5. Counted'
    <3>1. \A x \in Cancels : cancel'[x] # "returned" => cancel[x] # "returned"
      BY <1>s DEF IInv, Types
    <3> QED BY <1>s, <2>1, <3>1 DEF IInv, Counted
  <2> QED BY <2>2, <2>3, <2>4, <2>5
<1>1. ASSUME RunnerStep PROVE Kept
  <2>1. ASSUME Settle PROVE Kept
    BY <1>s, <2>1 DEF Settle
  <2> QED BY <1>1, <2>1, EmitPlainKeeps, EmitTerminalKeeps DEF RunnerStep
<1>2. ASSUME NEW e \in Emitters, EmitterStep(e) PROVE Kept
  BY <1>2, OfferKeeps DEF EmitterStep
<1>3. ASSUME NEW x \in Cancels, CancelRun(x) PROVE Kept
  BY <1>s, <1>3 DEF CancelRun, runState
<1>4. ASSUME NEW x \in Cancels, EmitCancelling(x) PROVE Kept
  BY <1>4, EmitCancellingKeeps
<1>5. ASSUME NEW c \in Clients, Subscribe(c) \/ HandlerStep(c) \/ Disconnect(c) PROVE Kept
  BY <1>5, SubscribeKeeps, WriteReplayKeeps, GoLiveKeeps, WriteLiveKeeps, DisconnectKeeps DEF HandlerStep
<1>6. ASSUME UNCHANGED vars PROVE Kept
  BY <1>s, <1>6 DEF vars, runState
<1>7. Kept
  BY <1>1, <1>2, <1>3, <1>4, <1>5, <1>6 DEF Next
<1> QED BY <1>0, <1>7 DEF IInv

\* Every state of every run satisfies the invariant.
THEOREM Invariance == Spec => []IInv
<1>1. Init => IInv
  BY InitHolds
<1>2. IInv /\ [Next]_vars => IInv'
  BY StepHolds
<1> QED BY <1>1, <1>2, PTL DEF Spec

\* Types and bounds, and exactly the open streams are subscribed: no return of
\* streamWorkflowRun leaves a channel behind.
THEOREM TypeCorrect == Spec => []TypeOK
<1>1. IInv => TypeOK
  BY LogBound DEF IInv, TypeOK, Subscribed
<1> QED BY <1>1, Invariance, PTL

\* IT-08 (service_test.go 346): a client that resumes with Last-Event-ID
\* receives what the execute goroutine emits in order, once and without gaps.
THEOREM OnceInOrder == Spec => []RunEventsOnceInOrder
<1>1. ASSUME IInv PROVE RunEventsOnceInOrder
  <2> SUFFICES ASSUME NEW c \in Clients, CancelsInPlace(c), NEW i \in DOMAIN got[c], got[c][i] \in Own
               PROVE  InPlace(c, i)
    BY DEF RunEventsOnceInOrder
  <2>0. Stream(c) /\ Own \subseteq Nat /\ Emitting
    BY <1>1, EachTyped DEF IInv, Own
  <2>1. Placed(c)
    <3> SUFFICES ASSUME NEW j \in DOMAIN got[c], got[c][j] \notin Own, NEW n \in Own
                 PROVE  n \in Before(c, j) <=> n < got[c][j] /\ n \notin lost[c] \cup Fly(c)
      BY DEF Placed
    <3>1. Before(c, j) \cap Own = {m \in Own : m < got[c][j]} \ lost[c]
      BY DEF CancelsInPlace, InPlace
    <3>2. n \in Fly(c) => n \notin Before(c, j) /\ n \notin lost[c]
      <4>1. Before(c, j) \subseteq Received(c)
        BY <1>1, EachTyped DEF Before, Received, ToSet, IInv, Typed
      <4> QED BY <2>0, <4>1 DEF Stream, Fresh
    <3> QED BY <3>1, <3>2
  <2>2. Caught(c)
    BY <2>0, <2>1 DEF Stream, Sound
  <2>3. \A n \in Own : n \in Before(c, i) <=> n < got[c][i] /\ n \notin lost[c]
    BY <2>2 DEF Caught
  <2> QED BY <2>3 DEF InPlace
<1> QED BY <1>1, Invariance, PTL

\* handleWorkflowRunStream finishes with the output: whoever was told that the
\* run completed was also sent what it answered.
THEOREM CompletionBringsOutput == Spec => []OutputSent
<1>1. IInv => OutputSent
  BY DEF IInv
<1> QED BY <1>1, Invariance, PTL

-----------------------------------------------------------------------------
(* The end of the run is on its way to every open stream: this is what the   *)
(* liveness of the streams rests on.                                         *)

EndComes(c) ==
  Open(c) => \A n \in Seqs : log[n] \in Outcomes /\ n > stream[c].since =>
               n \in Queued(c) \cup lost[c] \cup Fly(c)

\* While the log stays, an end that is queued, lost or in flight stays so.
LEMMA EndStays ==
  ASSUME NEW c, EndComes(c), UNCHANGED log,
         Open(c)' => Open(c) /\ stream'[c].since = stream[c].since,
         Open(c)' => \A n \in Seqs : log[n] \in Outcomes =>
           (n \in Queued(c) \cup lost[c] \cup Fly(c) => n \in (Queued(c) \cup lost[c] \cup Fly(c))')
  PROVE  EndComes(c)'
BY DEF EndComes, Seqs

\* Nothing happens to c.
LEMMA EndUntouched ==
  ASSUME NEW c, EndComes(c), UNCHANGED <<log, emitting>>, SameClient(c),
         chan'[c] = chan[c], lost'[c] = lost[c],
         c \in pending[Runner] => c \in pending'[Runner]
  PROVE  EndComes(c)'
<1>1. Queued(c)' = Queued(c) /\ Fly(c) \subseteq Fly(c)' /\ (Open(c)' <=> Open(c))
  BY DEF Queued, Fly, SameClient, Open
<1> QED BY <1>1, EndStays DEF SameClient

\* An event is appended: by the execute goroutine, whose last one is in flight to
\* nobody, or by a CancelRun call, which leaves that in flight.
LEMMA EndAppended ==
  ASSUME IInv, NEW c \in Clients, EndComes(c), NEW e \in Emitters, NEW type \in EventTypes,
         AppendEvent(e, type), UNCHANGED <<clientState, lost, chan>>,
         e = Runner => pending[Runner] = {} /\ \A n \in Seqs : log[n] \notin Outcomes,
         e # Runner => type = "cancelling"
  PROVE  EndComes(c)'
<1>0. Typed(c) /\ SameClient(c) /\ DOMAIN pending = Emitters /\ DOMAIN emitting = Emitters
  BY EachTyped DEF IInv, Types, SameClient, clientState
<1>1. /\ Seqs' = Seqs \cup {Len(log) + 1} /\ \A n \in Seqs : log'[n] = log[n]
      /\ log'[Len(log) + 1] = type
  BY <1>0, Grows DEF AppendEvent
<1>2. Queued(c)' = Queued(c) /\ (Open(c)' <=> Open(c)) /\ stream'[c] = stream[c] /\ lost'[c] = lost[c]
  BY <1>0 DEF Queued, SameClient, Open
<1>3. CASE e = Runner
  <2>1. Open(c) => Fly(c)' = {Len(log) + 1}
    BY <1>0, <1>3 DEF AppendEvent, Fly, IInv, Subscribed
  <2> QED BY <1>1, <1>2, <1>3, <2>1 DEF EndComes
<1>4. CASE e # Runner
  <2>1. Fly(c)' = Fly(c)
    BY <1>0, <1>4 DEF AppendEvent, Fly, Emitters
  <2>2. type \notin Outcomes
    BY <1>4 DEF Outcomes
  <2> QED BY <1>1, <1>2, <2>1, <2>2 DEF EndComes
<1> QED BY <1>3, <1>4

\* An event is offered: it is queued or lost.
LEMMA EndOffered ==
  ASSUME IInv, NEW c \in Clients, EndComes(c), NEW e \in Emitters, NEW d \in Clients, Offer(e, d)
  PROVE  EndComes(c)'
<1>0. /\ SameClient(c) /\ UNCHANGED <<log, emitting>> /\ DOMAIN pending = Emitters
      /\ pending' = [pending EXCEPT ![e] = @ \ {d}] /\ Runner \in Emitters
      /\ DOMAIN chan = Clients /\ DOMAIN lost = Clients /\ emitting[e] \in Nat /\ chan[c] \in Seq(Nat)
  BY DEF Offer, runState, clientState, SameClient, IInv, Types, Emitters
<1>1. CASE c # d
  <2>1. chan'[c] = chan[c] /\ lost'[c] = lost[c] /\ (c \in pending[Runner] => c \in pending'[Runner])
    BY <1>0, <1>1 DEF Offer, Send
  <2> QED BY <1>0, <2>1, EndUntouched
<1>2. CASE c = d
  <2>1. \/ chan'[c] = Append(chan[c], emitting[e]) /\ lost'[c] = lost[c]
        \/ chan'[c] = chan[c] /\ lost'[c] = lost[c] \cup {emitting[e]}
    BY <1>0, <1>2 DEF Offer, Send
  <2>2. ToSet(Append(chan[c], emitting[e])) = ToSet(chan[c]) \cup {emitting[e]}
    BY <1>0, Appends
  <2>3. Queued(c)' \cup lost'[c] = Queued(c) \cup lost[c] \cup {emitting[e]}
    BY <1>0, <2>1, <2>2 DEF Queued, SameClient
  <2>4. Fly(c) \subseteq Fly(c)' \cup {emitting[e]}
    BY <1>0, <1>2 DEF Fly
  <2>5. (Open(c)' <=> Open(c)) /\ stream'[c] = stream[c]
    BY <1>0 DEF Open, SameClient
  <2> QED BY <1>0, <2>3, <2>4, <2>5, EndStays
<1> QED BY <1>1, <1>2

\* A stream that opens finds every later event in its replay.
LEMMA EndReplayed ==
  ASSUME IInv, NEW c \in Clients, EndComes(c), NEW d \in Clients, Subscribe(d)
  PROVE  EndComes(c)'
<1>0. /\ UNCHANGED <<log, emitting, pending>> /\ DOMAIN stream = Clients /\ DOMAIN chan = Clients
      /\ DOMAIN lost = Clients /\ last[c] \in Nat /\ last[c] <= Len(log)
      /\ Seqs = 1..Len(log) /\ Len(log) \in Nat
  BY EachTyped DEF Subscribe, runState, IInv, Types, Typed
<1>1. CASE c # d
  <2>1. SameClient(c) /\ chan'[c] = chan[c] /\ lost'[c] = lost[c]
    BY <1>0, <1>1 DEF Subscribe, SameClient
  <2> QED BY <1>0, <2>1, EndUntouched
<1>2. CASE c = d
  <2>1. stream'[c] = [pc |-> "replay", since |-> last[c], replay |-> After(last[c])]
    BY <1>0, <1>2 DEF Subscribe
  <2>2. stream'[c].since = last[c] /\ stream'[c].replay = After(last[c])
    BY <2>1
  <2>3. ASSUME NEW n \in Seqs, n > last[c] PROVE n \in ToSet(After(last[c]))
    <3>1. n - last[c] \in 1..(Len(log) - last[c]) /\ last[c] + (n - last[c]) = n
      BY <1>0, <2>3
    <3>2. After(last[c])[n - last[c]] = n /\ n - last[c] \in DOMAIN After(last[c])
      BY <3>1 DEF After
    <3> QED BY <3>2 DEF ToSet
  <2> QED BY <1>0, <2>2, <2>3 DEF EndComes, Queued, Seqs
<1> QED BY <1>1, <1>2

\* An event is written: the stream ends with the end, and goes on with another one.
LEMMA EndWritten ==
  ASSUME IInv, NEW c \in Clients, EndComes(c), NEW d \in Clients, WriteReplay(d) \/ WriteLive(d)
  PROVE  EndComes(c)'
<1>0. /\ Types /\ Typed(d) /\ UNCHANGED <<log, emitting, lost>> /\ stream[d] \in StreamRecord
      /\ DOMAIN stream = Clients
  BY EachTyped DEF WriteReplay, WriteLive, runState, IInv, Types
<1>1. PICK e, rest :
        /\ Write(d, e, rest) /\ Open(d)
        /\ \/ Unsubscribe(d) /\ terminal(log[e])
           \/ ~terminal(log[e]) /\ UNCHANGED <<chan, pending>>
                /\ {e} \cup ToSet(rest) = ToSet(stream[d].replay)
           \/ ~terminal(log[e]) /\ chan' = [chan EXCEPT ![d] = Tail(@)] /\ UNCHANGED pending
                /\ {e} \cup ToSet(Tail(chan[d])) = ToSet(chan[d]) /\ rest = stream[d].replay
  <2>1. CASE WriteReplay(d)
    <3>1. PICK r : r = stream[d].replay
      OBVIOUS
    <3>2. r \in Seq(Nat) /\ r # <<>> /\ Write(d, Head(r), Tail(r))
          /\ IF terminal(log[Head(r)]) THEN Unsubscribe(d) ELSE UNCHANGED <<subs, chan, pending>>
      BY <1>0, <2>1, <3>1 DEF WriteReplay, Typed
    <3>3. Open(d) /\ {Head(r)} \cup ToSet(Tail(r)) = ToSet(r)
      BY <2>1, <3>2, Heads DEF WriteReplay, Open
    <3> QED BY <3>1, <3>2, <3>3
  <2>2. CASE WriteLive(d)
    <3>1. PICK e : e = Head(chan[d])
      OBVIOUS
    <3>2. PICK rest : rest = <<>>
      OBVIOUS
    <3>3. /\ chan[d] \in Seq(Nat) /\ chan[d] # <<>> /\ Write(d, e, rest) /\ stream[d].pc = "live"
          /\ IF terminal(log[e]) THEN Unsubscribe(d)
             ELSE chan' = [chan EXCEPT ![d] = Tail(@)] /\ UNCHANGED <<subs, pending>>
      BY <1>0, <2>2, <3>1, <3>2 DEF WriteLive, Typed
    <3>4. Open(d) /\ {e} \cup ToSet(Tail(chan[d])) = ToSet(chan[d]) /\ stream[d].replay = rest
      BY <3>1, <3>2, <3>3, Heads DEF Open, IInv, Stream, Fresh
    <3> QED BY <3>3, <3>4
  <2> QED BY <2>1, <2>2
<1>2. /\ stream'[d].replay = rest
      /\ stream'[d].pc = IF terminal(log[e]) THEN "ended" ELSE stream[d].pc
      /\ \A x \in Clients \ {d} : SameClient(x)
  BY <1>0, <1>1, WriteEffect DEF SameClient
<1>3. CASE c # d
  <2>1. chan'[c] = chan[c] /\ (c \in pending[Runner] => c \in pending'[Runner])
    BY <1>0, <1>1, <1>3 DEF Unsubscribe, Types, Emitters
  <2> QED BY <1>0, <1>2, <1>3, <2>1, EndUntouched
<1>4. CASE c = d /\ terminal(log[e])
  <2>1. ~Open(c)'
    BY <1>2, <1>4 DEF Open
  <2> QED BY <2>1 DEF EndComes
<1>5. CASE c = d /\ ~terminal(log[e])
  <2>1. stream'[c].since = stream[c].since
    <3>1. stream'[c] = [stream[c] EXCEPT !.replay = rest,
                          !.pc = IF terminal(log[e]) THEN "ended" ELSE stream[c].pc]
      BY <1>0, <1>1, <1>5 DEF Write
    <3> QED BY <1>0, <1>5, <3>1 DEF StreamRecord
  <2>2. Fly(c)' = Fly(c)
    BY <1>0, <1>1, <1>5 DEF Fly
  <2>3. Queued(c) \subseteq Queued(c)' \cup {e}
    BY <1>0, <1>1, <1>2, <1>5 DEF Queued, Types
  <2>4. log[e] \notin Outcomes
    BY <1>5 DEF terminal
  <2> QED BY <1>0, <1>1, <1>5, <2>1, <2>2, <2>3, <2>4, EndStays
<1> QED BY <1>3, <1>4, <1>5

\* Every step leaves the end on its way.
LEMMA EndKeeps ==
  ASSUME IInv, [Next]_vars, NEW c \in Clients, EndComes(c)
  PROVE  EndComes(c)'
<1>d. /\ Types /\ Emitting /\ DOMAIN stream = Clients /\ stream[c] \in StreamRecord
      /\ Runner \in Emitters /\ Runner \notin Cancels /\ Cancels \subseteq Emitters
  BY EventConstants, EachTyped DEF IInv, Emitters, Types
<1>1. CASE EmitPlain
  <2>1. \A n \in Seqs : log[n] \notin Outcomes
    BY <1>1, <1>d DEF EmitPlain, Emitting, Outcomes
  <2> QED BY <1>1, <1>d, <2>1, EndAppended DEF EmitPlain, EventTypes
<1>2. CASE EmitTerminal
  <2>1. status \in EventTypes
    BY <1>2, <1>d DEF EmitTerminal, Types, EventTypes
  <2> QED BY <1>2, <1>d, <2>1, EndAppended DEF EmitTerminal, Announced
<1>3. ASSUME NEW x \in Cancels, EmitCancelling(x) PROVE EndComes(c)'
  BY <1>3, <1>d, EndAppended DEF EmitCancelling, EventTypes
<1>4. ASSUME UNCHANGED <<log, chan, pending, emitting, clientState, lost>> PROVE EndComes(c)'
  BY <1>4, EndUntouched DEF SameClient, clientState
<1>5. CASE \/ Settle \/ \E x \in Cancels : CancelRun(x)
           \/ UNCHANGED vars
  BY <1>4, <1>5 DEF Settle, CancelRun, vars, runState
<1>6. ASSUME NEW d \in Clients, GoLive(d) PROVE EndComes(c)'
  <2>0. UNCHANGED <<log, emitting, pending, chan, lost, last, got>>
    BY <1>6 DEF GoLive, runState
  <2>1. stream[d].pc = "replay" /\ stream' = [stream EXCEPT ![d].pc = "live"]
    BY <1>6 DEF GoLive
  <2>2. stream'[c].replay = stream[c].replay /\ stream'[c].since = stream[c].since /\ (Open(c)' <=> Open(c))
    BY <1>d, <2>1 DEF StreamRecord, Open
  <2>3. Queued(c)' = Queued(c) /\ Fly(c)' = Fly(c)
    BY <2>0, <2>2 DEF Queued, Fly
  <2> QED BY <2>0, <2>2, <2>3, EndStays
<1>7. ASSUME NEW d \in Clients, Disconnect(d) PROVE EndComes(c)'
  <2>0. UNCHANGED <<log, emitting, lost, last, got>> /\ Unsubscribe(d) /\ stream' = [stream EXCEPT ![d] = Off]
    BY <1>7 DEF Disconnect, runState
  <2>1. CASE c # d
    <3>1. SameClient(c) /\ chan'[c] = chan[c] /\ (c \in pending[Runner] => c \in pending'[Runner])
      BY <1>d, <2>0, <2>1 DEF SameClient, Unsubscribe, Types
    <3> QED BY <2>0, <3>1, EndUntouched
  <2>2. CASE c = d
    <3>1. ~Open(c)'
      BY <1>d, <2>0, <2>2 DEF Open, Off
    <3> QED BY <3>1 DEF EndComes
  <2> QED BY <2>1, <2>2
<1> QED
  BY <1>1, <1>2, <1>3, <1>5, <1>6, <1>7, EndOffered, EndReplayed, EndWritten
     DEF Next, RunnerStep, EmitterStep, HandlerStep

\* StreamEnds without its fairness: while a stream is open, the event that ends the run,
\* if the client did not come with its id or a later one, is in the replay or the channel,
\* on the way from Emit, or lost by a full channel (RunStore.Emit, Subscribe, streamWorkflowRun).
THEOREM EndIsComing ==
  Spec => [](\A c \in Clients : EndComes(c))
<1> DEFINE All == \A c \in Clients : EndComes(c)
<1>1. Init => All
  BY DEF Init, EndComes, Open, Off
<1>2. IInv /\ All /\ [Next]_vars => All'
  BY EndKeeps
<1> HIDE DEF All
<1>3. Spec => []All
  BY <1>1, <1>2, Invariance, PTL DEF Spec
<1> QED BY <1>3 DEF All
=============================================================================
