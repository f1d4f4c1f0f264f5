---------------------- MODULE ConversationMemoryProofs ----------------------
(***************************************************************************)
(* Proofs about ConversationMemory and MemoryReload, for any calls,        *)
(* requests, limits and numbers of conversations, until sections of two    *)
(* Stores have torn the file: a turn is appended to what it answers, or to *)
(* a conversation created anew that has come to the same version; no       *)
(* request is stored twice while it is remembered; what was answered stays *)
(* told; and what a summary covers does not come back.                     *)
(*                                                                         *)
(* IInv ties each call to the file it has read, Stored the file to the     *)
(* turns that were appended to it (HistoryInv), to the ranges calls and    *)
(* jobs carry (RangesInv) and to the answers that went out (KeptInv).      *)
(***************************************************************************)
EXTENDS MemoryReload, SequenceTheorems, TLAPS

Fields == {"birth", "version", "next", "msgs", "sums", "seen"}

\* The conversation in the file is the last one that was created, or there is none.
FileInv ==
  /\ births \in Nat
  /\ DOMAIN file = Fields
  /\ file.version \in Nat /\ file.birth \in {0, births}
  /\ file.birth = 0 => file = NoFile

\* A call works on a conversation that exists; if that is still the one in the
\* file, it has been changed since exactly if the versions differ.
Knows(conv) ==
  /\ conv.birth \in 1..births
  /\ conv.birth = file.birth =>
       conv.version \in 0..file.version /\ (conv.version = file.version => conv = file)

CallsInv ==
  /\ DOMAIN call = Calls
  /\ \A c \in Calls :
       /\ DOMAIN call[c] = {"pc", "req", "conv", "range"}
       /\ call[c].pc \in {"idle", "infer"}
       /\ call[c].pc = "idle" => call[c].conv.birth = 0
       /\ call[c].pc = "infer" => Knows(call[c].conv) /\ call[c].req \in Requests

IInv == FileInv /\ CallsInv

LEMMA InitHolds == Init => IInv
BY DEF Init, IInv, FileInv, CallsInv, Fields, NoFile, Conversation, NoCall

-----------------------------------------------------------------------------
(* What becomes of the file. *)

Unwritten == file' = file /\ births' = births

\* The conversation was written: its version went up.
Written ==
  /\ births' = births /\ file.birth # 0 /\ file'.birth = file.birth /\ file'.version = file.version + 1
  /\ DOMAIN file' = Fields

\* There is none any more.
Gone == births' = births /\ file' = NoFile

\* There is another one.
Born == births' = births + 1 /\ file' = Conversation(births + 1, 1)

LEMMA FileKeeps ==
  ASSUME FileInv, Unwritten \/ Written \/ Gone \/ Born
  PROVE  FileInv' /\ \A conv : Knows(conv) => Knows(conv)'
<1>1. CASE Unwritten
  BY <1>1 DEF Unwritten, FileInv, Knows
<1>2. CASE Written
  BY <1>2 DEF Written, FileInv, Knows
<1>3. CASE Gone
  <2>1. file'.birth = 0 /\ file'.version = 0 /\ DOMAIN file' = Fields /\ births' = births
    BY <1>3 DEF Gone, NoFile, Conversation, Fields
  <2> QED BY <1>3, <2>1 DEF FileInv, Knows, Gone
<1>4. CASE Born
  <2>1. /\ file'.birth = births + 1 /\ file'.version = 1 /\ DOMAIN file' = Fields
        /\ births' = births + 1
    BY <1>4 DEF Born, Conversation, Fields
  <2> QED BY <2>1 DEF FileInv, Knows
<1> QED BY <1>1, <1>2, <1>3, <1>4

LEMMA AppendedIsWritten ==
  ASSUME FileInv, NEW q, NEW complete, Readable, file' = Appended(q, complete), births' = births
  PROVE  Written
BY DEF FileInv, Written, Appended, Fields, Readable

LEMMA SummarisedIsWritten ==
  ASSUME FileInv, NEW j, Readable, file' = Summarised(j), births' = births
  PROVE  Written
BY DEF FileInv, Written, Summarised, Fields, Readable

LEMMA CreateIsBorn == Create => Born
BY DEF Create, Born

\* The calls go on, with what they knew.
LEMMA CallsKeep ==
  ASSUME IInv, Unwritten \/ Written \/ Gone \/ Born, UNCHANGED call
  PROVE  IInv'
BY FileKeeps DEF IInv, CallsInv

\* A call ends.
LEMMA CallEnds ==
  ASSUME IInv, Unwritten \/ Written \/ Gone \/ Born,
         NEW c \in Calls, call' = [call EXCEPT ![c] = NoCall]
  PROVE  IInv'
<1>1. DOMAIN NoCall = {"pc", "req", "conv", "range"} /\ NoCall.pc = "idle" /\ NoCall.conv.birth = 0
  BY DEF NoCall, NoFile, Conversation
<1>2. call'[c] = NoCall /\ DOMAIN call' = Calls /\ \A d \in Calls \ {c} : call'[d] = call[d]
  BY DEF IInv, CallsInv
<1> QED BY <1>1, <1>2, FileKeeps DEF IInv, CallsInv

\* A call begins, with what is in the file.
LEMMA CallBegins ==
  ASSUME IInv, Unwritten \/ Born, NEW c \in Calls, NEW q \in Requests, NEW range, NEW conv,
         Infer(c, q, conv, range), Knows(conv)'
  PROVE  IInv'
<1>1. /\ call'[c] = [pc |-> "infer", req |-> q, conv |-> conv, range |-> range]
      /\ DOMAIN call' = Calls /\ \A d \in Calls \ {c} : call'[d] = call[d]
  BY DEF IInv, CallsInv, Infer
<1>2. /\ DOMAIN call'[c] = {"pc", "req", "conv", "range"}
      /\ call'[c].conv = conv /\ call'[c].req = q /\ call'[c].pc = "infer"
  BY <1>1
<1> QED BY <1>1, <1>2, FileKeeps DEF IInv, CallsInv

-----------------------------------------------------------------------------
LEMMA StepHolds == IInv /\ [Next]_vars => IInv'
<1> SUFFICES ASSUME IInv, [Next]_vars PROVE IInv'
  OBVIOUS
<1>1. ASSUME NEW c \in Calls, NEW q \in Requests, Open(c, q) PROVE IInv'
  <2>1. CASE Readable /\ UNCHANGED <<file, births>>
             /\ \E range \in Ranges(file) : Infer(c, q, file, range)
    <3>1. file.birth # 0
      <4>1. file # NoFile
        BY <2>1 DEF Readable
      <4> QED BY <4>1 DEF IInv, FileInv
    <3>2. PICK conv : conv = file
      OBVIOUS
    <3>3. Knows(conv)'
      BY <2>1, <3>1, <3>2 DEF IInv, FileInv, Knows
    <3> QED BY <2>1, <3>2, <3>3, CallBegins DEF Unwritten
  <2>2. CASE Create /\ Infer(c, q, Conversation(births + 1, 1), NoRange)
    <3>1. file' = Conversation(births + 1, 1) /\ births' = births + 1
      BY <2>2 DEF Create
    <3>2. file'.birth = births' /\ file'.version = 1
      BY <3>1 DEF Conversation
    <3>3. PICK conv : conv = Conversation(births + 1, 1)
      OBVIOUS
    <3>4. Knows(conv)'
      BY <3>1, <3>2, <3>3 DEF IInv, FileInv, Knows
    <3> QED BY <2>2, <3>3, <3>4, CreateIsBorn, CallBegins
  <2> QED BY <1>1, <2>1, <2>2 DEF Open
<1>2. ASSUME NEW c \in Calls, InferFails(c) PROVE IInv'
  BY <1>2, CallEnds DEF InferFails, Unwritten
<1>3. ASSUME NEW c \in Calls, Commit(c) PROVE IInv'
  <2>1. Unwritten \/ Written
    BY <1>3, AppendedIsWritten DEF Commit, AppendTurn, Unwritten, IInv
  <2> QED BY <1>3, <2>1, CallEnds DEF Commit
<1>4. ASSUME NEW c \in Calls, CommitFails(c) PROVE IInv'
  BY <1>4, CallEnds DEF CommitFails, Unwritten
<1>5. ASSUME NEW c \in Calls, JobRead(c) PROVE IInv'
  BY <1>5, CreateIsBorn, CallsKeep DEF JobRead, Unwritten
<1>6. ASSUME NEW c \in Calls, JobReplace(c) PROVE IInv'
  BY <1>6, SummarisedIsWritten, CallsKeep DEF JobReplace, IInv
<1>7. ASSUME NEW c \in Calls, JobFails(c) PROVE IInv'
  BY <1>7, CallsKeep DEF JobFails, Unwritten
<1>8. CASE Expire
  BY <1>8, CallsKeep DEF Expire, Unwritten
<1>9. CASE SweepExpired
  BY <1>9, CallsKeep DEF SweepExpired, Gone
<1>10. CASE Restart
  <2>1. Unwritten /\ DOMAIN call' = Calls /\ \A c \in Calls : call'[c] = NoCall
    BY <1>10 DEF Restart, Unwritten
  <2>2. DOMAIN NoCall = {"pc", "req", "conv", "range"} /\ NoCall.pc = "idle" /\ NoCall.conv.birth = 0
    BY DEF NoCall, NoFile, Conversation
  <2> QED BY <2>1, <2>2, FileKeeps DEF IInv, CallsInv
<1>11. CASE UNCHANGED vars
  BY <1>11, CallsKeep DEF vars, Unwritten
<1> QED
  BY <1>1, <1>2, <1>3, <1>4, <1>5, <1>6, <1>7, <1>8, <1>9, <1>10, <1>11 DEF Next

-----------------------------------------------------------------------------
(***************************************************************************)
(* What the conversation in the file has been through.                     *)
(***************************************************************************)

Message == [seq : Nat \ {0}, req : Requests, complete : BOOLEAN]
Span    == [from : Nat, to : Nat]
Summary == [range : Span, birth : Nat, text : SUBSET Message]

\* How many turns were appended to the conversation.
Turns == (file.next - 1) \div 2

\* The types of the fields; what the version and the number of conversations
\* are bounded by; and how many requests are remembered.
FileTyped ==
  /\ file.msgs \subseteq Message
  /\ file.sums \subseteq Summary
  /\ file.seen \in Seq(Requests)
  /\ Turns \in Nat /\ file.next = 2 * Turns + 1
  /\ Len(file.seen) = IF Turns < SeenLimit THEN Turns ELSE SeenLimit
  /\ \A m \in file.msgs : m.seq < file.next
  /\ \A m, n \in file.msgs : m.seq = n.seq => m = n

Bounded ==
  /\ births <= Len(MaxVersion)
  /\ file.birth # 0 => file.version \in 1..MaxVersion[births]
  /\ expired => file.birth # 0

JobsTyped ==
  /\ DOMAIN job = Calls
  /\ \A c \in Calls :
       /\ job[c] \in [pc : {"idle", "read", "infer"}, birth : Nat, range : Span, text : SUBSET Message]
       /\ job[c].birth <= births
       /\ job[c].pc # "idle" => job[c].birth # 0

\* The job works for the conversation that is in the file.
OfThis(c) == job[c].pc # "idle" /\ job[c].birth = file.birth

\* A message as it was appended in its turn: log tells the request of each turn.
Logged(log, m) == TurnOf(m) \in 1..Turns /\ m.req = log[TurnOf(m)]

\* There is one request for each turn.  Those remembered are the last of them,
\* equal ones are far apart, and every message, wherever it is now, is of its turn.
History(log) ==
  /\ log \in [1..Turns -> Requests]
  /\ \A i, j \in 1..Turns : i < j /\ log[i] = log[j] => j - i > SeenLimit
  /\ \A k \in 0..(Len(file.seen) - 1) : file.seen[Len(file.seen) - k] = log[Turns - k]
  /\ \A m \in file.msgs : Logged(log, m)
  /\ \A s \in Here : \A m \in s.text : Logged(log, m)
  /\ \A c \in Calls : OfThis(c) => \A m \in job[c].text : Logged(log, m)

HistoryInv == \E log \in [1..Turns -> Requests] : History(log)

\* What a summary covers is not among the messages.
RangesEmpty ==
  \A s \in Here : \A m \in file.msgs : ~(s.range.from <= m.seq /\ m.seq <= s.range.to)

\* Ranges lie below NextSeq, so that nothing is numbered into them later, and a
\* job that has read its range has read all that it will remove of it.
RangesInv ==
  /\ \A c \in Calls : call[c].pc = "infer" =>
       call[c].range \in Span /\ (call[c].conv.birth = file.birth => call[c].range.to < file.next)
  /\ \A c \in Calls : OfThis(c) => job[c].range.to < file.next
  /\ \A s \in Here : s.range.to < file.next
  /\ \A c \in Calls : OfThis(c) /\ job[c].pc = "infer" =>
       \A m \in file.msgs : Covers(job[c].range, m) /\ m.complete => m \in job[c].text
  /\ RangesEmpty

\* What was answered or is remembered is told, as long as no summary of an
\* earlier conversation came in.
KeptInv ==
  Here = file.sums =>
    \A q \in ToSet(file.seen) \cup acked : \E m \in Told : m.req = q /\ m.complete

Stored == FileTyped /\ Bounded /\ JobsTyped /\ HistoryInv /\ RangesInv /\ KeptInv

-----------------------------------------------------------------------------
(* Numbers and sequences. *)

LEMMA Halves == \A t \in Nat : (2 * t) \div 2 = t /\ (2 * t + 1) \div 2 = t
  OBVIOUS

\* A turn more.
LEMMA OneTurnMore ==
  ASSUME NEW t \in Nat, NEW n, n = 2 * t + 1
  PROVE  /\ ((n + 2) - 1) \div 2 = t + 1
         /\ (n + 1) \div 2 = t + 1 /\ ((n + 1) + 1) \div 2 = t + 1
<1>1. (n + 2) - 1 = 2 * (t + 1) /\ n + 1 = 2 * (t + 1) /\ (n + 1) + 1 = 2 * (t + 1) + 1
  OBVIOUS
<1> QED BY <1>1, Halves

\* Remember keeps the newest requests, at most SeenLimit of them.
LEMMA Remembers ==
  ASSUME NEW seen \in Seq(Requests), NEW q \in Requests, Len(seen) <= SeenLimit
  PROVE  /\ Remember(seen, q) \in Seq(Requests)
         /\ Len(Remember(seen, q)) = IF Len(seen) < SeenLimit THEN Len(seen) + 1 ELSE SeenLimit
         /\ Remember(seen, q)[Len(Remember(seen, q))] = q
         /\ \A k \in 1..(Len(Remember(seen, q)) - 1) :
              Remember(seen, q)[Len(Remember(seen, q)) - k] = seen[Len(seen) - (k - 1)]
<1> DEFINE all == Append(seen, q)
<1>0. SeenLimit \in Nat \ {0} /\ Len(seen) \in Nat
  BY MemoryConstants
<1>1. all \in Seq(Requests) /\ Len(all) = Len(seen) + 1 /\ all[Len(seen) + 1] = q
  OBVIOUS
<1>2. \A n \in 1..Len(seen) : all[n] = seen[n]
  OBVIOUS
<1>3. CASE Len(all) <= SeenLimit
  <2>1. Remember(seen, q) = all
    BY <1>0, <1>1, <1>3 DEF Remember
  <2> HIDE DEF all
  <2> QED BY <2>1, <1>0, <1>1, <1>2, <1>3
<1>4. CASE Len(all) > SeenLimit
  <2>1. Remember(seen, q) = Tail(all)
    BY <1>4 DEF Remember
  <2>2. all # <<>>
    BY <1>1, <1>0
  <2> HIDE DEF all
  <2>3. Tail(all) \in Seq(Requests) /\ Len(Tail(all)) = Len(seen)
    BY <1>0, <1>1, <2>2
  <2>4. \A n \in 1..Len(seen) : Tail(all)[n] = all[n + 1]
    BY <1>0, <1>1, <2>2
  <2>5. Len(seen) = SeenLimit
    BY <1>0, <1>1, <1>4
  <2>6. Tail(all)[Len(seen)] = q
    BY <1>0, <1>1, <2>4, <2>5
  <2>7. \A k \in 1..(Len(seen) - 1) : Tail(all)[Len(seen) - k] = seen[Len(seen) - (k - 1)]
    <3> TAKE k \in 1..(Len(seen) - 1)
    <3>1. Len(seen) - k \in 1..Len(seen) /\ (Len(seen) - k) + 1 = Len(seen) - (k - 1)
      BY <1>0
    <3>2. Len(seen) - (k - 1) \in 1..Len(seen)
      BY <1>0
    <3>3. Tail(all)[Len(seen) - k] = all[(Len(seen) - k) + 1]
      BY <2>4, <3>1
    <3>4. all[Len(seen) - (k - 1)] = seen[Len(seen) - (k - 1)]
      BY <1>2, <3>2
    <3> QED BY <3>1, <3>3, <3>4
  <2>8. (IF Len(seen) < SeenLimit THEN Len(seen) + 1 ELSE SeenLimit) = Len(seen)
    BY <1>0, <2>5
  <2> QED BY <2>1, <2>3, <2>6, <2>7, <2>8
<1>5. Len(all) <= SeenLimit \/ Len(all) > SeenLimit
  BY <1>0, <1>1
<1> QED BY <1>3, <1>4, <1>5

-----------------------------------------------------------------------------
(* What becomes of the jobs and the calls. *)

\* A job goes on, ends, or is started by the call of its slot.
StartedBy(c) ==
  /\ call[c].pc = "infer"
  /\ job'[c] = [pc |-> "read", birth |-> call[c].conv.birth, range |-> call[c].range, text |-> {}]

JobsGoOn ==
  DOMAIN job' = Calls /\ \A c \in Calls : job'[c] = job[c] \/ job'[c] = NoJob \/ StartedBy(c)

CallsGoOn == \A c \in Calls : call'[c] = call[c] \/ call'[c] = NoCall

\* A job that is there afterwards was there before or has read nothing yet.
LEMMA JobsKeep ==
  ASSUME IInv, JobsTyped, RangesInv, births' \in {births, births + 1}, JobsGoOn
  PROVE  /\ JobsTyped'
         /\ \A c \in Calls : job'[c].pc # "idle" =>
              \/ job'[c] = job[c]
              \/ /\ call[c].pc = "infer" /\ job'[c].pc = "read" /\ job'[c].text = {}
                 /\ job'[c].birth = call[c].conv.birth /\ job'[c].range = call[c].range
<1>0. births \in Nat /\ NoRange \in Span /\ {} \in SUBSET Message
  BY DEF IInv, FileInv, NoRange, Span
<1>1. ASSUME NEW c \in Calls, StartedBy(c)
      PROVE  /\ call[c].pc = "infer" /\ job'[c].pc = "read" /\ job'[c].text = {}
             /\ job'[c].birth = call[c].conv.birth /\ job'[c].range = call[c].range
             /\ job'[c] \in [pc : {"idle", "read", "infer"}, birth : Nat, range : Span, text : SUBSET Message]
             /\ job'[c].birth \in 1..births
  <2>1. call[c].conv.birth \in 1..births /\ call[c].range \in Span
    BY <1>1 DEF StartedBy, IInv, CallsInv, Knows, RangesInv
  <2> QED BY <1>0, <1>1, <2>1 DEF StartedBy
<1>2. /\ NoJob \in [pc : {"idle", "read", "infer"}, birth : Nat, range : Span, text : SUBSET Message]
      /\ NoJob.pc = "idle" /\ NoJob.birth = 0
  BY <1>0 DEF NoJob
<1>3. \A c \in Calls :
        /\ job'[c] \in [pc : {"idle", "read", "infer"}, birth : Nat, range : Span, text : SUBSET Message]
        /\ job'[c].birth <= births'
        /\ job'[c].pc # "idle" => job'[c].birth # 0
  <2> TAKE c \in Calls
  <2>1. CASE job'[c] = job[c]
    BY <2>1, <1>0 DEF JobsTyped
  <2>2. CASE job'[c] = NoJob
    BY <2>2, <1>0, <1>2
  <2>3. CASE StartedBy(c)
    BY <2>3, <1>0, <1>1
  <2> QED BY <2>1, <2>2, <2>3 DEF JobsGoOn
<1> QED BY <1>1, <1>2, <1>3 DEF JobsGoOn, JobsTyped

\* The history goes on when no turn is appended: what is told of afterwards
\* was in the conversation or in a text of a job of it.
LEMMA HistoryGoesOn ==
  ASSUME file'.birth = file.birth, file'.next = file.next, file'.seen = file.seen,
         file'.msgs \subseteq file.msgs,
         \A s \in Here' : s \in Here \/ \E c \in Calls : OfThis(c) /\ s.text = job[c].text,
         \A c \in Calls : OfThis(c)' => \A m \in job'[c].text : (OfThis(c) /\ m \in job[c].text) \/ m \in file.msgs,
         HistoryInv
  PROVE  HistoryInv'
<1>1. PICK log \in [1..Turns -> Requests] : History(log)
  BY DEF HistoryInv
<1>2. Turns' = Turns
  BY DEF Turns
<1>3. \A m : Logged(log, m) => Logged(log, m)'
  BY <1>2 DEF Logged
<1>4. \A m \in file'.msgs : Logged(log, m)'
  BY <1>1, <1>3 DEF History
<1>5. \A s \in Here' : \A m \in s.text : Logged(log, m)'
  BY <1>1, <1>3 DEF History
<1>6. \A c \in Calls : OfThis(c)' => \A m \in job'[c].text : Logged(log, m)'
  BY <1>1, <1>3 DEF History
<1>7. History(log)'
  BY <1>1, <1>2, <1>4, <1>5, <1>6 DEF History
<1> QED BY <1>1, <1>2, <1>7 DEF HistoryInv

\* Nothing is written, and no request is answered that is not remembered.
LEMMA Quiet ==
  ASSUME IInv, Stored, UNCHANGED <<file, births>>, expired' => file.birth # 0,
         acked' \subseteq acked \cup ToSet(file.seen), JobsGoOn, CallsGoOn
  PROVE  Stored'
<1>j. /\ JobsTyped'
      /\ \A c \in Calls : job'[c].pc # "idle" =>
              \/ job'[c] = job[c]
              \/ /\ call[c].pc = "infer" /\ job'[c].pc = "read" /\ job'[c].text = {}
                 /\ job'[c].birth = call[c].conv.birth /\ job'[c].range = call[c].range
  BY JobsKeep DEF Stored
<1>h. Here' = Here /\ Told' = Told
  BY DEF Here, Told
<1>1. FileTyped' /\ Bounded'
  BY DEF Stored, FileTyped, Turns, Bounded
<1>2. HistoryInv'
  <2>1. \A c \in Calls : OfThis(c)' => \A m \in job'[c].text : (OfThis(c) /\ m \in job[c].text) \/ m \in file.msgs
    BY <1>j DEF OfThis
  <2> QED BY <1>h, <2>1, HistoryGoesOn DEF Stored
<1>3. RangesInv'
  <2>1. \A c \in Calls : call'[c].pc = "infer" => call'[c] = call[c]
    BY DEF CallsGoOn, NoCall
  <2>2. \A c \in Calls : OfThis(c)' => job'[c].range.to < file.next
    BY <1>j DEF OfThis, Stored, RangesInv
  <2>3. \A c \in Calls : OfThis(c)' /\ job'[c].pc = "infer" =>
          \A m \in file.msgs : Covers(job'[c].range, m) /\ m.complete => m \in job'[c].text
    BY <1>j DEF OfThis, Stored, RangesInv
  <2> QED BY <1>h, <2>1, <2>2, <2>3 DEF Stored, RangesInv, RangesEmpty
<1>4. KeptInv'
  BY <1>h DEF Stored, KeptInv
<1> QED BY <1>j, <1>1, <1>2, <1>3, <1>4 DEF Stored

\* A call reads the conversation: what it proposes to summarise lies in it.
LEMMA Opens ==
  ASSUME IInv, Stored, UNCHANGED <<file, births, expired, acked, job>>,
         NEW c \in Calls, NEW q, NEW range \in Ranges(file), Infer(c, q, file, range)
  PROVE  Stored'
<1>1. range \in Span /\ range.to < file.next
  <2>1. file.next \in Nat /\ file.next >= 1 /\ \A m \in file.msgs : m.seq \in Nat /\ m.seq < file.next
    BY DEF Stored, FileTyped, Message
  <2>2. CASE range = NoRange
    BY <2>1, <2>2 DEF NoRange, Span
  <2>3. ASSUME NEW m \in file.msgs, NEW n \in file.msgs, range = [from |-> m.seq, to |-> n.seq]
        PROVE  range \in Span /\ range.to < file.next
    BY <2>1, <2>3 DEF Span
  <2> QED BY <2>2, <2>3 DEF Ranges, Oldest
<1>2. /\ call'[c].range = range /\ call'[c].conv = file
      /\ \A d \in Calls \ {c} : call'[d] = call[d]
  BY DEF Infer, IInv, CallsInv
<1>3. RangesInv'
  <2>1. \A d \in Calls : call'[d].pc = "infer" =>
          call'[d].range \in Span /\ (call'[d].conv.birth = file.birth => call'[d].range.to < file.next)
    BY <1>1, <1>2 DEF Stored, RangesInv
  <2>2. Here' = Here /\ \A d \in Calls : OfThis(d)' <=> OfThis(d)
    BY DEF Here, OfThis
  <2> QED BY <2>1, <2>2 DEF Stored, RangesInv, RangesEmpty
<1>4. HistoryInv'
  BY HistoryGoesOn DEF Stored, Here, OfThis
<1>5. FileTyped' /\ Bounded' /\ JobsTyped' /\ KeptInv'
  BY DEF Stored, FileTyped, Turns, Bounded, JobsTyped, KeptInv, Here, Told
<1> QED BY <1>3, <1>4, <1>5 DEF Stored

\* A job reads the messages of its range.
LEMMA Reads ==
  ASSUME IInv, Stored, UNCHANGED <<file, births, expired, acked, call>>, NEW c \in Calls, job[c].pc = "read",
         job' = [job EXCEPT ![c] = [@ EXCEPT !.pc = "infer", !.text = Text(job[c].range)]]
  PROVE  Stored'
<1>1. Text(job[c].range) \in SUBSET Message /\ Text(job[c].range) \subseteq file.msgs
  BY DEF Text, Stored, FileTyped
<1>2. /\ job[c] \in [pc : {"idle", "read", "infer"}, birth : Nat, range : Span, text : SUBSET Message]
      /\ DOMAIN job = Calls
  BY DEF Stored, JobsTyped
<1>3. /\ DOMAIN job' = Calls
      /\ job'[c] = [job[c] EXCEPT !.pc = "infer", !.text = Text(job[c].range)]
      /\ \A d \in Calls \ {c} : job'[d] = job[d]
  BY <1>2
<1>4. /\ job'[c] \in [pc : {"idle", "read", "infer"}, birth : Nat, range : Span, text : SUBSET Message]
      /\ job'[c].pc = "infer" /\ job'[c].birth = job[c].birth /\ job'[c].range = job[c].range
      /\ job'[c].text = Text(job[c].range)
  BY <1>1, <1>2, <1>3
<1>5. JobsTyped'
  BY <1>3, <1>4 DEF Stored, JobsTyped
<1>6. Here' = Here /\ Told' = Told /\ \A d \in Calls : OfThis(d)' <=> OfThis(d)
  BY <1>3, <1>4 DEF Here, Told, OfThis
<1>7. HistoryInv'
  <2>1. \A d \in Calls : OfThis(d)' => \A m \in job'[d].text : (OfThis(d) /\ m \in job[d].text) \/ m \in file.msgs
    BY <1>1, <1>3, <1>4, <1>6
  <2> QED BY <1>6, <2>1, HistoryGoesOn DEF Stored
<1>8. RangesInv'
  <2>1. \A d \in Calls : OfThis(d) => job'[d].range.to < file.next
    BY <1>3, <1>4 DEF Stored, RangesInv
  <2>2. \A d \in Calls : OfThis(d) /\ job'[d].pc = "infer" =>
          \A m \in file.msgs : Covers(job'[d].range, m) /\ m.complete => m \in job'[d].text
    BY <1>3, <1>4 DEF Stored, RangesInv, Text
  <2> QED BY <1>6, <2>1, <2>2 DEF Stored, RangesInv, RangesEmpty
<1>9. FileTyped' /\ Bounded' /\ KeptInv'
  BY <1>6 DEF Stored, FileTyped, Turns, Bounded, KeptInv
<1> QED BY <1>5, <1>7, <1>8, <1>9 DEF Stored

\* Nothing else is remembered afterwards.
LEMMA RemembersOnly ==
  ASSUME NEW seen \in Seq(Requests), NEW q \in Requests, Len(seen) <= SeenLimit
  PROVE  ToSet(Remember(seen, q)) \subseteq ToSet(seen) \cup {q}
<1> DEFINE new == Remember(seen, q)
<1>1. /\ new \in Seq(Requests) /\ Len(new) \in Nat /\ new[Len(new)] = q /\ Len(seen) \in Nat
      /\ Len(new) <= Len(seen) + 1
      /\ \A k \in 1..(Len(new) - 1) : new[Len(new) - k] = seen[Len(seen) - (k - 1)]
  BY Remembers, MemoryConstants
<1> HIDE DEF new
<1>2. ASSUME NEW i \in 1..Len(new), i # Len(new) PROVE new[i] \in ToSet(seen)
  <2>1. PICK k : k = Len(new) - i
    OBVIOUS
  <2>2. k \in 1..(Len(new) - 1) /\ Len(new) - k = i
    BY <1>1, <1>2, <2>1
  <2>3. new[i] = seen[Len(seen) - (k - 1)]
    BY <1>1, <2>2
  <2>4. Len(seen) - (k - 1) \in 1..Len(seen)
    BY <1>1, <2>2
  <2> QED BY <2>3, <2>4 DEF ToSet
<1>3. ToSet(new) \subseteq ToSet(seen) \cup {q}
  BY <1>1, <1>2 DEF ToSet
<1> QED BY <1>3 DEF new

\* The turn as the file takes it.
LEMMA Appending ==
  ASSUME IInv, FileTyped, NEW q \in Requests, NEW complete \in BOOLEAN, Readable,
         file' = Appended(q, complete)
  PROVE  /\ file'.birth = file.birth /\ file'.version = file.version + 1 /\ file'.next = file.next + 2
         /\ file'.sums = file.sums /\ file'.seen = Remember(file.seen, q)
         /\ file'.msgs = file.msgs \cup {[seq |-> file.next, req |-> q, complete |-> TRUE],
                                         [seq |-> file.next + 1, req |-> q, complete |-> complete]}
         /\ Turns' = Turns + 1
<1>1. /\ file'.birth = file.birth /\ file'.version = file.version + 1 /\ file'.next = file.next + 2
      /\ file'.sums = file.sums /\ file'.seen = Remember(file.seen, q)
      /\ file'.msgs = file.msgs \cup {[seq |-> file.next, req |-> q, complete |-> TRUE],
                                      [seq |-> file.next + 1, req |-> q, complete |-> complete]}
  BY DEF IInv, FileInv, Fields, Appended
<1>2. ((file.next + 2) - 1) \div 2 = Turns + 1
  BY OneTurnMore DEF FileTyped
<1> QED BY <1>1, <1>2 DEF Turns

LEMMA AppendTyped ==
  ASSUME IInv, FileTyped, NEW q \in Requests, NEW complete \in BOOLEAN, Readable,
         file' = Appended(q, complete)
  PROVE  FileTyped'
<1>0. SeenLimit \in Nat \ {0} /\ Len(file.seen) \in Nat /\ Turns \in Nat /\ file.next \in Nat \ {0}
  BY MemoryConstants DEF FileTyped
<1>1. /\ file'.birth = file.birth /\ file'.version = file.version + 1 /\ file'.next = file.next + 2
      /\ file'.sums = file.sums /\ file'.seen = Remember(file.seen, q)
      /\ file'.msgs = file.msgs \cup {[seq |-> file.next, req |-> q, complete |-> TRUE],
                                      [seq |-> file.next + 1, req |-> q, complete |-> complete]}
      /\ Turns' = Turns + 1
  BY Appending
<1>m. PICK a, b : /\ a = [seq |-> file.next, req |-> q, complete |-> TRUE]
                  /\ b = [seq |-> file.next + 1, req |-> q, complete |-> complete]
  OBVIOUS
<1>n. /\ file'.msgs = file.msgs \cup {a, b} /\ a \in Message /\ b \in Message
      /\ a.seq = file.next /\ b.seq = file.next + 1
  BY <1>0, <1>1, <1>m DEF Message
<1>o. \A m \in file.msgs : m \in Message /\ m.seq \in Nat /\ m.seq < file.next
  BY DEF FileTyped, Message
<1>2. file'.msgs \subseteq Message
  BY <1>n, <1>o
<1>3. \A m \in file'.msgs : m.seq < file'.next
  BY <1>0, <1>1, <1>n, <1>o
<1>4. \A m, n \in file'.msgs : m.seq = n.seq => m = n
  BY <1>0, <1>n, <1>o DEF FileTyped
<1>p. file.next = 2 * Turns + 1
  BY DEF FileTyped
<1>5. file'.next = 2 * Turns' + 1 /\ Turns' \in Nat
  BY <1>0, <1>1, <1>p
<1>6. /\ file'.seen \in Seq(Requests)
      /\ Len(file'.seen) = IF Turns' < SeenLimit THEN Turns' ELSE SeenLimit
  BY <1>0, <1>1, Remembers DEF FileTyped
<1> QED BY <1>1, <1>2, <1>3, <1>4, <1>5, <1>6 DEF FileTyped

\* The history grows by the turn.
LEMMA AppendHistory ==
  ASSUME IInv, FileTyped, HistoryInv, NEW q \in Requests, NEW complete \in BOOLEAN, Readable,
         q \notin ToSet(file.seen), file' = Appended(q, complete),
         \A c \in Calls : OfThis(c)' => \A m \in job'[c].text : OfThis(c) /\ m \in job[c].text
  PROVE  HistoryInv'
<1>0. SeenLimit \in Nat \ {0} /\ Len(file.seen) \in Nat /\ Turns \in Nat /\ file.next \in Nat \ {0}
  BY MemoryConstants DEF FileTyped
<1>1. /\ file'.birth = file.birth /\ file'.version = file.version + 1 /\ file'.next = file.next + 2
      /\ file'.sums = file.sums /\ file'.seen = Remember(file.seen, q)
      /\ file'.msgs = file.msgs \cup {[seq |-> file.next, req |-> q, complete |-> TRUE],
                                      [seq |-> file.next + 1, req |-> q, complete |-> complete]}
      /\ Turns' = Turns + 1
  BY Appending
<1>2. PICK log \in [1..Turns -> Requests] : History(log)
  BY DEF HistoryInv
<1>3. PICK new : new = [i \in 1..(Turns + 1) |-> IF i <= Turns THEN log[i] ELSE q]
  OBVIOUS
<1>4. /\ new \in [1..Turns' -> Requests] /\ new[Turns + 1] = q
      /\ \A i \in 1..Turns : new[i] = log[i]
  BY <1>0, <1>1, <1>2, <1>3
<1>5. \A m : Logged(log, m) => /\ TurnOf(m) \in 1..(Turns + 1) /\ m.req = new[TurnOf(m)]
  BY <1>0, <1>2, <1>4 DEF Logged
<1>6. \A i, j \in 1..(Turns + 1) : i < j /\ new[i] = new[j] => j - i > SeenLimit
  <2>1. ASSUME NEW i \in 1..Turns, log[i] = q PROVE (Turns + 1) - i > SeenLimit
    <3>1. PICK k : k = Turns - i
      OBVIOUS
    <3>2. k \in Nat /\ Turns - k = i /\ k <= Turns - 1
      BY <1>0, <3>1
    <3>3. CASE k < Len(file.seen)
      <4>1. file.seen[Len(file.seen) - k] = q
        BY <1>0, <1>2, <2>1, <3>2, <3>3 DEF History
      <4>2. Len(file.seen) - k \in 1..Len(file.seen)
        BY <1>0, <3>2, <3>3
      <4> QED BY <4>1, <4>2 DEF ToSet
    <3>4. CASE k >= Len(file.seen)
      BY <1>0, <3>2, <3>4 DEF FileTyped
    <3> QED BY <1>0, <3>2, <3>3, <3>4
  <2>2. ASSUME NEW i \in 1..(Turns + 1), NEW j \in 1..(Turns + 1), i < j, new[i] = new[j]
        PROVE  j - i > SeenLimit
    <3>1. i \in 1..Turns
      BY <1>0, <2>2
    <3>2. CASE j = Turns + 1
      BY <3>1, <3>2, <2>1, <2>2, <1>4
    <3>3. CASE j # Turns + 1
      <4>1. j \in 1..Turns
        BY <3>3, <1>0
      <4> QED BY <3>1, <4>1, <2>2, <1>2, <1>4 DEF History
    <3> QED BY <3>2, <3>3
  <2> QED BY <2>2
<1>7. \A k \in 0..(Len(file'.seen) - 1) : file'.seen[Len(file'.seen) - k] = new[Turns + 1 - k]
  <2> TAKE k \in 0..(Len(file'.seen) - 1)
  <2>0. /\ Len(Remember(file.seen, q)) = IF Len(file.seen) < SeenLimit THEN Len(file.seen) + 1 ELSE SeenLimit
        /\ Remember(file.seen, q)[Len(Remember(file.seen, q))] = q
        /\ \A n \in 1..(Len(Remember(file.seen, q)) - 1) :
              Remember(file.seen, q)[Len(Remember(file.seen, q)) - n] = file.seen[Len(file.seen) - (n - 1)]
    <3>1. file.seen \in Seq(Requests) /\ Len(file.seen) <= SeenLimit
      BY <1>0 DEF FileTyped
    <3> QED BY <3>1, Remembers
  <2>1. /\ Len(file'.seen) \in Nat
        /\ Len(file'.seen) = IF Len(file.seen) < SeenLimit THEN Len(file.seen) + 1 ELSE SeenLimit
        /\ file'.seen[Len(file'.seen)] = q
        /\ \A n \in 1..(Len(file'.seen) - 1) :
              file'.seen[Len(file'.seen) - n] = file.seen[Len(file.seen) - (n - 1)]
    BY <1>0, <1>1, <2>0
  <2>2. CASE k = 0
    BY <1>0, <1>4, <2>1, <2>2
  <2>3. CASE k # 0
    <3>1. PICK n : n = k - 1
      OBVIOUS
    <3>2. n \in 0..(Len(file.seen) - 1) /\ Turns + 1 - k = Turns - n /\ k \in 1..(Len(file'.seen) - 1)
      BY <1>0, <2>1, <2>3, <3>1 DEF FileTyped
    <3>3. file'.seen[Len(file'.seen) - k] = log[Turns - n]
      BY <1>2, <2>1, <3>1, <3>2 DEF History
    <3>4. Turns - n \in 1..Turns
      BY <1>0, <3>2 DEF FileTyped
    <3> QED BY <1>4, <3>2, <3>3, <3>4
  <2> QED BY <2>2, <2>3
<1>8. \A m \in file'.msgs : TurnOf(m) \in 1..(Turns + 1) /\ m.req = new[TurnOf(m)]
  <2>1. (file.next + 1) \div 2 = Turns + 1 /\ ((file.next + 1) + 1) \div 2 = Turns + 1
    BY <1>0, OneTurnMore DEF FileTyped
  <2>2. ASSUME NEW m, m.req = q, m.seq = file.next \/ m.seq = file.next + 1
        PROVE  TurnOf(m) \in 1..(Turns + 1) /\ m.req = new[TurnOf(m)]
    <3>1. TurnOf(m) = Turns + 1
      BY <2>1, <2>2 DEF TurnOf
    <3> QED BY <2>2, <3>1, <1>0, <1>4
  <2> QED BY <1>1, <1>2, <1>5, <2>2 DEF History
<1>9. Here' = Here
  BY <1>1 DEF Here
<1>10. \A m : Logged(new, m)' <=> TurnOf(m) \in 1..(Turns + 1) /\ m.req = new[TurnOf(m)]
  BY <1>1 DEF Logged
<1>11. History(new)'
  <2>1. \A i, j \in 1..Turns' : i < j /\ new[i] = new[j] => j - i > SeenLimit
    BY <1>1, <1>6
  <2>2. \A k \in 0..(Len(file'.seen) - 1) : file'.seen[Len(file'.seen) - k] = new[Turns' - k]
    BY <1>0, <1>1, <1>7
  <2>3. \A m \in file'.msgs : Logged(new, m)'
    BY <1>8, <1>10
  <2>4. \A s \in Here' : \A m \in s.text : Logged(new, m)'
    BY <1>2, <1>5, <1>9, <1>10 DEF History
  <2>5. \A c \in Calls : OfThis(c)' => \A m \in job'[c].text : Logged(new, m)'
    BY <1>2, <1>5, <1>10 DEF History
  <2> QED BY <1>4, <2>1, <2>2, <2>3, <2>4, <2>5 DEF History
<1> QED BY <1>4, <1>11 DEF HistoryInv

\* A turn is appended.
LEMMA Appends ==
  ASSUME IInv, Stored, NEW q \in Requests, NEW complete \in BOOLEAN, Readable, RoomForVersion,
         q \notin ToSet(file.seen), file' = Appended(q, complete),
         UNCHANGED <<births, expired>>, acked' = acked \cup {q}, JobsGoOn, CallsGoOn
  PROVE  Stored'
<1>0. file.next \in Nat \ {0} /\ Turns \in Nat
  BY DEF Stored, FileTyped
<1>b. file.birth # 0 /\ file.birth = births /\ births \in Nat
  BY DEF IInv, FileInv, Readable
<1>1. /\ file'.birth = file.birth /\ file'.version = file.version + 1 /\ file'.next = file.next + 2
      /\ file'.sums = file.sums /\ file'.seen = Remember(file.seen, q)
      /\ file'.msgs = file.msgs \cup {[seq |-> file.next, req |-> q, complete |-> TRUE],
                                      [seq |-> file.next + 1, req |-> q, complete |-> complete]}
  BY Appending DEF Stored
<1>j. /\ JobsTyped'
      /\ \A c \in Calls : job'[c].pc # "idle" =>
              \/ job'[c] = job[c]
              \/ /\ call[c].pc = "infer" /\ job'[c].pc = "read" /\ job'[c].text = {}
                 /\ job'[c].birth = call[c].conv.birth /\ job'[c].range = call[c].range
  BY JobsKeep DEF Stored
<1>h. Here' = Here
  BY <1>1 DEF Here
<1>2. FileTyped'
  BY AppendTyped DEF Stored
<1>3. Bounded'
  BY <1>1, <1>b, MemoryConstants DEF Stored, Bounded, RoomForVersion, IInv, FileInv
<1>4. HistoryInv'
  <2>1. \A c \in Calls : OfThis(c)' => \A m \in job'[c].text : OfThis(c) /\ m \in job[c].text
    BY <1>1, <1>j DEF OfThis
  <2> QED BY <2>1, AppendHistory DEF Stored
<1>5. RangesInv'
  <2>n. file'.next = file.next + 2
    BY <1>1
  <2>1. \A c \in Calls : call'[c].pc = "infer" => call'[c] = call[c]
    BY DEF CallsGoOn, NoCall
  <2>2. \A c \in Calls : call'[c].pc = "infer" =>
          call'[c].range \in Span /\ (call'[c].conv.birth = file'.birth => call'[c].range.to < file'.next)
    BY <1>0, <1>1, <2>1 DEF Stored, RangesInv, Span
  <2>3. \A c \in Calls : OfThis(c)' => job'[c].range.to < file.next
    BY <1>1, <1>j DEF OfThis, Stored, RangesInv
  <2>4. \A c \in Calls : OfThis(c)' => job'[c].range.to \in Nat
    BY <1>j DEF JobsTyped, Span
  <2>5. \A s \in Here : s.range.to \in Nat /\ s.range.to < file.next
    BY DEF Stored, FileTyped, RangesInv, Summary, Span, Here
  <2>6. ASSUME NEW m \in file'.msgs, NEW range, range.to \in Nat, range.to < file.next, Covers(range, m)
        PROVE  m \in file.msgs
    BY <1>0, <1>1, <2>6 DEF Covers
  <2>7. ASSUME NEW c \in Calls, OfThis(c)', job'[c].pc = "infer",
               NEW m \in file'.msgs, Covers(job'[c].range, m), m.complete
        PROVE  m \in job'[c].text
    <3>1. m \in file.msgs
      BY <2>3, <2>4, <2>6, <2>7
    <3>2. job'[c] = job[c] /\ OfThis(c)
      BY <1>1, <1>j, <2>7 DEF OfThis
    <3> QED BY <2>7, <3>1, <3>2 DEF Stored, RangesInv
  <2>8. RangesEmpty'
    <3>1. ASSUME NEW s \in Here, NEW m \in file'.msgs, Covers(s.range, m) PROVE FALSE
      <4>1. m \in file.msgs
        BY <2>5, <2>6, <3>1
      <4> QED BY <3>1, <4>1 DEF Stored, RangesInv, RangesEmpty, Covers
    <3> QED BY <1>h, <3>1 DEF RangesEmpty, Covers
  <2>9. \A c \in Calls : OfThis(c)' => job'[c].range.to < file'.next
    BY <1>0, <2>n, <2>3, <2>4
  <2>10. \A s \in Here' : s.range.to < file'.next
    BY <1>0, <1>h, <2>n, <2>5
  <2> QED BY <2>2, <2>7, <2>8, <2>9, <2>10 DEF RangesInv
<1>6. KeptInv'
  <2>1. Told \subseteq Told' /\ Here' = Here /\ (Here' = file'.sums => Here = file.sums)
    BY <1>1, <1>h DEF Told
  <2>2. PICK a : a = [seq |-> file.next, req |-> q, complete |-> TRUE]
    OBVIOUS
  <2>3. a \in Told' /\ a.req = q /\ a.complete
    BY <1>1, <2>2 DEF Told
  <2>4. ToSet(file'.seen) \cup acked' \subseteq ToSet(file.seen) \cup acked \cup {q}
    <3>1. file.seen \in Seq(Requests) /\ Len(file.seen) <= SeenLimit
      BY MemoryConstants DEF Stored, FileTyped
    <3> QED BY <1>1, <3>1, RemembersOnly
  <2> QED BY <2>1, <2>3, <2>4 DEF Stored, KeptInv
<1> QED BY <1>j, <1>2, <1>3, <1>4, <1>5, <1>6 DEF Stored

\* A job puts its summary in the place of the messages.
LEMMA Replaces ==
  ASSUME IInv, Stored, NEW c \in Calls, job[c].pc = "infer", Readable, RoomForVersion,
         file' = Summarised(job[c]), job' = [job EXCEPT ![c] = NoJob],
         UNCHANGED <<births, expired, call, acked>>
  PROVE  Stored'
<1>b. file.birth # 0 /\ file.birth = births /\ births \in Nat
  BY DEF IInv, FileInv, Readable
<1>s. PICK sum : sum = [range |-> job[c].range, birth |-> job[c].birth, text |-> job[c].text]
  OBVIOUS
<1>1. /\ file'.birth = file.birth /\ file'.version = file.version + 1 /\ file'.next = file.next
      /\ file'.seen = file.seen /\ file'.sums = file.sums \cup {sum}
      /\ file'.msgs = {m \in file.msgs : ~Covers(job[c].range, m)}
  BY <1>s DEF IInv, FileInv, Fields, Summarised
<1>2. /\ JobsTyped'
      /\ \A d \in Calls : job'[d].pc # "idle" => d # c /\ job'[d] = job[d]
  <2>1. JobsGoOn /\ \A d \in Calls : job'[d].pc # "idle" => d # c /\ job'[d] = job[d]
    BY DEF JobsGoOn, Stored, JobsTyped, NoJob
  <2> QED BY <2>1, JobsKeep DEF Stored
<1>3. /\ sum \in Summary /\ sum.birth = job[c].birth /\ sum.text = job[c].text /\ sum.range = job[c].range
  BY <1>s DEF Stored, JobsTyped, Summary
<1>4. \A s \in Here' : s \in Here \/ (OfThis(c) /\ s = sum)
  BY <1>1, <1>3 DEF Here, OfThis
<1>5. \A d \in Calls : OfThis(d)' => OfThis(d) /\ job'[d] = job[d]
  BY <1>1, <1>2 DEF OfThis
<1>6. FileTyped'
  BY <1>1, <1>3 DEF Stored, FileTyped, Turns
<1>7. Bounded'
  BY <1>1, <1>b, MemoryConstants DEF Stored, Bounded, RoomForVersion, IInv, FileInv
<1>8. HistoryInv'
  BY <1>1, <1>3, <1>4, <1>5, HistoryGoesOn DEF Stored
<1>9. RangesInv'
  <2>1. \A s \in Here' : s.range.to < file'.next
    BY <1>1, <1>3, <1>4 DEF Stored, RangesInv
  <2>2. RangesEmpty'
    BY <1>1, <1>3, <1>4 DEF Stored, RangesInv, RangesEmpty, Covers
  <2>3. \A d \in Calls : OfThis(d)' => job'[d].range.to < file'.next
    BY <1>1, <1>5 DEF Stored, RangesInv
  <2>4. \A d \in Calls : OfThis(d)' /\ job'[d].pc = "infer" =>
          \A m \in file'.msgs : Covers(job'[d].range, m) /\ m.complete => m \in job'[d].text
    BY <1>1, <1>5 DEF Stored, RangesInv
  <2>5. \A d \in Calls : call'[d].pc = "infer" =>
          call'[d].range \in Span /\ (call'[d].conv.birth = file'.birth => call'[d].range.to < file'.next)
    BY <1>1 DEF Stored, RangesInv
  <2> QED BY <2>1, <2>2, <2>3, <2>4, <2>5 DEF RangesInv
<1>10. KeptInv'
  <2> SUFFICES ASSUME Here' = file'.sums, NEW q \in ToSet(file.seen) \cup acked
               PROVE  \E m \in Told' : m.req = q /\ m.complete
    BY <1>1 DEF KeptInv
  <2>1. OfThis(c) /\ Here = file.sums /\ sum \in Here'
    BY <1>1, <1>3 DEF Here, OfThis
  <2>2. PICK m \in Told : m.req = q /\ m.complete
    BY <2>1 DEF Stored, KeptInv
  <2>3. Here \subseteq Here'
    BY <1>1, <2>1
  <2>4. m \in Told'
    <3>1. CASE m \in UNION {s.text : s \in Here}
      BY <2>3, <3>1 DEF Told
    <3>2. CASE m \in file.msgs /\ ~Covers(job[c].range, m)
      BY <1>1, <3>2 DEF Told
    <3>3. CASE m \in file.msgs /\ Covers(job[c].range, m)
      <4>1. m \in sum.text
        BY <1>3, <2>1, <2>2, <3>3 DEF Stored, RangesInv
      <4> QED BY <2>1, <4>1 DEF Told
    <3> QED BY <3>1, <3>2, <3>3 DEF Told
  <2> QED BY <2>2, <2>4
<1> QED BY <1>2, <1>6, <1>7, <1>8, <1>9, <1>10 DEF Stored

\* There is no conversation any more, or a new one: nothing is in it, and what
\* calls and jobs have is of an earlier one.
LEMMA StartsOver ==
  ASSUME IInv, Stored, Gone \/ (Born /\ births < Len(MaxVersion)), expired' = FALSE, acked' = {},
         DOMAIN job' = Calls, \A c \in Calls : job'[c] = job[c] \/ job'[c] = NoJob,
         \A c \in Calls : \/ call'[c] = call[c]
                          \/ call'[c].range = NoRange
  PROVE  Stored'
<1>0. births \in Nat /\ SeenLimit \in Nat \ {0} /\ MaxVersion \in Seq(Nat \ {0})
  BY MemoryConstants DEF IInv, FileInv
<1>1. /\ file'.next = 1 /\ file'.msgs = {} /\ file'.sums = {} /\ file'.seen = <<>>
      /\ file'.birth \in {0, births + 1} /\ births' \in {births, births + 1} /\ births' <= Len(MaxVersion)
      /\ file'.birth # 0 => births' = births + 1 /\ births + 1 \in 1..Len(MaxVersion) /\ file'.version = 1
  <2>1. CASE Gone
    BY <1>0, <2>1 DEF Gone, NoFile, Conversation, Stored, Bounded
  <2>2. CASE Born /\ births < Len(MaxVersion)
    BY <1>0, <2>2 DEF Born, Conversation
  <2> QED BY <2>1, <2>2
<1>2. Turns' = 0
  <2>1. (1 - 1) \div 2 = 0
    OBVIOUS
  <2> QED BY <1>1, <2>1 DEF Turns
<1>3. Here' = {} /\ Told' = {}
  BY <1>1 DEF Here, Told
<1>4. JobsTyped'
  <2>1. JobsGoOn
    BY DEF JobsGoOn
  <2> QED BY <1>1, <2>1, JobsKeep DEF Stored
<1>5. \A c \in Calls : ~OfThis(c)'
  <2>1. \A c \in Calls : job[c].birth \in Nat /\ job[c].birth <= births /\ (job[c].pc # "idle" => job[c].birth # 0)
    BY DEF Stored, JobsTyped
  <2>2. NoJob.pc = "idle"
    BY DEF NoJob
  <2> QED BY <1>0, <1>1, <2>1, <2>2 DEF OfThis
<1>6. FileTyped'
  BY <1>0, <1>1, <1>2 DEF FileTyped
<1>7. Bounded'
  <2>1. file'.birth # 0 => MaxVersion[births'] \in Nat \ {0}
    BY <1>0, <1>1
  <2> QED BY <1>1, <2>1 DEF Bounded
<1>8. HistoryInv'
  <2>1. PICK log : log = [i \in 1..0 |-> i]
    OBVIOUS
  <2>2. log \in [1..Turns' -> Requests]
    BY <1>2, <2>1
  <2>3. History(log)'
    BY <1>1, <1>2, <1>3, <1>5, <2>2 DEF History
  <2> QED BY <2>2, <2>3 DEF HistoryInv
<1>9. RangesInv'
  <2>1. NoRange \in Span /\ NoRange.to = 0
    BY DEF NoRange, Span
  <2>2. \A c \in Calls : call[c].pc = "infer" => call[c].range \in Span /\ call[c].conv.birth \in 1..births
    BY DEF Stored, RangesInv, IInv, CallsInv, Knows
  <2>3. \A c \in Calls : call'[c].pc = "infer" =>
          call'[c].range \in Span /\ (call'[c].conv.birth = file'.birth => call'[c].range.to < file'.next)
    BY <1>0, <1>1, <2>1, <2>2
  <2> QED BY <1>1, <1>3, <1>5, <2>3 DEF RangesInv, RangesEmpty
<1>10. KeptInv'
  BY <1>1 DEF KeptInv, ToSet
<1> QED BY <1>4, <1>6, <1>7, <1>8, <1>9, <1>10 DEF Stored

LEMMA InitStored == Init => Stored
<1> SUFFICES ASSUME Init PROVE Stored
  OBVIOUS
<1>0. SeenLimit \in Nat \ {0} /\ MaxVersion \in Seq(Nat \ {0})
  BY MemoryConstants
<1>1. /\ file.next = 1 /\ file.msgs = {} /\ file.sums = {} /\ file.seen = <<>> /\ file.birth = 0
      /\ births = 0 /\ expired = FALSE /\ acked = {}
      /\ DOMAIN job = Calls /\ \A c \in Calls : job[c] = NoJob
      /\ \A c \in Calls : call[c].pc = "idle"
  BY DEF Init, NoFile, Conversation, NoCall
<1>2. Turns = 0
  <2>1. (1 - 1) \div 2 = 0
    OBVIOUS
  <2> QED BY <1>1, <2>1 DEF Turns
<1>3. NoJob \in [pc : {"idle", "read", "infer"}, birth : Nat, range : Span, text : SUBSET Message]
      /\ NoJob.pc = "idle" /\ NoJob.birth = 0
  BY DEF NoJob, NoRange, Span
<1>4. Here = {} /\ \A c \in Calls : ~OfThis(c)
  BY <1>1, <1>3 DEF Here, OfThis
<1>5. FileTyped
  BY <1>0, <1>1, <1>2 DEF FileTyped
<1>6. Bounded /\ JobsTyped
  BY <1>0, <1>1, <1>3 DEF Bounded, JobsTyped
<1>7. HistoryInv
  <2>1. PICK log : log = [i \in 1..0 |-> i]
    OBVIOUS
  <2>2. log \in [1..Turns -> Requests]
    BY <1>2, <2>1
  <2>3. History(log)
    BY <1>1, <1>2, <1>4, <2>2 DEF History
  <2> QED BY <2>2, <2>3 DEF HistoryInv
<1>8. RangesInv /\ KeptInv
  BY <1>1, <1>4 DEF RangesInv, RangesEmpty, KeptInv, ToSet
<1> QED BY <1>5, <1>6, <1>7, <1>8 DEF Stored

LEMMA StepStored == IInv /\ Stored /\ [Next]_vars => Stored'
<1> SUFFICES ASSUME IInv, Stored, [Next]_vars PROVE Stored'
  OBVIOUS
<1>j. DOMAIN job = Calls /\ (UNCHANGED job => JobsGoOn)
  BY DEF Stored, JobsTyped, JobsGoOn
<1>c. DOMAIN call = Calls /\ (UNCHANGED call => CallsGoOn)
  BY DEF IInv, CallsInv, CallsGoOn
<1>e. expired => file.birth # 0
  BY DEF Stored, Bounded
<1>1. ASSUME NEW c \in Calls, NEW q \in Requests, Open(c, q) PROVE Stored'
  <2>1. CASE Readable /\ UNCHANGED <<file, expired, births, acked, job>>
             /\ \E range \in Ranges(file) : Infer(c, q, file, range)
    BY <2>1, Opens
  <2>2. CASE Create /\ Infer(c, q, Conversation(births + 1, 1), NoRange) /\ UNCHANGED job
    <3>1. \A d \in Calls : call'[d] = call[d] \/ call'[d].range = NoRange
      BY <2>2, <1>c DEF Infer
    <3>2. Born /\ births < Len(MaxVersion) /\ expired' = FALSE /\ acked' = {}
      BY <2>2 DEF Create, Born
    <3> QED BY <1>j, <2>2, <3>1, <3>2, StartsOver
  <2> QED BY <1>1, <2>1, <2>2 DEF Open
<1>2. ASSUME NEW c \in Calls, InferFails(c) \/ CommitFails(c) PROVE Stored'
  <2>1. CallsGoOn /\ UNCHANGED <<file, expired, births, job, acked>>
    BY <1>2, <1>c DEF InferFails, CommitFails, CallsGoOn
  <2> QED BY <1>e, <1>j, <2>1, Quiet
<1>3. ASSUME NEW c \in Calls, Commit(c) PROVE Stored'
  <2>1. CallsGoOn /\ UNCHANGED <<expired, births>> /\ acked' = acked \cup {call[c].req}
        /\ call[c].req \in Requests /\ Readable
    BY <1>3, <1>c DEF Commit, CallsGoOn, IInv, CallsInv
  <2>2. JobsGoOn
    BY <1>3, <1>j DEF Commit, ScheduleSummary, JobsGoOn, StartedBy
  <2>3. CASE call[c].req \in ToSet(file.seen) /\ UNCHANGED file
    BY <1>e, <2>1, <2>2, <2>3, Quiet
  <2>4. CASE /\ call[c].req \notin ToSet(file.seen) /\ RoomForVersion
             /\ \E complete \in BOOLEAN : file' = Appended(call[c].req, complete)
    BY <2>1, <2>2, <2>4, Appends
  <2> QED BY <1>3, <2>3, <2>4 DEF Commit, AppendTurn
<1>4. ASSUME NEW c \in Calls, JobRead(c) PROVE Stored'
  <2>1. CASE Create /\ job' = [job EXCEPT ![c] = NoJob] /\ UNCHANGED call
    <3>1. \A d \in Calls : job'[d] = job[d] \/ job'[d] = NoJob
      BY <2>1, <1>j
    <3>2. Born /\ births < Len(MaxVersion) /\ expired' = FALSE /\ acked' = {} /\ DOMAIN job' = Calls
      BY <2>1, <1>j DEF Create, Born
    <3> QED BY <2>1, <3>1, <3>2, StartsOver
  <2>2. CASE /\ UNCHANGED <<file, expired, births, acked, call>> /\ Text(job[c].range) = {}
             /\ job' = [job EXCEPT ![c] = NoJob]
    <3>1. JobsGoOn
      BY <2>2, <1>j DEF JobsGoOn
    <3> QED BY <1>c, <1>e, <2>2, <3>1, Quiet
  <2>3. CASE /\ UNCHANGED <<file, expired, births, acked, call>>
             /\ job' = [job EXCEPT ![c] = [@ EXCEPT !.pc = "infer", !.text = Text(job[c].range)]]
    BY <1>4, <2>3, Reads DEF JobRead
  <2> QED BY <1>4, <2>1, <2>2, <2>3 DEF JobRead
<1>5. ASSUME NEW c \in Calls, JobReplace(c) PROVE Stored'
  BY <1>5, Replaces DEF JobReplace
<1>6. ASSUME NEW c \in Calls, JobFails(c) PROVE Stored'
  <2>1. JobsGoOn /\ UNCHANGED <<file, expired, births, call, acked>>
    BY <1>6, <1>j DEF JobFails, JobsGoOn
  <2> QED BY <1>c, <1>e, <2>1, Quiet
<1>7. CASE Expire
  <2>1. file.birth # 0 /\ UNCHANGED <<file, births, call, job, acked>>
    BY <1>7 DEF Expire, Readable, IInv, FileInv
  <2> QED BY <1>c, <1>j, <2>1, Quiet
<1>8. CASE SweepExpired
  BY <1>8, <1>j, StartsOver DEF SweepExpired, Gone
<1>9. CASE Restart
  <2>1. JobsGoOn /\ CallsGoOn /\ UNCHANGED <<file, expired, births, acked>>
    BY <1>9 DEF Restart, JobsGoOn, CallsGoOn
  <2> QED BY <1>e, <2>1, Quiet
<1>10. CASE UNCHANGED vars
  BY <1>10, <1>c, <1>e, <1>j, Quiet DEF vars
<1> QED
  BY <1>1, <1>2, <1>3, <1>4, <1>5, <1>6, <1>7, <1>8, <1>9, <1>10 DEF Next

-----------------------------------------------------------------------------
(***************************************************************************)
(* Hot reloads: what holds under one lock holds until two have torn the    *)
(* file.                                                                   *)
(***************************************************************************)
ReloadIInv ==
  /\ inside \in BOOLEAN /\ torn \in BOOLEAN
  /\ inside => HotReload
  /\ ~inside /\ ~torn => base = NoFile /\ lapsed = FALSE
  /\ ~torn => IInv /\ Stored

\* The only step that tears the file ends in a torn state.
LEMMA UntornStep ==
  ASSUME ReloadIInv, [ReloadNext]_reloadVars, ~torn'
  PROVE  ~torn /\ [Next]_vars
BY DEF ReloadNext, Step, SectionWrites, reloadVars

LEMMA InitReload == ReloadInit => ReloadIInv
BY InitHolds, InitStored DEF ReloadInit, ReloadIInv

LEMMA StepReload == ReloadIInv /\ [ReloadNext]_reloadVars => ReloadIInv'
<1> SUFFICES ASSUME ReloadIInv, [ReloadNext]_reloadVars PROVE ReloadIInv'
  OBVIOUS
<1>1. /\ inside' \in BOOLEAN /\ torn' \in BOOLEAN
      /\ inside' => HotReload
      /\ ~inside' /\ ~torn' => base' = NoFile /\ lapsed' = FALSE
  <2>1. NoFile' = NoFile
    BY DEF NoFile, Conversation
  <2>2. CASE Step /\ Outside
    BY <2>1, <2>2 DEF ReloadIInv, Step, Outside
  <2>3. CASE Step /\ HotReload /\ inside' = TRUE
    BY <2>3 DEF ReloadIInv, Step
  <2>4. CASE SectionWrites
    BY <2>4 DEF SectionWrites
  <2>5. CASE UNCHANGED reloadVars
    BY <2>1, <2>5 DEF ReloadIInv, reloadVars
  <2> QED BY <2>2, <2>3, <2>4, <2>5 DEF ReloadNext, Step
<1>2. ASSUME ~torn' PROVE (IInv /\ Stored)'
  <2>1. ~torn /\ [Next]_vars
    BY <1>2, UntornStep
  <2> QED BY <2>1, StepHolds, StepStored DEF ReloadIInv
<1>3. NoFile' = NoFile
  BY DEF NoFile, Conversation
<1> QED BY <1>1, <1>2, <1>3 DEF ReloadIInv

\* What the file has been through holds in every state that is not torn.
THEOREM StoredInvariance == ReloadSpec => []ReloadIInv
BY InitReload, StepReload, PTL DEF ReloadSpec

\* AppendTurn's comparison of versions ties a turn to what it answers, although
\* jobs write beside the calls: it is appended to the conversation it was made
\* from, or to one created anew that has come to the same version.
THEOREM TurnsAreBuiltOnHistory == ReloadSpec => TurnsBuiltOnHistory
<1>1. ASSUME IInv, NEW c \in Calls, Commit(c)
      PROVE  SameConversation(call[c].conv) \/ CreatedAnew(call[c].conv)
  <2>1. Knows(call[c].conv) /\ call[c].conv.version = file.version /\ file # NoFile
    BY <1>1 DEF IInv, CallsInv, Commit, VersionMatches, Readable
  <2>2. births \in Nat /\ file.birth = births
    BY <1>1, <2>1 DEF IInv, FileInv
  <2> QED BY <2>1, <2>2 DEF Knows, SameConversation, CreatedAnew
<1>2. ReloadIInv /\ [ReloadNext]_reloadVars =>
        [\A c \in Calls : ~torn' /\ Commit(c) /\ file' # file =>
           SameConversation(call[c].conv) \/ CreatedAnew(call[c].conv)]_reloadVars
  BY <1>1, UntornStep DEF ReloadIInv
<1> QED BY <1>2, StoredInvariance, PTL DEF ReloadSpec, TurnsBuiltOnHistory

\* The type invariant: what Create, AppendTurn, ReplaceWithSummary and the sweep
\* leave in the file is well formed as long as it is not torn, and no version is above
\* its bound.
THEOREM TypeCorrect == ReloadSpec => []ReloadTypeOK
<1>1. IInv /\ Stored => TypeOK
  <2> SUFFICES ASSUME IInv, Stored PROVE TypeOK
    OBVIOUS
  <2>1. /\ births \in Nat /\ file.birth \in {0, births} /\ file.version \in Nat
        /\ (file.birth = 0 => file = NoFile)
    BY DEF IInv, FileInv
  <2>2. NoFile.birth = 0 /\ NoFile.version = 0
    BY DEF NoFile, Conversation
  <2>3. births \in 0..Len(MaxVersion) /\ file.birth \in {0, births}
    BY <2>1, MemoryConstants DEF Stored, Bounded
  <2>4. file # NoFile => file.birth # 0 /\ file.birth = births /\ births \in 1..Len(MaxVersion)
    BY <2>1, <2>3
  <2>5. file.version \in 0..(IF file = NoFile THEN 0 ELSE MaxVersion[births])
    BY <2>1, <2>2, <2>4, MemoryConstants DEF Stored, Bounded
  <2>6. (file = NoFile) <=> (file.version = 0)
    BY <2>1, <2>2, <2>4, MemoryConstants DEF Stored, Bounded
  <2>7. \A m \in file.msgs : /\ m.seq \in 1..(file.next - 1) /\ m.req \in Requests
                             /\ \A n \in file.msgs : m.seq = n.seq => m = n
    BY DEF Stored, FileTyped, Message
  <2>8. Len(file.seen) <= SeenLimit
    BY MemoryConstants DEF Stored, FileTyped
  <2>9. expired => file # NoFile
    BY <2>2 DEF Stored, Bounded
  <2>10. \A c \in Calls : job[c].pc \in {"idle", "read", "infer"} /\ job[c].birth <= births
    BY DEF Stored, JobsTyped
  <2>11. \A c \in Calls : call[c].pc \in {"idle", "infer"} /\ call[c].conv.birth <= births
    BY <2>1, <2>2 DEF IInv, CallsInv, Knows
  <2> QED BY <2>3, <2>5, <2>6, <2>7, <2>8, <2>9, <2>10, <2>11 DEF TypeOK
<1>2. ReloadIInv => ReloadTypeOK
  BY <1>1 DEF ReloadIInv, ReloadTypeOK
<1> QED BY <1>2, StoredInvariance, PTL

\* SeenRequests works: while a request is among the remembered ones AppendTurn
\* stores it only once, whether it is told as messages or in a summary.
THEOREM NotStoredAgain == ReloadSpec => []StoredOnce
<1>1. Stored /\ ~torn => StoredOnce
  <2> SUFFICES ASSUME Stored, NEW m \in Told, NEW n \in Told,
                      m.req = n.req, TurnOf(m) < TurnOf(n)
               PROVE  TurnOf(n) - TurnOf(m) > SeenLimit
    BY DEF StoredOnce
  <2>1. PICK log \in [1..Turns -> Requests] : History(log)
    BY DEF Stored, HistoryInv
  <2>2. Logged(log, m) /\ Logged(log, n)
    BY <2>1 DEF History, Told
  <2> QED BY <2>1, <2>2 DEF History, Logged
<1>2. ReloadIInv => StoredOnce
  BY <1>1 DEF ReloadIInv, StoredOnce
<1> QED BY <1>2, StoredInvariance, PTL

\* An acknowledged request is not lost: a job replaces complete messages only
\* after it has read them, since nothing is numbered into a range it was given.
THEOREM AckedStays == ReloadSpec => []AckedIsKept
<1>1. ReloadIInv => AckedIsKept
  BY DEF ReloadIInv, Stored, KeptInv, AckedIsKept
<1> QED BY <1>1, StoredInvariance, PTL

\* ReplaceWithSummary removes the range it summarises, and NextSeq never comes
\* back into it.
THEOREM RangeIsGone == ReloadSpec => []SummarisedIsGone
<1>1. ReloadIInv => SummarisedIsGone
  BY DEF ReloadIInv, Stored, RangesInv, RangesEmpty, SummarisedIsGone
<1> QED BY <1>1, StoredInvariance, PTL
=============================================================================
