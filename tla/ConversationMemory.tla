------------------------- MODULE ConversationMemory -------------------------
(***************************************************************************)
(* One managed conversation: the encrypted file that holds it, the calls   *)
(* of the orchestrator that add turns to it, and the summary jobs they     *)
(* leave behind in goroutines of their own.                                *)
(*                                                                         *)
(* A call reads the conversation in prepare and appends in commitTurn, a   *)
(* job reads it and replaces messages after an inference of its own.  The  *)
(* lock of the conversation is held for each of these and not in between:  *)
(* the version is the only thing that ties a read to a later write, and a  *)
(* job does not look at it.                                                *)
(*                                                                         *)
(* Here that lock is one, and what is done under it one step; MemoryReload *)
(* adds the second lock that a hot reload brings.                          *)
(*                                                                         *)
(* Texts are left out: a message is known by its request, a summary by the *)
(* messages it was made from.  Token counts are left out: how many of the  *)
(* oldest messages exceed the budget is free.  The message list is the set *)
(* of its messages, since their sequence numbers order it; the order of    *)
(* the summaries is left out.                                              *)
(***************************************************************************)
EXTENDS Integers, Sequences, FiniteSets, SequencesExt

CONSTANTS
  Calls,         \* slots for concurrent calls of Execute and ExecuteStream
  Requests,      \* request ids; a client may send one again
  SeenLimit,     \* how many requests a conversation remembers (256)
  MaxVersion     \* bound: the versions of each conversation created in turn

ASSUME MemoryConstants ==
  /\ IsFiniteSet(Calls)
  /\ SeenLimit \in Nat \ {0}
  /\ MaxVersion \in Seq(Nat \ {0})

VARIABLES
  file,      \* the conversation in <id>.enc, NoFile when there is none
  expired,   \* whether ExpiresAt of the file has passed
  births,    \* history: how often the conversation was created
  call,      \* the call of each slot
  job,       \* the summary job started by the latest call of each slot
  acked      \* history: requests answered with a version of this conversation

vars == <<file, expired, births, call, job, acked>>

Conversation(birth, version) ==
  [birth |-> birth, version |-> version, next |-> 1, msgs |-> {}, sums |-> {}, seen |-> <<>>]

NoFile == Conversation(0, 0)
NoRange == [from |-> 1, to |-> 0]
NoCall == [pc |-> "idle", req |-> "none", conv |-> NoFile, range |-> NoRange]
NoJob == [pc |-> "idle", birth |-> 0, range |-> NoRange, text |-> {}]

Init ==
  /\ file = NoFile /\ expired = FALSE /\ births = 0
  /\ call = [c \in Calls |-> NoCall]
  /\ job = [c \in Calls |-> NoJob]
  /\ acked = {}

\* read: an expired conversation is not found
Readable == file # NoFile /\ ~expired

RoomForVersion == file.version < MaxVersion[file.birth]

\* The not-found branch of GetOrCreate writes a new conversation over whatever
\* expired file is there.
Create ==
  /\ ~Readable
  /\ births < Len(MaxVersion)
  /\ births' = births + 1
  /\ file' = Conversation(births + 1, 1)
  /\ expired' = FALSE
  /\ acked' = {}

-----------------------------------------------------------------------------
(***************************************************************************)
(* A call                                                                  *)
(***************************************************************************)

\* BuildContext: the newest complete messages that fit are used; if one does
\* not fit, everything up to it is proposed for a summary.
Oldest(conv) == {m \in conv.msgs : \A n \in conv.msgs : m.seq <= n.seq}

Ranges(conv) ==
  {NoRange} \cup
  {[from |-> first.seq, to |-> cut.seq] :
     first \in Oldest(conv), cut \in {m \in conv.msgs : m.complete}}

Infer(c, q, conv, range) ==
  call' = [call EXCEPT ![c] = [pc |-> "infer", req |-> q, conv |-> conv, range |-> range]]

\* GetOrCreate in prepare.  A version the client expects is only compared with
\* an existing conversation, and a mismatch ends the call with nothing changed.
Open(c, q) ==
  /\ call[c].pc = "idle"
  /\ \/ /\ Readable
        /\ \E range \in Ranges(file) : Infer(c, q, file, range)
        /\ UNCHANGED <<file, expired, births, acked>>
     \/ /\ Create
        /\ Infer(c, q, Conversation(births + 1, 1), NoRange)
  /\ UNCHANGED job

\* No candidate answered.  (Whatever a runtime did answer is committed, an HTTP
\* error of its own included.)
InferFails(c) ==
  /\ call[c].pc = "infer"
  /\ call' = [call EXCEPT ![c] = NoCall]
  /\ UNCHANGED <<file, expired, births, job, acked>>

VersionMatches(c) == call[c].conv.version = file.version

NotRecorded(seen, q) == seen                \* (mutant) the request is not recorded
Remember(seen, q) == LET all == Append(seen, q) IN
                     IF Len(all) > SeenLimit THEN Tail(all) ELSE all

\* The turn of AppendTurn; an interrupted stream has an incomplete reply.
Appended(q, complete) ==
  [file EXCEPT
     !.msgs = @ \cup {[seq |-> file.next, req |-> q, complete |-> TRUE],
                      [seq |-> file.next + 1, req |-> q, complete |-> complete]},
     !.next = @ + 2,
     !.version = @ + 1,
     !.seen = Remember(@, q)]

AppendTurn(q) ==
  \/ q \in ToSet(file.seen) /\ UNCHANGED file
  \/ /\ q \notin ToSet(file.seen)
     /\ RoomForVersion
     /\ \E complete \in BOOLEAN : file' = Appended(q, complete)

\* scheduleSummary, when the context asked for it (a slot holds one job: bound)
ScheduleSummary(c) ==
  IF call[c].range = NoRange THEN UNCHANGED job
  ELSE /\ job[c] = NoJob
       /\ job' = [job EXCEPT ![c] = [pc |-> "read", birth |-> call[c].conv.birth,
                                      range |-> call[c].range, text |-> {}]]

\* commitTurn
Commit(c) ==
  /\ call[c].pc = "infer"
  /\ Readable /\ VersionMatches(c)
  /\ AppendTurn(call[c].req)
  /\ ScheduleSummary(c)
  /\ acked' = acked \cup {call[c].req}
  /\ call' = [call EXCEPT ![c] = NoCall]
  /\ UNCHANGED <<expired, births>>

\* The conversation is gone or has another version: commitTurn logs it, and the
\* answer goes out without a version.
Conflict(c) == ~Readable \/ ~VersionMatches(c)

CommitFails(c) ==
  /\ call[c].pc = "infer"
  /\ Conflict(c)
  /\ call' = [call EXCEPT ![c] = NoCall]
  /\ UNCHANGED <<file, expired, births, job, acked>>

-----------------------------------------------------------------------------
(***************************************************************************)
(* A summary job                                                           *)
(***************************************************************************)
CoversButLast(range, m) == range.from <= m.seq /\ m.seq < range.to   \* (mutant)
Covers(range, m) == range.from <= m.seq /\ m.seq <= range.to

\* (mutant) the first message is not read
TextAfterFirst(range) == {m \in file.msgs : Covers(range, m) /\ m.complete /\ m.seq > range.from}

\* What the job gives to the model: the complete messages of the range.
Text(range) == {m \in file.msgs : Covers(range, m) /\ m.complete}

\* GetOrCreate; a job that finds no text ends here.
JobRead(c) ==
  /\ job[c].pc = "read"
  /\ \/ /\ Readable
        /\ job' = [job EXCEPT ![c] =
                     IF Text(@.range) = {} THEN NoJob
                     ELSE [@ EXCEPT !.pc = "infer", !.text = Text(job[c].range)]]
        /\ UNCHANGED <<file, expired, births, acked>>
     \/ Create /\ job' = [job EXCEPT ![c] = NoJob]
  /\ UNCHANGED call

\* (mutant) the messages are replaced under the same version
Unversioned(j) ==
  [file EXCEPT !.msgs = {m \in @ : ~Covers(j.range, m)},
               !.sums = @ \cup {[range |-> j.range, birth |-> j.birth, text |-> j.text]}]

Summarised(j) ==
  [file EXCEPT !.msgs = {m \in @ : ~Covers(j.range, m)},
               !.sums = @ \cup {[range |-> j.range, birth |-> j.birth, text |-> j.text]},
               !.version = @ + 1]

\* ReplaceWithSummary
JobReplace(c) ==
  /\ job[c].pc = "infer"
  /\ Readable
  /\ RoomForVersion
  /\ file' = Summarised(job[c])
  /\ job' = [job EXCEPT ![c] = NoJob]
  /\ UNCHANGED <<expired, births, call, acked>>

\* The inference fails or runs out of its two minutes, or the conversation is
\* no longer there; the messages stay.
JobFails(c) ==
  /\ job[c].pc # "idle"
  /\ job' = [job EXCEPT ![c] = NoJob]
  /\ UNCHANGED <<file, expired, births, call, acked>>

-----------------------------------------------------------------------------
(***************************************************************************)
(* Retention and restarts                                                  *)
(***************************************************************************)
\* The last conversation of the instance does not expire (bound).
Expire ==
  /\ Readable
  /\ births < Len(MaxVersion)
  /\ expired' = TRUE
  /\ UNCHANGED <<file, births, call, job, acked>>

SweepExpired ==
  /\ expired
  /\ file' = NoFile /\ expired' = FALSE
  /\ acked' = {}
  /\ UNCHANGED <<births, call, job>>

\* The process dies: its calls and jobs are gone, the file stays (write renames
\* a complete temporary file over it).
Restart ==
  /\ call' = [c \in Calls |-> NoCall]
  /\ job' = [c \in Calls |-> NoJob]
  /\ UNCHANGED <<file, expired, births, acked>>

Next ==
  \/ \E c \in Calls :
       \/ \E q \in Requests : Open(c, q)
       \/ InferFails(c) \/ Commit(c) \/ CommitFails(c)
       \/ JobRead(c) \/ JobReplace(c) \/ JobFails(c)
  \/ Expire \/ SweepExpired \/ Restart

Spec == Init /\ [][Next]_vars

-----------------------------------------------------------------------------
(***************************************************************************)
(* What the conversation tells, and the type invariant                     *)
(***************************************************************************)

\* The summaries made of this conversation, and what it tells a model.
Here == {s \in file.sums : s.birth = file.birth}
Told == file.msgs \cup UNION {s.text : s \in Here}

\* The type invariant: sequence numbers are below NextSeq and distinct, a version
\* exists as soon as the file does, and no more requests are remembered than
\* SeenLimit.
TypeOK ==
  /\ births \in 0..Len(MaxVersion) /\ file.birth \in {0, births}
  /\ file.version \in 0..(IF file = NoFile THEN 0 ELSE MaxVersion[births])
  /\ \A m \in file.msgs : /\ m.seq \in 1..(file.next - 1) /\ m.req \in Requests
                          /\ \A n \in file.msgs : m.seq = n.seq => m = n
  /\ Len(file.seen) <= SeenLimit
  /\ (file = NoFile) <=> (file.version = 0)
  /\ expired => file # NoFile
  /\ \A c \in Calls : /\ call[c].pc \in {"idle", "infer"} /\ call[c].conv.birth <= births
                      /\ job[c].pc \in {"idle", "read", "infer"} /\ job[c].birth <= births

\* The turn a message was appended in.
TurnOf(m) == (m.seq + 1) \div 2
=============================================================================
