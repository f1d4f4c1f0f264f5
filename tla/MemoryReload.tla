----------------------------- MODULE MemoryReload -----------------------------
(***************************************************************************)
(* The conversation across the hot reloads of the gateway.                 *)
(*                                                                         *)
(* The lock of a conversation belongs to a Store.  Every change of the     *)
(* configuration makes a new platform with a Store of its own over the     *)
(* same files, while the calls and summary jobs of the platform before go  *)
(* on with theirs.  Two sections that read, decide and write, one in each  *)
(* Store, may then overlap: the second has read the file before the first  *)
(* writes it, and writes over it (torn).  Nothing is promised from then    *)
(* on, and the model ends there.                                           *)
(*                                                                         *)
(* A section that only reads is one step at its read, and one that is not  *)
(* overlapped by a write is one step at its write.  So which Store a call  *)
(* or a job is on is left out, and so is a section that ends unharmed.     *)
(***************************************************************************)
EXTENDS ConversationMemory

CONSTANT HotReload   \* whether the configuration changes while the process runs

ASSUME ReloadConstants == HotReload \in BOOLEAN

VARIABLES
  inside,        \* whether a section of another Store is between read and write
  base, lapsed,  \* the file and its expiry as that section has read them
  torn           \* history: it has written over what was written since

reloadVars == <<vars, inside, base, lapsed, torn>>

\* The section that is inside, which sees what it has read.
Late == INSTANCE ConversationMemory WITH file <- base, expired <- lapsed

Outside == inside' = FALSE /\ base' = NoFile /\ lapsed' = FALSE

ReloadInit == Init /\ inside = FALSE /\ base = NoFile /\ lapsed = FALSE /\ torn = FALSE

\* A step as under one lock.  If it writes, a section of another Store may have
\* read the file before (bound: that section writes next, or harms nothing).
Step ==
  /\ Next
  /\ \/ Outside
     \/ /\ HotReload /\ file' # file
        /\ inside' = TRUE /\ base' = file /\ lapsed' = expired
  /\ UNCHANGED torn

\* It ends with a write of its own.  (It is not of the very call or job that wrote
\* in between: to create, a section has found nothing, and to change, something.)
SectionWrites ==
  /\ inside
  /\ \/ \E c \in Calls :
          \/ \E q \in Requests : Late!Open(c, q)
          \/ Late!Commit(c) \/ Late!JobRead(c) \/ Late!JobReplace(c)
     \/ Late!SweepExpired
  /\ base' # base
  /\ file' = base' /\ expired' = lapsed'
  /\ inside' = FALSE /\ torn' = TRUE

ReloadNext == ~torn /\ (Step \/ SectionWrites)

ReloadSpec == ReloadInit /\ [][ReloadNext]_reloadVars

ReloadTypeOK ==
  /\ ~torn => TypeOK
  /\ inside \in BOOLEAN /\ torn \in BOOLEAN
  /\ inside => HotReload
  /\ ~inside /\ ~torn => base = NoFile /\ lapsed = FALSE

-----------------------------------------------------------------------------
(***************************************************************************)
(* Properties                                                              *)
(***************************************************************************)

\* A turn is appended to the conversation its answer was made from: no other turn
\* and no summary came in between (the optimistic lock of AppendTurn).  The one
\* exception: AppendTurn compares only the version, and versions start again at 1
\* when an expired conversation is created anew, so one that has come to the same
\* version is taken for the conversation of before.
SameConversation(conv) == conv = file
CreatedAnew(conv) == conv.birth < file.birth /\ conv.version = file.version

TurnsBuiltOnHistory ==
  [][\A c \in Calls : ~torn' /\ Commit(c) /\ file' # file =>
       SameConversation(call[c].conv) \/ CreatedAnew(call[c].conv)]_reloadVars

\* A request that is sent again, after its answer was lost or by two callers at
\* once, is not stored again within the next SeenLimit turns (SeenRequests), as
\* long as sections of two Stores have not torn the file.
StoredOnce ==
  ~torn =>
    \A m, n \in Told :
      m.req = n.req /\ TurnOf(m) < TurnOf(n) => TurnOf(n) - TurnOf(m) > SeenLimit

\* A request that was answered with a version of this conversation is still in
\* it, as its message or in the text a summary was made from, however jobs and
\* calls interleave.  Two things break it: a section of another Store that writes
\* over it, and a summary of an earlier conversation of the same id, which
\* ReplaceWithSummary takes in, as it looks at neither version nor creation.
AckedIsKept ==
  ~torn /\ Here = file.sums =>
    \A q \in acked : \E m \in Told : m.req = q /\ m.complete

\* What a summary of this conversation covers is no longer sent as messages too:
\* the replacement removes its whole range, and nothing is numbered into it later
\* (as long as sections of two Stores have not torn the file).
SummarisedIsGone ==
  ~torn =>
    \A s \in Here : \A m \in file.msgs : ~(s.range.from <= m.seq /\ m.seq <= s.range.to)
=============================================================================
