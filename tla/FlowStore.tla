------------------------------ MODULE FlowStore ------------------------------
(***************************************************************************)
(* The flows of platform/workflow: drafts under an optimistic lock,        *)
(* immutable published versions, and the files that hold them.             *)
(*                                                                         *)
(* FlowStore.mu is held for one operation, its file writes included, so an *)
(* operation is one step for everybody but the disk: it may fail at any of *)
(* its writes, and the process may die between two of them.  PublishFlow   *)
(* and StartRun take the lock twice; anything may happen in between.  A    *)
(* write goes to a temporary file and is renamed, so a file holds its old  *)
(* or its new content.                                                     *)
(*                                                                         *)
(* Calls that are refused change nothing and have no action.  A definition *)
(* is abstracted to its body; UpdateFlow refuses one with another alias.   *)
(*                                                                         *)
(* This is one store, with its memory and its lock.  FlowReload sets two   *)
(* of them over one directory, as every hot reload does, and states what   *)
(* is promised then.                                                       *)
(***************************************************************************)
EXTENDS Integers, FiniteSets

CONSTANTS
  Flows,              \* flow ids, drawn at random when a flow is created
  Aliases,            \* public names of flows
  Bodies,             \* contents of a definition
  GoodBodies,         \* those that ValidateDefinition accepts
  Clients,            \* PublishFlow and StartRun calls
  None,               \* no value
  MaxFlows,           \* workflows.max_flows, 0 = no limit
  MaxRevision,        \* bound of the model: revisions of a draft
  MaxVersion,         \* bound of the model: versions of a flow
  DiskMayFail,        \* whether a write may return an error
  ProcessMayCrash,    \* whether the process may die and be started again
  FilesMayBeDamaged   \* whether somebody may alter a published file

ASSUME FlowConstants ==
  /\ GoodBodies \subseteq Bodies
  /\ None \notin Bodies \cup Flows \cup Aliases
  /\ MaxFlows \in Nat
  /\ MaxRevision \in Nat \ {0}
  /\ MaxVersion \in Nat \ {0}
  /\ {DiskMayFail, ProcessMayCrash, FilesMayBeDamaged} \subseteq BOOLEAN

Revisions == 1..MaxRevision
Versions == 1..MaxVersion
FlowStatus == {"draft", "published", "suspended", "retired"}

FlowMeta == [alias : Aliases, status : FlowStatus, rev : Revisions, latest : 0..MaxVersion]
Draft == [rev : Revisions, body : Bodies]
FlowVersion == [body : Bodies, sum : Bodies]   \* sum: the body the checksum was taken of

FlowCall == [flow : Flows, version : Versions]   \* a call bound to a version

ASSUME NoneIsNoContent == None \notin FlowMeta \cup Draft \cup FlowVersion \cup FlowCall

VARIABLES
  mode,       \* the process: up, down, or refusing to open the store
  mem,        \* FlowStore.metas: flow -> meta in memory, or None
  dir,        \* directories flows/<id> on disk
  draft,      \* draft.json
  meta,       \* meta.json
  ver,        \* v<N>.json
  client,     \* locals of the calls
  accepted,   \* history: drafts answered by CreateFlow and UpdateFlow
  published,  \* history: versions answered by PublishFlow
  retired,    \* history: flows whose retirement was answered
  executed    \* history: versions that StartRun took to execution

files == <<dir, draft, meta, ver>>
answers == <<accepted, published, retired>>
vars == <<mode, mem, files, client, answers, executed>>

Idle == [pc |-> "idle", flow |-> None, n |-> 0, seen |-> None]
Registered == {f \in Flows : mem[f] # None}
Owners(a) == {f \in Registered : mem[f].alias = a}   \* FlowStore.alias, kept along with metas

Init ==
  /\ mode = "up"
  /\ mem = [f \in Flows |-> None]
  /\ dir = {}
  /\ draft = [f \in Flows |-> None]
  /\ meta = [f \in Flows |-> None]
  /\ ver = [f \in Flows |-> [v \in Versions |-> None]]
  /\ client = [c \in Clients |-> Idle]
  /\ accepted = {} /\ published = {} /\ retired = {}
  /\ executed = {}

\* How an operation ends besides well: at a failed write it returns an error;
\* at a crash the memory and the calls in flight are gone.
Fails ==
  /\ DiskMayFail
  /\ UNCHANGED <<mode, answers>>

Dies ==
  /\ ProcessMayCrash
  /\ mode' = "down"
  /\ mem' = [f \in Flows |-> None]
  /\ client' = [c \in Clients |-> Idle]
  /\ UNCHANGED answers

-----------------------------------------------------------------------------
(***************************************************************************)
(* CreateFlow: directory, draft.json, meta.json, then memory               *)
(***************************************************************************)
AliasIgnored(a) == TRUE   \* (mutant) the alias table is not consulted
AliasFree(a) == Owners(a) = {}

CreateWrites(f, a, b, n) ==
  /\ dir' = IF n >= 1 THEN dir \cup {f} ELSE dir
  /\ draft' = IF n >= 2 THEN [draft EXCEPT ![f] = [rev |-> 1, body |-> b]] ELSE draft
  /\ meta' = IF n = 3
             THEN [meta EXCEPT ![f] = [alias |-> a, status |-> "draft", rev |-> 1, latest |-> 0]]
             ELSE meta
  /\ UNCHANGED <<ver, executed>>

Create(f, a, b) ==
  /\ mode = "up"
  /\ f \notin dir
  /\ MaxFlows > 0 => Cardinality(Registered) < MaxFlows
  /\ AliasFree(a)
  /\ \/ /\ CreateWrites(f, a, b, 3)
        /\ mem' = [mem EXCEPT ![f] = meta'[f]]
        /\ accepted' = accepted \cup {[flow |-> f, rev |-> 1, body |-> b]}
        /\ UNCHANGED <<mode, client, published, retired>>
     \/ \E n \in 0..2 : CreateWrites(f, a, b, n) /\ Fails /\ UNCHANGED <<mem, client>>
     \/ \E n \in 0..3 : CreateWrites(f, a, b, n) /\ Dies

(***************************************************************************)
(* UpdateDraft: draft.json, the revision in memory, meta.json              *)
(***************************************************************************)
AnyRevision(f, expect) == TRUE   \* (mutant) the If-Match revision is not compared
RevisionMatches(f, expect) == mem[f].rev = expect

\* What UpdateDraft makes of f's meta.
Revised(f, expect) == [mem[f] EXCEPT !.rev = expect + 1]

DraftWrites(f, expect, b, n) ==
  /\ draft' = IF n >= 1 THEN [draft EXCEPT ![f] = [rev |-> expect + 1, body |-> b]] ELSE draft
  /\ meta' = IF n = 2 THEN [meta EXCEPT ![f] = Revised(f, expect)] ELSE meta
  /\ UNCHANGED <<dir, ver, executed>>

UpdateDraft(f, expect, b) ==
  /\ f \in Registered
  /\ mem[f].status # "retired"
  /\ RevisionMatches(f, expect)
  /\ expect < MaxRevision
  /\ \/ /\ DraftWrites(f, expect, b, 2)
        /\ mem' = [mem EXCEPT ![f] = Revised(f, expect)]
        /\ accepted' = accepted \cup {[flow |-> f, rev |-> expect + 1, body |-> b]}
        /\ UNCHANGED <<mode, client, published, retired>>
     \/ DraftWrites(f, expect, b, 0) /\ Fails /\ UNCHANGED <<mem, client>>
     \/ /\ DraftWrites(f, expect, b, 1) /\ Fails
        /\ mem' = [mem EXCEPT ![f] = Revised(f, expect)]
        /\ UNCHANGED client
     \/ \E n \in 0..2 : DraftWrites(f, expect, b, n) /\ Dies

(***************************************************************************)
(* PublishFlow: GetDraft and validation, then Publish under the lock again *)
(***************************************************************************)

\* seen is a history: the body that was validated, when the revision of the
\* draft it was read from is that of the meta.
GetDraft(c, f) ==
  /\ client[c].pc = "idle"
  /\ f \in Registered
  /\ draft[f].body \in GoodBodies
  /\ client' = [client EXCEPT ![c] =
       [pc |-> "validated", flow |-> f, n |-> draft[f].rev,
        seen |-> IF draft[f].rev = mem[f].rev THEN draft[f].body ELSE None]]
  /\ UNCHANGED <<mode, mem, files, answers, executed>>

VersionIgnored(f, v) == TRUE   \* (mutant) an existing file is replaced
VersionFree(f, v) == ver[f][v] = None

\* What Publish makes of f's meta.
Released(f) == [mem[f] EXCEPT !.latest = @ + 1, !.status = "published"]

\* (mutant) the version is answered before the meta is written
VersionOnly(f, n) ==
  /\ ver' = IF n >= 1 THEN [ver EXCEPT ![f] = [@ EXCEPT ![mem[f].latest + 1] =
                            [body |-> draft[f].body, sum |-> draft[f].body]]] ELSE ver
  /\ UNCHANGED <<dir, draft, meta, executed>>

PublishWrites(f, n) ==
  /\ ver' = IF n >= 1 THEN [ver EXCEPT ![f] = [@ EXCEPT ![mem[f].latest + 1] =
                            [body |-> draft[f].body, sum |-> draft[f].body]]] ELSE ver
  /\ meta' = IF n = 2 THEN [meta EXCEPT ![f] = Released(f)] ELSE meta
  /\ UNCHANGED <<dir, draft, executed>>

Publish(c) ==
  LET f == client[c].flow IN
  /\ client[c].pc = "validated"
  /\ mem[f].status # "retired"
  /\ RevisionMatches(f, client[c].n)
  /\ mem[f].latest < MaxVersion
  /\ VersionFree(f, mem[f].latest + 1)
  /\ \/ /\ PublishWrites(f, 2)
        /\ mem' = [mem EXCEPT ![f] = Released(f)]
        /\ client' = [client EXCEPT ![c] = Idle]
        /\ published' = published \cup
             {[flow |-> f, version |-> mem[f].latest + 1, body |-> draft[f].body]}
        /\ UNCHANGED <<mode, accepted, retired>>
     \/ PublishWrites(f, 0) /\ Fails /\ UNCHANGED mem /\ client' = [client EXCEPT ![c] = Idle]
     \/ /\ PublishWrites(f, 1) /\ Fails
        /\ mem' = [mem EXCEPT ![f] = Released(f)]
        /\ client' = [client EXCEPT ![c] = Idle]
     \/ \E n \in 0..2 : PublishWrites(f, n) /\ Dies

\* Publish refuses: retired meanwhile, another revision, or the file exists.
PublishRefused(c) ==
  LET f == client[c].flow IN
  /\ client[c].pc = "validated"
  /\ \/ mem[f].status = "retired"
     \/ ~RevisionMatches(f, client[c].n)
     \/ mem[f].latest < MaxVersion /\ ~VersionFree(f, mem[f].latest + 1)
  /\ client' = [client EXCEPT ![c] = Idle]
  /\ UNCHANGED <<mode, mem, files, answers, executed>>

(***************************************************************************)
(* SetStatus: memory, then meta.json                                       *)
(***************************************************************************)
Settable(f, status) ==
  \/ status \in {"suspended", "published"} /\ mem[f].latest > 0 /\ mem[f].status # "retired"
  \/ status = "retired"

StatusWrites(f, status, n) ==
  /\ meta' = IF n = 1 THEN [meta EXCEPT ![f] = [mem[f] EXCEPT !.status = status]] ELSE meta
  /\ UNCHANGED <<dir, draft, ver, executed>>

SetStatus(f, status) ==
  /\ f \in Registered
  /\ Settable(f, status)
  /\ \/ /\ StatusWrites(f, status, 1)
        /\ mem' = [mem EXCEPT ![f].status = status]
        /\ retired' = IF status = "retired" THEN retired \cup {f} ELSE retired
        /\ UNCHANGED <<mode, client, accepted, published>>
     \/ /\ StatusWrites(f, status, 0) /\ Fails
        /\ mem' = [mem EXCEPT ![f].status = status]
        /\ UNCHANGED client
     \/ \E n \in 0..1 : StatusWrites(f, status, n) /\ Dies

(***************************************************************************)
(* StartRun: ResolveAlias, then GetVersion of the latest or a named version *)
(***************************************************************************)
ResolveAlias(c, a, asked) ==
  /\ client[c].pc = "idle"
  /\ \E f \in Owners(a) :
       /\ mem[f].status = "published" /\ mem[f].latest > 0
       /\ client' = [client EXCEPT ![c] =
            [Idle EXCEPT !.pc = "resolved", !.flow = f,
                         !.n = IF asked = 0 THEN mem[f].latest ELSE asked]]
  /\ UNCHANGED <<mode, mem, files, answers, executed>>

\* GetVersion verifies the checksum of what it read.
Intact(file) == file.sum = file.body

GetVersion(c) ==
  LET file == ver[client[c].flow][client[c].n] IN
  /\ client[c].pc = "resolved"
  /\ client' = [client EXCEPT ![c] = Idle]
  /\ executed' = IF file # None /\ Intact(file)
                 THEN executed \cup {[flow |-> client[c].flow, version |-> client[c].n,
                                      body |-> file.body]}
                 ELSE executed
  /\ UNCHANGED <<mode, mem, files, answers>>

-----------------------------------------------------------------------------
(***************************************************************************)
(* The process and the disk                                                *)
(***************************************************************************)

\* OpenFlowStore fails on a directory without meta.json or on a second owner
\* of an alias; else the memory is what the metas say.
Readable ==
  /\ \A f \in dir : meta[f] # None
  /\ \A f, g \in dir : f # g => meta[f].alias # meta[g].alias

Reopen ==
  /\ mode = "down"
  /\ \/ Readable /\ mode' = "up" /\ mem' = meta
     \/ ~Readable /\ mode' = "broken" /\ UNCHANGED mem
  /\ UNCHANGED <<files, client, answers, executed>>

\* A published file is altered from outside; its checksum stays.
Damage(f, v, b) ==
  /\ FilesMayBeDamaged
  /\ ver[f][v] # None
  /\ ver' = [ver EXCEPT ![f] = [@ EXCEPT ![v] = [body |-> b, sum |-> ver[f][v].sum]]]
  /\ UNCHANGED <<mode, mem, dir, draft, meta, client, answers, executed>>

\* A step of one of the calls.
CallStep ==
  \/ \E f \in Flows, a \in Aliases, b \in Bodies : Create(f, a, b)
  \/ \E f \in Flows, expect \in Revisions, b \in Bodies : UpdateDraft(f, expect, b)
  \/ \E c \in Clients, f \in Flows : GetDraft(c, f)
  \/ \E c \in Clients : Publish(c) \/ PublishRefused(c) \/ GetVersion(c)
  \/ \E f \in Flows, status \in FlowStatus : SetStatus(f, status)
  \/ \E c \in Clients, a \in Aliases, asked \in {0} \cup Versions : ResolveAlias(c, a, asked)

Next ==
  \/ CallStep
  \/ Reopen
  \/ \E f \in Flows, v \in Versions, b \in Bodies : Damage(f, v, b)

-----------------------------------------------------------------------------
ClientRecord == [pc : {"idle", "validated", "resolved"}, flow : Flows \cup {None},
                 n : 0..(MaxRevision + MaxVersion), seen : Bodies \cup {None}]

TypeOK ==
  /\ mode \in {"up", "down", "broken"}
  /\ mem \in [Flows -> FlowMeta \cup {None}]
  /\ dir \subseteq Flows
  /\ draft \in [Flows -> Draft \cup {None}]
  /\ meta \in [Flows -> FlowMeta \cup {None}]
  /\ ver \in [Flows -> [Versions -> FlowVersion \cup {None}]]
  /\ client \in [Clients -> ClientRecord]
  /\ accepted \subseteq [flow : Flows, rev : Revisions, body : Bodies]
  /\ published \subseteq [flow : Flows, version : Versions, body : Bodies]
  /\ retired \subseteq Flows
  /\ executed \subseteq [flow : Flows, version : Versions, body : Bodies]

=============================================================================
