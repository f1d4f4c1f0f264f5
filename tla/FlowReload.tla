------------------------------ MODULE FlowReload ------------------------------
(***************************************************************************)
(* The flow store across the hot reloads of the gateway.                   *)
(*                                                                         *)
(* Every change of the configuration makes a new platform, which opens a   *)
(* FlowStore of its own: it reads the metas into a memory and has a lock   *)
(* of its own.  The store before it answers until SetWorkflowService has   *)
(* put the new service in its place, and the calls that hold it then end   *)
(* on it.  Neither store learns what the other one does to the directory   *)
(* that they share.                                                        *)
(*                                                                         *)
(* A call that only reads, or that is past its use of the memory, does no  *)
(* harm on the store before.  One that writes, or that binds a run to what *)
(* the newer memory has differently, does, and nothing is promised from    *)
(* then on (crossed).  The model ends there: two locks over one directory  *)
(* no longer make an operation one step.                                   *)
(***************************************************************************)
EXTENDS FlowStore

CONSTANT Reloads   \* whether the configuration changes while the process runs

ASSUME ReloadConstants == Reloads \in BOOLEAN

VARIABLES
  old,      \* FlowStore.metas of the store before
  late,     \* locals of the calls that are on the store before
  crossed   \* history: the store before was used where only the newest may be

reloadVars == <<vars, old, late, crossed>>

\* The store before, over the same files.
Old == INSTANCE FlowStore WITH mem <- old, client <- late

NoMetas == [f \in Flows |-> None]
NoCalls == [c \in Clients |-> Idle]

ReloadInit == Init /\ old = NoMetas /\ late = NoCalls /\ crossed = FALSE

\* A slot holds one call, on either store.
OneCallEach == \A c \in Clients : client'[c].pc = "idle" \/ late'[c].pc = "idle"

-----------------------------------------------------------------------------
\* A step on the newest store; a crash ends the store before as well.
NewestStep ==
  /\ Next
  /\ IF mode' = "down" THEN old' = NoMetas /\ late' = NoCalls ELSE UNCHANGED <<old, late>>
  /\ OneCallEach
  /\ UNCHANGED crossed

\* Call c is bound by a memory that the newest store does not share.
BoundByOld(c) ==
  /\ late[c].pc = "idle" /\ late'[c].pc = "resolved"
  /\ old[late'[c].flow] # mem[late'[c].flow]

Crosses == files' # files \/ answers' # answers \/ \E c \in Clients : BoundByOld(c)

\* A step on the store before.
LateStep ==
  /\ Old!CallStep
  /\ IF mode' = "down" THEN mem' = NoMetas /\ client' = NoCalls ELSE UNCHANGED <<mem, client>>
  /\ OneCallEach
  /\ crossed' = Crosses

\* applyPlatform: a new store reads the directory; if it cannot be opened the workflow
\* service is taken away, and no later reload does better with the same files.
\* (Bound: the calls on the store before the last have ended.)
Reload ==
  /\ Reloads
  /\ mode = "up"
  /\ late = NoCalls
  /\ old' = mem /\ late' = client /\ client' = NoCalls
  /\ \/ Readable /\ mem' = meta /\ UNCHANGED mode
     \/ ~Readable /\ mem' = NoMetas /\ mode' = "broken"
  /\ UNCHANGED <<files, answers, executed, crossed>>

ReloadNext == ~crossed /\ (NewestStep \/ LateStep \/ Reload)

ReloadSpec == ReloadInit /\ [][ReloadNext]_reloadVars

ReloadTypeOK ==
  /\ TypeOK
  /\ old \in [Flows -> FlowMeta \cup {None}]
  /\ late \in [Clients -> ClientRecord]
  /\ crossed \in BOOLEAN

-----------------------------------------------------------------------------
(***************************************************************************)
(* Safety                                                                  *)
(***************************************************************************)

\* README 156: a published version is immutable and runs pin it.  Whatever
\* crashes, failed writes, damage and reloads come between, two runs of one version
\* of a flow execute the same definition, and one that was answered as published is
\* executed as it was answered.
OneContentPerVersion ==
  ~crossed =>
    \A e \in executed, o \in executed \cup published :
      e.flow = o.flow /\ e.version = o.version => e.body = o.body

\* PublishFlow: what is frozen is what the call validated, although the draft is
\* open to others between the two critical sections; the revision ties them
\* together as long as draft and meta agree on it when the draft is read and both
\* sections are those of the newest store.
FrozenAsValidated ==
  [][~crossed' =>
       \A c \in Clients, p \in published' \ published :
         client[c].pc = "validated" /\ client'[c].pc = "idle" /\ client[c].seen # None =>
           p.body = client[c].seen]_reloadVars

\* What was answered survives: after any crash, failed write, reopening and reload,
\* an accepted draft has not gone back, a published version is there and a retired
\* flow is retired, as long as the store before has not answered or written
\* anything after the newest had read the directory.
AnsweredSurvives ==
  mode = "up" /\ ~crossed =>
    /\ \A a \in accepted : mem[a.flow] # None /\ mem[a.flow].rev >= a.rev
    /\ \A p \in published : mem[p.flow].latest >= p.version
    /\ \A f \in retired : mem[f].status = "retired"

\* An alias has one owner, in memory and on disk, as long as no store before has
\* written after the newest had read the directory: so it is not a second owner
\* that keeps a store from opening (store.go 101) but a flow that CreateFlow left
\* half written.
AliasHasOneOwner ==
  ~crossed =>
    /\ \A f, g \in Registered : f # g => mem[f].alias # mem[g].alias
    /\ \A f, g \in Flows : f # g /\ meta[f] # None /\ meta[g] # None => meta[f].alias # meta[g].alias
    /\ mode = "broken" => \E f \in dir : meta[f] = None

-----------------------------------------------------------------------------
(***************************************************************************)
(* What the stores promise (FlowContract)                                  *)
(***************************************************************************)

\* The version a StartRun call is bound to, between its two critical sections.
Bound(k) == IF k.pc = "resolved" THEN [flow |-> k.flow, version |-> k.n] ELSE None

BoundCalls == [c \in Clients |-> IF late[c].pc = "idle" THEN Bound(client[c]) ELSE Bound(late[c])]

Contract == INSTANCE FlowContract WITH calls <- BoundCalls, lapsed <- crossed

\* The answers of the stores are those of the contract: the optimistic lock, the
\* write order and the checksum keep it through every crash, failed write, damaged
\* file and reload, until the store before is used where only the newest may be.
ImplementsFlowContract == Contract!ContractSpec
=============================================================================
