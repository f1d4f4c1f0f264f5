----------------------------- MODULE ConfigSync -----------------------------
(***************************************************************************)
(* Where a gateway's configuration comes from and what becomes of it:      *)
(* gateway.yaml, edited through the administration API; generations that   *)
(* the control-plane agent fetches, verifies and stores, or that           *)
(* "config import" stores on a gateway without control plane; and a        *)
(* restart, which puts a stored generation over gateway.yaml.  SetConfig   *)
(* swaps the configuration under a lock and rebuilds the platform from it  *)
(* outside of that lock.  The process may crash between any two steps and  *)
(* any write of a file may fail.                                           *)
(*                                                                         *)
(* A configuration is the generation it was derived from and the virtual   *)
(* keys in it; an unreadable config-current.json acts like an absent one.  *)
(***************************************************************************)
EXTENDS Integers, FiniteSets, FiniteSetsExt

CONSTANTS
    Modes,       \* deployments to look at: "connected" (an agent), "airgapped" (imports)
    MaxVersion,  \* bound: generations the control plane signs
    Bad,         \* generations whose digest, signature or content does not verify
    Admins,      \* administration calls under way at most
    Keys,        \* ids of virtual keys
    LkgKeep,     \* lkgKeep: generations kept besides the current one
    MaxFaults    \* bound: crashes, failed writes, lost answers and lost files

ASSUME ConfigAssumption ==
    /\ Modes \subseteq {"connected", "airgapped"}
    /\ MaxVersion \in Nat /\ LkgKeep \in Nat /\ MaxFaults \in Nat
    /\ Bad \subseteq 1..MaxVersion

VARIABLES
    mode,        \* is LYKURO_CONTROL_PLANE_URL set
    latest,      \* control plane: the active generation, 0 for none
    spent,       \* control plane: the one-time install token was used
    used,        \* disk: the token file was renamed to .used
    credential,  \* disk: agent-credential exists
    gens,        \* disk: the config-v<N>.json files
    current,     \* disk: generation in config-current.json, 0 if absent
    marker,      \* disk: config-current.version, 0 if absent or empty
    yaml,        \* disk: gateway.yaml
    up,          \* does "serve" run
    cfg,         \* Server.cfg
    platform,    \* the configuration the platform backend was built from
    applied,     \* Agent.applied
    writer,      \* [pc, v, force] of the agent goroutine and of the import command
    admin,       \* [pc, cfg] of each administration call
    reached,     \* history: the newest generation that was ever in effect
    overlapped,  \* history: the last SetConfig came while the hook of another was pending
    faults       \* crashes and failures so far

disk == <<credential, gens, current, marker>>
vars == <<mode, latest, spent, used, disk, yaml, up, cfg, platform, applied, writer, admin, reached, overlapped, faults>>

Versions == 1..MaxVersion
Config   == [base: 0..MaxVersion, keys: SUBSET Keys]
Writers  == {"agent", "import"}
Packaged == [base |-> 0, keys |-> {}]
Idle     == [pc |-> "idle", cfg |-> Packaged]
Off      == [pc |-> "off", v |-> 0, force |-> FALSE]

\* The content of a generation: the control plane hands out every key.
Generation(v) == [base |-> v, keys |-> Keys]

\* currentGenerationVersion: the highest generation that has a file.
currentGenerationVersion == IF gens = {} THEN 0 ELSE Max(gens)

HighestFile == currentGenerationVersion   \* (mutant) the marker is not looked at

\* currentAppliedVersion: what a restart takes the stored generation to be.
currentAppliedVersion == IF marker > 0 THEN marker ELSE currentGenerationVersion

Init ==
    /\ mode \in Modes
    /\ latest = 0 /\ spent = FALSE /\ used = FALSE
    /\ credential = FALSE /\ gens = {} /\ current = 0 /\ marker = 0
    /\ yaml = Packaged
    /\ up = FALSE /\ cfg = Packaged /\ platform = Packaged /\ applied = 0
    /\ writer = [p \in Writers |-> Off]
    /\ admin = [a \in Admins |-> Idle]
    /\ reached = 0 /\ overlapped = FALSE /\ faults = 0

\* Some SetConfig has assigned its configuration and not run its hook yet.
HookPending == writer["agent"].pc = "hook" \/ \E a \in Admins : admin[a].pc = "hook"

Fault == faults < MaxFaults /\ faults' = faults + 1
Goto(p, pc) == writer' = [writer EXCEPT ![p].pc = pc]

----------------------------------------------------------------------------
\* The control plane (not in this repository) signs and activates a newer generation.
Publish ==
    /\ latest' \in {v \in Versions : v > latest}
    /\ UNCHANGED <<mode, spent, used, disk, yaml, up, cfg, platform, applied, writer, admin, reached, overlapped, faults>>

AlwaysRegister == "register"                \* (mutant) the credential on disk is not looked at
Registered == IF credential THEN "loop" ELSE "register"

\* runServe: gateway.yaml is loaded and the platform built from it; then a stored
\* generation, if there is one, is put over it, by LoadStoredConfig or, without
\* control plane, directly; then the agent registers or starts its loop.
Boot ==
    /\ ~up /\ up' = TRUE
    /\ cfg' = IF current = 0 THEN yaml ELSE Generation(current)
    /\ platform' = cfg'
    /\ reached' = Max({reached, current}) /\ overlapped' = FALSE
    /\ applied' = IF mode = "connected" /\ current # 0 THEN currentAppliedVersion ELSE 0
    /\ Goto("agent", IF mode = "airgapped" THEN "off" ELSE Registered)
    /\ UNCHANGED <<mode, latest, spent, used, disk, yaml, admin, faults>>

AdminsGone == [a \in Admins |-> Idle]

\* The serving process ends at any moment; the disk keeps what was written.
Crash ==
    /\ up /\ Fault
    /\ up' = FALSE
    /\ cfg' = Packaged /\ platform' = Packaged /\ applied' = 0
    /\ writer' = [writer EXCEPT !["agent"] = Off]
    /\ admin' = AdminsGone
    /\ UNCHANGED <<mode, latest, spent, used, disk, yaml, reached, overlapped>>

\* The import command is killed.
ImportKilled ==
    /\ writer["import"].pc # "off" /\ Fault
    /\ writer' = [writer EXCEPT !["import"] = Off]
    /\ UNCHANGED <<mode, latest, spent, used, disk, yaml, up, cfg, platform, applied, admin, reached, overlapped>>

\* config-current.json is lost or damaged while nobody writes.
CurrentLost ==
    /\ current # 0 /\ ~up /\ writer["import"].pc = "off" /\ Fault
    /\ current' = 0
    /\ UNCHANGED <<mode, latest, spent, used, credential, gens, marker, yaml, up, cfg, platform, applied, writer, admin, reached, overlapped>>

----------------------------------------------------------------------------
(* Register: the token is spent at the control plane before anything is on disk. *)

\* The request; the control plane accepts the token once, and its answer may be lost.
Register ==
    /\ writer["agent"].pc = "register"
    /\ \/ ~spent /\ ~used /\ spent' = TRUE /\ Goto("agent", "credential") /\ UNCHANGED faults
       \/ ~spent /\ ~used /\ spent' = TRUE /\ Goto("agent", "off") /\ Fault
       \/ UNCHANGED <<spent, faults>> /\ Goto("agent", "off")
    /\ UNCHANGED <<mode, latest, used, disk, yaml, up, cfg, platform, applied, admin, reached, overlapped>>

\* agent-credential is written; when that fails the agent stays off.
StoreCredential ==
    /\ writer["agent"].pc = "credential"
    /\ \/ credential' = TRUE /\ Goto("agent", "rename") /\ UNCHANGED faults
       \/ UNCHANGED credential /\ Goto("agent", "off") /\ Fault
    /\ UNCHANGED <<mode, latest, spent, used, gens, current, marker, yaml, up, cfg, platform, applied, admin, reached, overlapped>>

\* The token file is renamed, an error being ignored, and Run starts.
RenameToken ==
    /\ writer["agent"].pc = "rename"
    /\ \/ used' = TRUE /\ UNCHANGED faults
       \/ UNCHANGED used /\ Fault
    /\ Goto("agent", "loop")
    /\ UNCHANGED <<mode, latest, spent, disk, yaml, up, cfg, platform, applied, admin, reached, overlapped>>

----------------------------------------------------------------------------
(* The agent's loop. *)

\* tick after a heartbeat that advertises a newer generation, or the poll ticker.
Wake ==
    /\ writer["agent"].pc = "loop"
    /\ Goto("agent", "fetch")
    /\ UNCHANGED <<mode, latest, spent, used, disk, yaml, up, cfg, platform, applied, admin, reached, overlapped, faults>>

\* FetchAndApplyConfig up to the verification: an error, a 404, a generation that is
\* not newer, or one that does not verify leave everything as it is; config-ack
\* only informs the control plane.
FetchNothing ==
    /\ writer["agent"].pc = "fetch"
    /\ Goto("agent", "loop")
    /\ UNCHANGED <<mode, latest, spent, used, disk, yaml, up, cfg, platform, applied, admin, reached, overlapped, faults>>

FetchNewer ==
    /\ writer["agent"].pc = "fetch"
    /\ latest > applied /\ latest \notin Bad
    /\ writer' = [writer EXCEPT !["agent"] = [pc |-> "gen", v |-> latest, force |-> FALSE]]
    /\ UNCHANGED <<mode, latest, spent, used, disk, yaml, up, cfg, platform, applied, admin, reached, overlapped, faults>>

\* SetConfig: cfg and the authenticator change under Server.mu.
AgentSet ==
    /\ writer["agent"].pc = "set"
    /\ cfg' = Generation(writer["agent"].v)
    /\ reached' = Max({reached, writer["agent"].v}) /\ overlapped' = HookPending
    /\ Goto("agent", "hook")
    /\ UNCHANGED <<mode, latest, spent, used, disk, yaml, up, platform, applied, admin, faults>>

\* The hook rebuilds the platform; then the generation counts as applied and is
\* acknowledged.
AgentHook ==
    /\ writer["agent"].pc = "hook"
    /\ platform' = Generation(writer["agent"].v)
    /\ applied' = writer["agent"].v
    /\ Goto("agent", "loop")
    /\ UNCHANGED <<mode, latest, spent, used, disk, yaml, up, cfg, admin, reached, overlapped, faults>>

----------------------------------------------------------------------------
(* storeConfigGeneration, by the agent or by the import command. *)

\* Where the writer goes after storing: the agent applies the generation even if
\* storing it failed, the command ends.
Stored(p) == Goto(p, IF p = "agent" THEN "set" ELSE "off")

\* config-v<N>.json is written.
WriteGeneration(p) ==
    /\ writer[p].pc = "gen"
    /\ gens' = gens \cup {writer[p].v}
    /\ Goto(p, "current")
    /\ UNCHANGED <<mode, latest, spent, used, credential, current, marker, yaml, up, cfg, platform, applied, admin, reached, overlapped, faults>>

\* config-current.tmp is written and renamed to config-current.json.
WriteCurrent(p) ==
    /\ writer[p].pc = "current"
    /\ current' = writer[p].v
    /\ Goto(p, "truncate")
    /\ UNCHANGED <<mode, latest, spent, used, credential, gens, marker, yaml, up, cfg, platform, applied, admin, reached, overlapped, faults>>

\* config-current.version is not replaced by a rename: it is truncated, then written.
TruncateMarker(p) ==
    /\ writer[p].pc = "truncate"
    /\ marker' = 0
    /\ Goto(p, "marker")
    /\ UNCHANGED <<mode, latest, spent, used, credential, gens, current, yaml, up, cfg, platform, applied, admin, reached, overlapped, faults>>

WriteMarker(p) ==
    /\ writer[p].pc = "marker"
    /\ marker' = writer[p].v
    /\ Goto(p, "prune")
    /\ UNCHANGED <<mode, latest, spent, used, credential, gens, current, yaml, up, cfg, platform, applied, admin, reached, overlapped, faults>>

\* (mutant) the file that was just written is pruned like any other
PrunedByNumber(g, v) == {x \in g : Cardinality({y \in g : y > x}) <= LkgKeep}

\* sortedGenerations and the loop over the oldest: what stays of the files g after
\* generation v was written.
Pruned(g, v) == {x \in g : x = v \/ Cardinality({y \in g : y > x}) <= LkgKeep}

Prune(p) ==
    /\ writer[p].pc = "prune"
    /\ gens' = Pruned(gens, writer[p].v)
    /\ Stored(p)
    /\ UNCHANGED <<mode, latest, spent, used, credential, current, marker, yaml, up, cfg, platform, applied, admin, reached, overlapped, faults>>

\* One of the writes fails: a file may have been created, or truncated, already.
StoreFails(p) ==
    /\ writer[p].pc \in {"gen", "current", "truncate", "marker"} /\ Fault
    /\ gens' \in {gens} \cup IF writer[p].pc = "gen" THEN {gens \cup {writer[p].v}} ELSE {}
    /\ Stored(p)
    /\ UNCHANGED <<mode, latest, spent, used, credential, current, marker, yaml, up, cfg, platform, applied, admin, reached, overlapped>>

NewerThanOldest(v) == gens = {} \/ \E x \in gens : v > x   \* (mutant) compares with the first file
NewerThanStored(v) == \A x \in gens : v > x

\* ImportSignedConfig: an envelope that verifies and is for this gateway; one that is
\* not newer than every stored generation needs -force.  It takes effect at the next start.
Import ==
    /\ mode = "airgapped" /\ writer["import"].pc = "off"
    /\ \E v \in Versions \ Bad, force \in BOOLEAN :
         /\ NewerThanStored(v) \/ force
         /\ writer' = [writer EXCEPT !["import"] = [pc |-> "gen", v |-> v, force |-> force]]
    /\ UNCHANGED <<mode, latest, spent, used, disk, yaml, up, cfg, platform, applied, admin, reached, overlapped, faults>>

----------------------------------------------------------------------------
(* The administration API: its handlers hold adminAPI.mu from the clone to the answer. *)

Listening == up /\ writer["agent"].pc \notin {"register", "credential", "rename"}
Locked == \E a \in Admins : admin[a].pc # "idle"

\* What a call makes of the configuration: handleKeyCreate (an id that exists does not
\* validate) and handleKeyDelete (an unknown one is a 404); handleKeyPatch and
\* handleDiscoverAdopt, which leave the set of keys; and handleConfigPut, whose document
\* is of the administrator's making.
Edited(c) ==
    {[c EXCEPT !.keys = @ \cup {k}] : k \in Keys \ c.keys}
    \cup {[c EXCEPT !.keys = @ \ {k}] : k \in c.keys}
    \cup {c, Packaged}

AdminClone(a) ==
    /\ Listening /\ ~Locked
    /\ \E c \in Edited(cfg) : admin' = [admin EXCEPT ![a] = [pc |-> "write", cfg |-> c]]
    /\ UNCHANGED <<mode, latest, spent, used, disk, yaml, up, cfg, platform, applied, writer, reached, overlapped, faults>>

\* (mutant) the configuration is applied although the file was not written
WriteOrNot(a) ==
    /\ admin[a].pc = "write"
    /\ \/ yaml' = admin[a].cfg /\ UNCHANGED faults
       \/ UNCHANGED yaml /\ Fault
    /\ admin' = [admin EXCEPT ![a].pc = "set"]
    /\ UNCHANGED <<mode, latest, spent, used, disk, up, cfg, platform, applied, writer, reached, overlapped>>

\* persistAndApply: the file first, and nothing is applied when that fails ...
AdminWrite(a) ==
    /\ admin[a].pc = "write"
    /\ \/ yaml' = admin[a].cfg /\ admin' = [admin EXCEPT ![a].pc = "set"] /\ UNCHANGED faults
       \/ UNCHANGED yaml /\ admin' = [admin EXCEPT ![a] = Idle] /\ Fault
    /\ UNCHANGED <<mode, latest, spent, used, disk, up, cfg, platform, applied, writer, reached, overlapped>>

\* (mutant) the configuration changes without its hook
SetWithoutHook(a) ==
    /\ admin[a].pc = "set"
    /\ cfg' = admin[a].cfg /\ overlapped' = HookPending
    /\ admin' = [admin EXCEPT ![a] = Idle]
    /\ UNCHANGED <<mode, latest, spent, used, disk, yaml, up, platform, applied, writer, reached, faults>>

\* ... then SetConfig ...
AdminSet(a) ==
    /\ admin[a].pc = "set"
    /\ cfg' = admin[a].cfg /\ overlapped' = HookPending
    /\ admin' = [admin EXCEPT ![a].pc = "hook"]
    /\ UNCHANGED <<mode, latest, spent, used, disk, yaml, up, platform, applied, writer, reached, faults>>

\* ... and its hook, the audit record and the answer.
AdminHook(a) ==
    /\ admin[a].pc = "hook"
    /\ platform' = admin[a].cfg
    /\ admin' = [admin EXCEPT ![a] = Idle]
    /\ UNCHANGED <<mode, latest, spent, used, disk, yaml, up, cfg, applied, writer, reached, overlapped, faults>>

----------------------------------------------------------------------------
StoreSteps(p) ==
    \/ WriteGeneration(p) \/ WriteCurrent(p) \/ TruncateMarker(p) \/ WriteMarker(p) \/ Prune(p)

AgentSteps == Register \/ StoreCredential \/ RenameToken \/ Wake \/ StoreSteps("agent") \/ AgentSet \/ AgentHook

AdminSteps(a) == AdminWrite(a) \/ AdminSet(a) \/ AdminHook(a)

Next ==
    \/ Publish \/ Boot \/ Crash \/ ImportKilled \/ CurrentLost
    \/ AgentSteps \/ FetchNothing \/ FetchNewer
    \/ \E p \in Writers : StoreSteps(p) \/ StoreFails(p)
    \/ Import
    \/ \E a \in Admins : AdminClone(a) \/ AdminSteps(a)

Spec == Init /\ [][Next]_vars

\* The service is restarted, its goroutines run, its tickers fire, and of the fetches
\* that are tried for ever some succeed.
FairSpec ==
    /\ Spec
    /\ WF_vars(Boot) /\ WF_vars(AgentSteps)
    /\ WF_vars(FetchNewer \/ FetchNothing) /\ SF_vars(FetchNewer)
    /\ \A a \in Admins : WF_vars(AdminSteps(a))

----------------------------------------------------------------------------
(* Properties *)

Pcs == {"off", "register", "credential", "rename", "loop", "fetch", "gen", "current",
        "truncate", "marker", "prune", "set", "hook"}

\* The variables have their types; a process that is down has nothing in memory.
TypeOK ==
    /\ mode \in Modes /\ latest \in 0..MaxVersion /\ spent \in BOOLEAN /\ used \in BOOLEAN
    /\ credential \in BOOLEAN /\ gens \subseteq Versions
    /\ current \in 0..MaxVersion /\ marker \in 0..MaxVersion
    /\ yaml \in Config /\ cfg \in Config /\ platform \in Config
    /\ up \in BOOLEAN /\ applied \in 0..MaxVersion
    /\ writer \in [Writers -> [pc: Pcs, v: 0..MaxVersion, force: BOOLEAN]]
    /\ admin \in [Admins -> [pc: {"idle", "write", "set", "hook"}, cfg: Config]]
    /\ reached \in 0..MaxVersion /\ overlapped \in BOOLEAN /\ faults \in 0..MaxFaults
    /\ ~up => writer["agent"].pc = "off" /\ ~Locked

\* storeConfigGeneration keeps the file of the generation it made current, whatever is
\* stored, rolled back to and pruned before and after, and whichever write is the last.
CurrentIsKept == current # 0 => current \in gens

\* A gateway that restarts does not take itself to have a newer generation than the one
\* it serves: it would never fetch that one again (LoadStoredConfig,
\* currentAppliedVersion).
RestartKnowsItsGeneration == [][~up /\ up' => applied' <= cfg'.base]_vars

\* While no generation is stored gateway.yaml is what is served, except in the middle of an
\* administration call: persistAndApply never lets the two drift apart.
FileIsServed ==
    up /\ current = 0 /\ reached = 0 /\ ~Locked => cfg = yaml

\* The platform is the one of the configuration that is served, unless two SetConfig
\* overlapped: their hooks run outside the lock, in any order (server.go 68-78), and the
\* next SetConfig that is alone puts it right.
PlatformFollowsConfig ==
    up /\ ~overlapped /\ ~HookPending => platform = cfg

\* Only -force makes an older generation current: neither a fetch nor an import goes
\* back, in whatever order they come and fail.
NoSilentDowngrade ==
    [][current' # 0 /\ current' < current =>
         \E p \in Writers : writer[p].pc = "current" /\ writer[p].force]_vars

\* A valid generation that stays the newest is put into effect by a registered agent,
\* whatever crashes and fails on the way.
Converges ==
    \A v \in Versions \ Bad :
        (mode = "connected" /\ credential /\ latest = v) ~> (reached >= v \/ latest > v)
=============================================================================
