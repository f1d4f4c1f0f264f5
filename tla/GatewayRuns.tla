---------------------------- MODULE GatewayRuns ----------------------------
(***************************************************************************)
(* Workflow runs as the clients of the gateway and its control plane see   *)
(* them: HTTP handlers start and read runs through the workflow Service    *)
(* that serves at that moment, a watcher per started run records its usage *)
(* when it settles, and the agent uploads the usage.  A new configuration  *)
(* opens another Service, with a RunStore of its own over the same         *)
(* directory, while the goroutines of the last one go on; a crash ends     *)
(* them all, and the next start settles what they left open.               *)
(*                                                                         *)
(* A run has the identity of the call that started it.  StartRun and the   *)
(* execution of a run are one step each: WorkflowRun looks inside them.    *)
(* Reads of files succeed, and persisting a run does.                      *)
(***************************************************************************)
EXTENDS Integers, FiniteSets

CONSTANTS
    Calls,        \* POST requests that start a run
    Keyed,        \* those that are sends of one request under one Idempotency-Key
    SameId,       \* does a client send its request again under the same X-Request-ID
    None,         \* no run
    Slots,        \* max_concurrent_runs of a Service
    MaxServices,  \* bound: times a platform is built
    MaxCrashes,   \* bound
    MaxLost       \* bound: usage reports whose answer is lost

ASSUME RunsAssumption ==
    /\ Keyed \subseteq Calls /\ None \notin Calls /\ SameId \in BOOLEAN
    /\ {Slots, MaxServices, MaxCrashes, MaxLost} \subseteq Nat

VARIABLES
    up,       \* does the gateway process run
    opened,   \* Services opened so far; each has a number
    first,    \* the first Service of the present process
    serving,  \* Server.workflows, 0 for nil
    built,    \* applyPlatform: the Service of the platform it has built, 0 outside of it
    store,    \* RunStore.runs of each Service
    file,     \* <run>.json
    idem,     \* RunStore.idem of each Service: the run of the one key there is
    call,     \* [pc, svc, run, told] of each handler and its client
    watcher,  \* [pc, svc, run] of the watchWorkflowRun goroutine of each call
    counter,  \* usageCounter: how often a run is counted in it
    batch,    \* rows drained by the agent and not yet answered
    ledger,   \* what the control plane has received
    sending,  \* is a report under way
    crashes, lost

running == <<up, opened, first, serving, built>>
runs    == <<store, file, idem>>
usage   == <<counter, batch, ledger, sending, lost>>
vars    == <<running, runs, call, watcher, usage, crashes>>

Services == 1..MaxServices
Settled  == {"completed", "failed", "interrupted"}
Status   == {"none", "open"} \cup Settled
Nothing  == [c \in Calls |-> 0]

\* requestID: what the X-Request-ID of a call, and so Run.RequestID, is.
RequestID(c) == IF SameId /\ c \in Keyed THEN None ELSE c

\* The goroutines of Service s belong to the present process.
Alive(s) == up /\ s >= first

\* OpenRunStore: what a new store makes of the file of a run.
LoadedAsIs(st) == st                        \* (mutant) an open run stays open
Loaded(st) == IF st = "open" THEN "interrupted" ELSE st

Init ==
    /\ up = FALSE /\ opened = 0 /\ first = 1 /\ serving = 0 /\ built = 0
    /\ store = [s \in Services |-> [c \in Calls |-> "none"]]
    /\ file = [c \in Calls |-> "none"]
    /\ idem = [s \in Services |-> None]
    /\ call = [c \in Calls |-> [pc |-> "idle", svc |-> 0, run |-> None, told |-> "none"]]
    /\ watcher = [c \in Calls |-> [pc |-> "none", svc |-> 0, run |-> None]]
    /\ counter = Nothing /\ batch = Nothing /\ ledger = Nothing
    /\ sending = FALSE /\ crashes = 0 /\ lost = 0

----------------------------------------------------------------------------
(* Platforms come and go: applyPlatform and platform.New. *)

\* workflow.Open and OpenRunStore: the metadata of every run is loaded and what is
\* settled now is written back; the idempotency table starts empty.
Open(s) ==
    /\ opened' = s
    /\ store' = [store EXCEPT ![s] = [c \in Calls |-> Loaded(file[c])]]
    /\ file' = [c \in Calls |-> Loaded(file[c])]
    /\ UNCHANGED idem

\* The process starts; without a platform (disabled, or New fails) nothing serves.
Boot ==
    /\ ~up /\ opened < MaxServices
    /\ up' = TRUE /\ first' = opened + 1
    /\ \/ Open(opened + 1) /\ serving' = opened + 1
       \/ UNCHANGED <<opened, runs>> /\ serving' = 0
    /\ UNCHANGED <<built, call, watcher, usage, crashes>>

\* A new configuration builds the next platform, under platformMu, while the last one
\* serves ...
ReloadOpen ==
    /\ up /\ built = 0 /\ opened < MaxServices
    /\ Open(opened + 1) /\ built' = opened + 1
    /\ UNCHANGED <<up, first, serving, call, watcher, usage, crashes>>

\* ... and puts it into the Server; Close of the last one ends its sweeper only.
ReloadSwitch ==
    /\ up /\ built # 0
    /\ serving' = built /\ built' = 0
    /\ UNCHANGED <<up, opened, first, runs, call, watcher, usage, crashes>>

\* The new configuration has no platform, or none that can be built.
ReloadOff ==
    /\ up /\ built = 0 /\ serving # 0
    /\ serving' = 0
    /\ UNCHANGED <<up, opened, first, built, runs, call, watcher, usage, crashes>>

\* Everything in memory is gone: handlers, runs, watchers and the usage not yet sent.
Crash ==
    /\ up /\ crashes < MaxCrashes
    /\ crashes' = crashes + 1 /\ up' = FALSE /\ serving' = 0 /\ built' = 0
    /\ call' = [c \in Calls |-> [call[c] EXCEPT !.pc = IF @ = "idle" THEN @ ELSE "done"]]
    /\ watcher' = [c \in Calls |-> [watcher[c] EXCEPT !.pc = IF @ = "waiting" THEN "lost" ELSE @]]
    /\ counter' = Nothing /\ batch' = Nothing /\ sending' = FALSE
    /\ UNCHANGED <<opened, first, runs, ledger, lost>>

----------------------------------------------------------------------------
(* handleWorkflowStart and workflowChat *)

\* A POST is authorised and takes the Service that serves now; there may be none (404).
Post(c) ==
    /\ up /\ call[c].pc = "idle"
    /\ call' = [call EXCEPT ![c].svc = serving, ![c].pc = IF serving = 0 THEN "done" ELSE "sent"]
    /\ UNCHANGED <<running, runs, watcher, usage, crashes>>

OpenRuns(s) == {r \in Calls : store[s][r] = "open"}

StartsWatcher(c, r) == RequestID(r) = RequestID(c)

\* The call continues with run r: a watcher is started if the run carries its request id.
Started(c, r) ==
    /\ call' = [call EXCEPT ![c].pc = "waiting", ![c].run = r, ![c].told = "open"]
    /\ watcher' = IF StartsWatcher(c, r)
                  THEN [watcher EXCEPT ![c] = [pc |-> "waiting", svc |-> call[c].svc, run |-> r]]
                  ELSE watcher

\* IdemCheck and Get: the run that was started in this Service under the key of call c.
Known(c) == {r \in Calls : c \in Keyed /\ idem[call[c].svc] = r /\ store[call[c].svc][r] # "none"}

\* StartRun finds the run of the key.
Reuse(c) ==
    /\ up /\ call[c].pc = "sent"
    /\ \E r \in Known(c) : Started(c, r)
    /\ UNCHANGED <<running, runs, usage, crashes>>

\* StartRun creates, persists and records a run and starts to execute it; without a
\* slot, or with a request that does not validate, it answers an error.
StartRun(c) ==
    LET s == call[c].svc IN
    /\ up /\ call[c].pc = "sent"
    /\ Known(c) = {}
    /\ \/ /\ Cardinality(OpenRuns(s)) < Slots
          /\ store' = [store EXCEPT ![s][c] = "open"]
          /\ file' = [file EXCEPT ![c] = "open"]
          /\ idem' = IF c \in Keyed THEN [idem EXCEPT ![s] = c] ELSE idem
          /\ Started(c, c)
       \/ call' = [call EXCEPT ![c].pc = "done"] /\ UNCHANGED <<runs, watcher>>
    /\ UNCHANGED <<running, usage, crashes>>

\* execute settles the run in the store it was created in and writes the file.
Settle(c) ==
    /\ \E s \in Services, st \in {"completed", "failed"} :
         /\ Alive(s) /\ store[s][c] = "open"
         /\ store' = [store EXCEPT ![s][c] = st]
         /\ file' = [file EXCEPT ![c] = st]
    /\ UNCHANGED <<running, idem, call, watcher, usage, crashes>>

\* The handler's select: the run is done and its result is written, or the wait is
\* over and the client is told to come back (202, or 504 in chat), or it is gone.
Answer(c) ==
    /\ up /\ call[c].pc = "waiting"
    /\ call' = [call EXCEPT ![c].pc = "done", ![c].told = store[call[c].svc][call[c].run]]
    /\ UNCHANGED <<running, runs, watcher, usage, crashes>>

\* GET of a run: ownRun and writeRunResult through the Service that serves now.
Get(c) ==
    /\ up /\ call[c].pc = "done" /\ call[c].run # None /\ serving # 0
    /\ call' = [call EXCEPT ![c].told = store[serving][call[c].run]]
    /\ UNCHANGED <<running, runs, watcher, usage, crashes>>

\* Sweep: a settled run is dropped when its retention is over, and its key has
\* expired by then.
Sweep(c) ==
    /\ up /\ serving # 0 /\ store[serving][c] \in Settled
    /\ \A d \in Calls : ~(watcher[d].pc = "waiting" /\ watcher[d].run = c)
    /\ \A s \in Services : ~(Alive(s) /\ store[s][c] = "open")
    /\ store' = [store EXCEPT ![serving][c] = "none"]
    /\ file' = [file EXCEPT ![c] = "none"]
    /\ idem' = [s \in Services |-> IF idem[s] = c THEN None ELSE idem[s]]
    /\ UNCHANGED <<running, call, watcher, usage, crashes>>

----------------------------------------------------------------------------
(* Usage *)

\* (mutant) the run is looked up in the Service that serves now
WatchServing(c) ==
    /\ up /\ watcher[c].pc = "waiting"
    /\ serving # 0 /\ store[serving][watcher[c].run] \in Settled
    /\ watcher' = [watcher EXCEPT ![c].pc = "recorded"]
    /\ counter' = [counter EXCEPT ![watcher[c].run] = @ + 1]
    /\ UNCHANGED <<running, runs, call, batch, ledger, sending, lost, crashes>>

\* watchWorkflowRun: the run is done; its audit line and its usage are recorded.
Watch(c) ==
    /\ up /\ watcher[c].pc = "waiting"
    /\ store[watcher[c].svc][watcher[c].run] \in Settled
    /\ watcher' = [watcher EXCEPT ![c].pc = "recorded"]
    /\ counter' = [counter EXCEPT ![watcher[c].run] = @ + 1]
    /\ UNCHANGED <<running, runs, call, batch, ledger, sending, lost, crashes>>

\* DrainUsage: the agent takes the rows; nothing is sent when there are none.
Drain ==
    /\ up /\ ~sending /\ counter # Nothing
    /\ batch' = counter /\ counter' = Nothing /\ sending' = TRUE
    /\ UNCHANGED <<running, runs, call, watcher, ledger, lost, crashes>>

Sum(f, g) == [c \in Calls |-> f[c] + g[c]]

NotRestored == counter                       \* (mutant) rows that were refused are dropped
\* RestoreUsage: the rows are added to what was counted meanwhile.
Restored == Sum(counter, batch)

\* The control plane takes the report and its answer arrives.
Upload ==
    /\ up /\ sending
    /\ ledger' = Sum(ledger, batch) /\ batch' = Nothing /\ sending' = FALSE
    /\ UNCHANGED <<running, runs, call, watcher, counter, lost, crashes>>

\* It does not arrive, or is refused.
UploadFails ==
    /\ up /\ sending
    /\ counter' = Restored /\ batch' = Nothing /\ sending' = FALSE
    /\ UNCHANGED <<running, runs, call, watcher, ledger, lost, crashes>>

\* It arrives and the answer is lost: the rows are restored all the same.
UploadUnanswered ==
    /\ up /\ sending /\ lost < MaxLost
    /\ lost' = lost + 1
    /\ ledger' = Sum(ledger, batch)
    /\ counter' = Restored /\ batch' = Nothing /\ sending' = FALSE
    /\ UNCHANGED <<running, runs, call, watcher, crashes>>

----------------------------------------------------------------------------
Next ==
    \/ Boot \/ ReloadOpen \/ ReloadSwitch \/ ReloadOff \/ Crash
    \/ \E c \in Calls : Post(c) \/ Reuse(c) \/ StartRun(c) \/ Settle(c) \/ Answer(c)
                        \/ Get(c) \/ Sweep(c) \/ Watch(c)
    \/ Drain \/ Upload \/ UploadFails \/ UploadUnanswered

Spec == Init /\ [][Next]_vars

\* Runs end by their deadline, goroutines run, the agent's ticker fires, and of the
\* reports that are tried for ever some get through.
FairSpec ==
    /\ Spec
    /\ \A c \in Calls : WF_vars(Settle(c)) /\ WF_vars(Watch(c))
    /\ WF_vars(Drain) /\ WF_vars(Upload \/ UploadFails) /\ SF_vars(Upload)

----------------------------------------------------------------------------
(* Properties *)

Copies(r) == counter[r] + batch[r] + ledger[r]
Waiting(r) == {c \in Calls : watcher[c].pc = "waiting" /\ watcher[c].run = r}

\* The variables have their types; a batch is out only while a report is under way.
TypeOK ==
    /\ up \in BOOLEAN /\ opened \in 0..MaxServices /\ first \in 1..MaxServices + 1
    /\ serving \in 0..opened /\ built \in 0..opened
    /\ store \in [Services -> [Calls -> Status]] /\ file \in [Calls -> Status]
    /\ idem \in [Services -> Keyed \cup {None}]
    /\ call \in [Calls -> [pc: {"idle", "sent", "waiting", "done"}, svc: 0..MaxServices,
                           run: Calls \cup {None}, told: Status]]
    /\ watcher \in [Calls -> [pc: {"none", "waiting", "recorded", "lost"}, svc: 0..MaxServices,
                              run: Calls \cup {None}]]
    /\ \A f \in {counter, batch, ledger} : f \in [Calls -> Nat]
    /\ sending \in BOOLEAN /\ crashes \in 0..MaxCrashes /\ lost \in 0..MaxLost
    /\ ~sending => batch = Nothing

\* A run is counted once, whoever asks for it again, however often a report is refused
\* and the platform replaced: never twice but for a report whose answer was lost, and
\* never not at all unless the process crashed (watchWorkflowRun, DrainUsage, RestoreUsage).
UsageConserved ==
    \A r \in Calls :
        /\ Copies(r) + Cardinality(Waiting(r)) <= 1 + lost
        /\ crashes = 0 /\ (\E s \in Services : store[s][r] # "none") =>
               Copies(r) + Cardinality(Waiting(r)) >= 1

\* A run that the API shows as open has a goroutine in the very store that is asked: it
\* will be settled there, also after crashes and reloads (OpenRunStore).
OpenRunIsExecuted ==
    \A r \in Calls : serving # 0 /\ store[serving][r] = "open" =>
        Alive(serving) /\ call[r].svc = serving

\* The usage of every watched run reaches the control plane unless the process goes down.
RunsAreBilled ==
    \A r \in Calls : (Waiting(r) # {} \/ counter[r] > 0) ~> (ledger[r] > 0 \/ ~up)
=============================================================================
