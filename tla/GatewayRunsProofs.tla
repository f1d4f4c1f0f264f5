-------------------------- MODULE GatewayRunsProofs --------------------------
(***************************************************************************)
(* Proofs about GatewayRuns, for any number of calls, platforms, crashes   *)
(* and lost answers.                                                       *)
(***************************************************************************)
EXTENDS GatewayRuns, FiniteSetTheorems, TLAPS

LEMMA ConstantsAreNumbers ==
  /\ Slots \in Nat /\ MaxServices \in Nat /\ MaxCrashes \in Nat /\ MaxLost \in Nat
  /\ Keyed \subseteq Calls /\ None \notin Calls
BY RunsAssumption DEF RunsAssumption

-----------------------------------------------------------------------------
(* Types *)

CallType == [pc: {"idle", "sent", "waiting", "done"}, svc: 0..MaxServices,
             run: Calls \cup {None}, told: Status]

WatcherType == [pc: {"none", "waiting", "recorded", "lost"}, svc: 0..MaxServices,
                run: Calls \cup {None}]

\* Which Services there are.
Platforms ==
  /\ up \in BOOLEAN /\ opened \in 0..MaxServices /\ first \in 1..MaxServices + 1
  /\ serving \in 0..opened /\ built \in 0..opened

\* What is stored of the runs; a Service that was not opened knows of none.
Stores ==
  /\ store \in [Services -> [Calls -> Status]] /\ file \in [Calls -> Status]
  /\ idem \in [Services -> Keyed \cup {None}]

\* Handlers and watchers; a request that was sent has the Service it was sent to.
Goroutines ==
  /\ call \in [Calls -> CallType] /\ watcher \in [Calls -> WatcherType]
  /\ \A c \in Calls :
       /\ call[c].pc \in {"sent", "waiting"} => call[c].svc \in Services
       /\ call[c].pc = "waiting" => call[c].run \in Calls
       /\ watcher[c].pc = "waiting" => watcher[c].run \in Calls /\ watcher[c].svc \in Services

Counts ==
  /\ counter \in [Calls -> Nat] /\ batch \in [Calls -> Nat] /\ ledger \in [Calls -> Nat]
  /\ sending \in BOOLEAN /\ crashes \in 0..MaxCrashes /\ lost \in 0..MaxLost
  /\ ~sending => batch = Nothing

Types == Platforms /\ Stores /\ Goroutines /\ Counts

LEMMA TypesImplyTypeOK == Types => TypeOK
BY DEF Types, Platforms, Stores, Goroutines, Counts, TypeOK, CallType, WatcherType

LEMMA InitTypes == Init => Types
<1> SUFFICES ASSUME Init PROVE Types
  OBVIOUS
<1>1. Platforms
  <2>1. up \in BOOLEAN
    BY Zenon DEF Init
  <2> QED BY <2>1, ConstantsAreNumbers DEF Init, Platforms
<1>2. Stores
  BY ConstantsAreNumbers DEF Init, Stores, Status
<1>3. Goroutines
  BY ConstantsAreNumbers DEF Init, Goroutines, CallType, WatcherType, Status
<1>4. Counts
  <2>1. sending \in BOOLEAN
    BY Zenon DEF Init
  <2> QED BY <2>1, ConstantsAreNumbers DEF Init, Counts, Nothing
<1> QED BY <1>1, <1>2, <1>3, <1>4 DEF Types

LEMMA PlatformsKeep == Types /\ [Next]_vars => Platforms'
<1> SUFFICES ASSUME Types, [Next]_vars PROVE Platforms'
  OBVIOUS
<1> USE ConstantsAreNumbers DEF Types, Platforms, running, Open, Services
<1>1. CASE Boot
  BY <1>1 DEF Boot
<1>2. CASE ReloadOpen
  BY <1>2 DEF ReloadOpen
<1>3. CASE ReloadSwitch
  BY <1>3 DEF ReloadSwitch
<1>4. CASE ReloadOff
  BY <1>4 DEF ReloadOff
<1>5. CASE Crash
  <2>1. up' \in BOOLEAN
    BY <1>5, Zenon DEF Crash
  <2> QED BY <1>5, <2>1 DEF Crash
<1>6. CASE Drain
  BY <1>6 DEF Drain
<1>7. CASE Upload
  BY <1>7 DEF Upload
<1>8. CASE UploadFails
  BY <1>8 DEF UploadFails
<1>9. CASE UploadUnanswered
  BY <1>9 DEF UploadUnanswered
<1>10. ASSUME NEW c \in Calls, Post(c) PROVE Platforms'
  BY <1>10 DEF Post
<1>11. ASSUME NEW c \in Calls, Reuse(c) PROVE Platforms'
  BY <1>11 DEF Reuse
<1>12. ASSUME NEW c \in Calls, StartRun(c) PROVE Platforms'
  BY <1>12 DEF StartRun
<1>13. ASSUME NEW c \in Calls, Settle(c) PROVE Platforms'
  BY <1>13 DEF Settle
<1>14. ASSUME NEW c \in Calls, Answer(c) PROVE Platforms'
  BY <1>14 DEF Answer
<1>15. ASSUME NEW c \in Calls, Get(c) PROVE Platforms'
  BY <1>15 DEF Get
<1>16. ASSUME NEW c \in Calls, Sweep(c) PROVE Platforms'
  BY <1>16 DEF Sweep
<1>17. ASSUME NEW c \in Calls, Watch(c) PROVE Platforms'
  BY <1>17 DEF Watch
<1>18. CASE UNCHANGED vars
  BY <1>18 DEF vars
<1> QED
  BY <1>1, <1>2, <1>3, <1>4, <1>5, <1>6, <1>7, <1>8, <1>9, <1>10, <1>11, <1>12, <1>13, <1>14,
     <1>15, <1>16, <1>17, <1>18 DEF Next

LEMMA LoadedIsAStatus == \A st \in Status : Loaded(st) \in Status /\ Loaded(st) # "open"
BY DEF Loaded, Status, Settled

LEMMA StoresKeep == Types /\ [Next]_vars => Stores'
<1> SUFFICES ASSUME Types, [Next]_vars PROVE Stores'
  OBVIOUS
<1> USE ConstantsAreNumbers DEF runs
<1>1. CASE Boot
  <2>1. CASE UNCHANGED runs
    BY <2>1 DEF Types, Stores
  <2>2. CASE Open(opened + 1)
    <3>1. opened + 1 \in Services
      BY <1>1 DEF Boot, Types, Platforms, Services
    <3> QED BY <2>2, <3>1, LoadedIsAStatus DEF Open, Types, Stores
  <2> QED BY <1>1, <2>1, <2>2 DEF Boot
<1>2. CASE ReloadOpen
  <2>1. opened + 1 \in Services /\ Open(opened + 1)
    BY <1>2 DEF ReloadOpen, Types, Platforms, Services
  <2> QED BY <2>1, LoadedIsAStatus DEF Open, Types, Stores
<1>3. CASE ReloadSwitch
  BY <1>3 DEF ReloadSwitch, Types, Stores
<1>4. CASE ReloadOff
  BY <1>4 DEF ReloadOff, Types, Stores
<1>5. CASE Crash
  BY <1>5 DEF Crash, Types, Stores
<1>6. CASE Drain
  BY <1>6 DEF Drain, Types, Stores
<1>7. CASE Upload
  BY <1>7 DEF Upload, Types, Stores
<1>8. CASE UploadFails
  BY <1>8 DEF UploadFails, Types, Stores
<1>9. CASE UploadUnanswered
  BY <1>9 DEF UploadUnanswered, Types, Stores
<1>10. ASSUME NEW c \in Calls, Post(c) PROVE Stores'
  BY <1>10 DEF Post, Types, Stores
<1>11. ASSUME NEW c \in Calls, Reuse(c) PROVE Stores'
  BY <1>11 DEF Reuse, Types, Stores
<1>12. ASSUME NEW c \in Calls, StartRun(c) PROVE Stores'
  <2>1. call[c].svc \in Services /\ "open" \in Status
    BY <1>12 DEF StartRun, Types, Goroutines, Status
  <2>2. idem' \in [Services -> Keyed \cup {None}]
    <3>1. CASE c \in Keyed /\ idem' = [idem EXCEPT ![call[c].svc] = c]
      BY <2>1, <3>1 DEF Types, Stores
    <3>2. CASE idem' = idem
      BY <3>2 DEF Types, Stores
    <3> QED BY <1>12, <3>1, <3>2 DEF StartRun
  <2>3. store' = [store EXCEPT ![call[c].svc][c] = "open"] \/ store' = store
    BY <1>12 DEF StartRun
  <2>4. file' = [file EXCEPT ![c] = "open"] \/ file' = file
    BY <1>12 DEF StartRun
  <2> QED BY <2>1, <2>2, <2>3, <2>4 DEF Types, Stores
<1>13. ASSUME NEW c \in Calls, Settle(c) PROVE Stores'
  <2>1. {"completed", "failed"} \subseteq Status
    BY DEF Status, Settled
  <2> QED BY <1>13, <2>1 DEF Settle, Types, Stores
<1>14. ASSUME NEW c \in Calls, Answer(c) PROVE Stores'
  BY <1>14 DEF Answer, Types, Stores
<1>15. ASSUME NEW c \in Calls, Get(c) PROVE Stores'
  BY <1>15 DEF Get, Types, Stores
<1>16. ASSUME NEW c \in Calls, Sweep(c) PROVE Stores'
  <2>1. serving \in Services /\ "none" \in Status
    BY <1>16 DEF Sweep, Types, Platforms, Services, Status
  <2>2. idem' \in [Services -> Keyed \cup {None}]
    BY <1>16 DEF Sweep, Types, Stores
  <2> QED BY <1>16, <2>1, <2>2 DEF Sweep, Types, Stores
<1>17. ASSUME NEW c \in Calls, Watch(c) PROVE Stores'
  BY <1>17 DEF Watch, Types, Stores
<1>18. CASE UNCHANGED vars
  BY <1>18 DEF vars, Types, Stores
<1> QED
  BY <1>1, <1>2, <1>3, <1>4, <1>5, <1>6, <1>7, <1>8, <1>9, <1>10, <1>11, <1>12, <1>13, <1>14,
     <1>15, <1>16, <1>17, <1>18 DEF Next

\* A call that continues with a run, and its watcher.
LEMMA StartedKeeps ==
  ASSUME Types, NEW c \in Calls, call[c].pc = "sent", NEW r \in Calls, Started(c, r)
  PROVE  Goroutines'
<1>1. call[c].svc \in Services /\ Services \subseteq 0..MaxServices /\ "open" \in Status
  BY ConstantsAreNumbers DEF Types, Goroutines, Services, Status
<1>2. /\ call' \in [Calls -> CallType] /\ call'[c].run = r /\ call'[c].svc = call[c].svc
      /\ \A d \in Calls \ {c} : call'[d] = call[d]
  BY <1>1, ZenonT(60) DEF Started, Types, Goroutines, CallType
<1>3. /\ watcher' \in [Calls -> WatcherType]
      /\ \/ watcher'[c] = watcher[c]
         \/ watcher'[c].run = r /\ watcher'[c].svc = call[c].svc
      /\ \A d \in Calls \ {c} : watcher'[d] = watcher[d]
  <2>1. CASE watcher' = [watcher EXCEPT ![c] = [pc |-> "waiting", svc |-> call[c].svc, run |-> r]]
    BY <1>1, <2>1 DEF Types, Goroutines, WatcherType
  <2>2. CASE watcher' = watcher
    BY <2>2 DEF Types, Goroutines
  <2> QED BY <2>1, <2>2 DEF Started
<1> QED BY <1>1, <1>2, <1>3 DEF Types, Goroutines

LEMMA GoroutinesKeep == Types /\ [Next]_vars => Goroutines'
<1> SUFFICES ASSUME Types, [Next]_vars PROVE Goroutines'
  OBVIOUS
<1> USE ConstantsAreNumbers
<1>1. CASE Boot
  BY <1>1 DEF Boot, Types, Goroutines
<1>2. CASE ReloadOpen
  BY <1>2 DEF ReloadOpen, Types, Goroutines
<1>3. CASE ReloadSwitch
  BY <1>3 DEF ReloadSwitch, Types, Goroutines
<1>4. CASE ReloadOff
  BY <1>4 DEF ReloadOff, Types, Goroutines
<1>5. CASE Crash
  <2>1. /\ call' = [c \in Calls |-> [call[c] EXCEPT !.pc = IF @ = "idle" THEN @ ELSE "done"]]
        /\ watcher' = [c \in Calls |-> [watcher[c] EXCEPT !.pc = IF @ = "waiting" THEN "lost" ELSE @]]
    BY <1>5 DEF Crash
  <2>2. call' \in [Calls -> CallType] /\ \A c \in Calls : call'[c].pc \in {"idle", "done"}
    BY <2>1 DEF Types, Goroutines, CallType
  <2>3. watcher' \in [Calls -> WatcherType] /\ \A c \in Calls : watcher'[c].pc # "waiting"
    BY <2>1 DEF Types, Goroutines, WatcherType
  <2> QED BY <2>2, <2>3 DEF Goroutines
<1>6. CASE Drain
  BY <1>6 DEF Drain, Types, Goroutines
<1>7. CASE Upload
  BY <1>7 DEF Upload, Types, Goroutines
<1>8. CASE UploadFails
  BY <1>8 DEF UploadFails, Types, Goroutines
<1>9. CASE UploadUnanswered
  BY <1>9 DEF UploadUnanswered, Types, Goroutines
<1>10. ASSUME NEW c \in Calls, Post(c) PROVE Goroutines'
  <2>1. serving \in 0..MaxServices /\ (serving # 0 => serving \in Services)
    BY DEF Types, Platforms, Services
  <2>2. PICK pc \in {"done", "sent"} :
          /\ call' = [call EXCEPT ![c].svc = serving, ![c].pc = pc]
          /\ pc = IF serving = 0 THEN "done" ELSE "sent"
    BY <1>10 DEF Post
  <2>a. watcher' = watcher
    BY <1>10 DEF Post
  <2>b. call' = [call EXCEPT ![c] = [[call[c] EXCEPT !.svc = serving] EXCEPT !.pc = pc]]
    BY <2>2 DEF Types, Goroutines, CallType
  <2>c. [call[c] EXCEPT !.svc = serving] \in CallType
    BY <2>1 DEF Types, Goroutines, CallType
  <2>3. /\ call' \in [Calls -> CallType] /\ \A d \in Calls \ {c} : call'[d] = call[d]
        /\ call'[c].svc = serving /\ call'[c].pc = pc
    BY <2>1, <2>b, <2>c DEF Types, Goroutines, CallType
  <2> QED BY <2>1, <2>2, <2>a, <2>3 DEF Types, Goroutines
<1>11. ASSUME NEW c \in Calls, Reuse(c) PROVE Goroutines'
  <2>1. PICK r \in Calls : Started(c, r)
    BY <1>11 DEF Reuse, Known
  <2> QED BY <1>11, <2>1, StartedKeeps DEF Reuse
<1>12. ASSUME NEW c \in Calls, StartRun(c) PROVE Goroutines'
  <2>1. CASE Started(c, c)
    BY <1>12, <2>1, StartedKeeps DEF StartRun
  <2>2. CASE call' = [call EXCEPT ![c].pc = "done"] /\ UNCHANGED watcher
    BY <2>2 DEF Types, Goroutines, CallType
  <2> QED BY <1>12, <2>1, <2>2 DEF StartRun
<1>13. ASSUME NEW c \in Calls, Settle(c) PROVE Goroutines'
  BY <1>13 DEF Settle, Types, Goroutines
<1>14. ASSUME NEW c \in Calls, Answer(c) PROVE Goroutines'
  <2>1. store[call[c].svc][call[c].run] \in Status
    BY <1>14 DEF Answer, Types, Goroutines, Stores
  <2> QED BY <1>14, <2>1 DEF Answer, Types, Goroutines, CallType
<1>15. ASSUME NEW c \in Calls, Get(c) PROVE Goroutines'
  <2>1. call[c].run \in Calls /\ serving \in Services
    BY <1>15 DEF Get, Types, Goroutines, CallType, Platforms, Services
  <2>2. store[serving][call[c].run] \in Status
    BY <2>1 DEF Types, Stores
  <2> QED BY <1>15, <2>2 DEF Get, Types, Goroutines, CallType
<1>16. ASSUME NEW c \in Calls, Sweep(c) PROVE Goroutines'
  BY <1>16 DEF Sweep, Types, Goroutines
<1>17. ASSUME NEW c \in Calls, Watch(c) PROVE Goroutines'
  <2>1. watcher' = [watcher EXCEPT ![c].pc = "recorded"] /\ call' = call
    BY <1>17 DEF Watch
  <2> QED BY <2>1 DEF Types, Goroutines, WatcherType
<1>18. CASE UNCHANGED vars
  BY <1>18 DEF vars, Types, Goroutines
<1> QED
  BY <1>1, <1>2, <1>3, <1>4, <1>5, <1>6, <1>7, <1>8, <1>9, <1>10, <1>11, <1>12, <1>13, <1>14,
     <1>15, <1>16, <1>17, <1>18 DEF Next

LEMMA SumIsTyped ==
  ASSUME NEW f \in [Calls -> Nat], NEW g \in [Calls -> Nat]
  PROVE  Sum(f, g) \in [Calls -> Nat]
BY DEF Sum

LEMMA CountsKeep == Types /\ [Next]_vars => Counts'
<1> SUFFICES ASSUME Types, [Next]_vars PROVE Counts'
  OBVIOUS
<1> USE ConstantsAreNumbers
<1>1. CASE Boot
  BY <1>1 DEF Boot, usage, Types, Counts
<1>2. CASE ReloadOpen
  BY <1>2 DEF ReloadOpen, usage, Types, Counts
<1>3. CASE ReloadSwitch
  BY <1>3 DEF ReloadSwitch, usage, Types, Counts
<1>4. CASE ReloadOff
  BY <1>4 DEF ReloadOff, usage, Types, Counts
<1>5. CASE Crash
  <2>1. Nothing \in [Calls -> Nat]
    BY DEF Nothing
  <2>2. sending' \in BOOLEAN
    BY <1>5, Zenon DEF Crash
  <2> QED BY <1>5, <2>1, <2>2 DEF Crash, Types, Counts
<1>6. CASE Drain
  BY <1>6 DEF Drain, Types, Counts, Nothing
<1>7. CASE Upload
  <2>1. Sum(ledger, batch) \in [Calls -> Nat] /\ Nothing \in [Calls -> Nat]
    BY SumIsTyped DEF Types, Counts, Nothing
  <2> QED BY <1>7, <2>1 DEF Upload, Types, Counts
<1>8. CASE UploadFails
  <2>1. Restored \in [Calls -> Nat] /\ Nothing \in [Calls -> Nat]
    BY SumIsTyped DEF Types, Counts, Nothing, Restored
  <2> QED BY <1>8, <2>1 DEF UploadFails, Types, Counts
<1>9. CASE UploadUnanswered
  <2>1. Sum(ledger, batch) \in [Calls -> Nat] /\ Restored \in [Calls -> Nat]
        /\ Nothing \in [Calls -> Nat]
    BY SumIsTyped DEF Types, Counts, Nothing, Restored
  <2>2. sending' \in BOOLEAN
    BY <1>9, Zenon DEF UploadUnanswered
  <2> QED BY <1>9, <2>1, <2>2 DEF UploadUnanswered, Types, Counts
<1>10. ASSUME NEW c \in Calls, Post(c) PROVE Counts'
  BY <1>10 DEF Post, usage, Types, Counts
<1>11. ASSUME NEW c \in Calls, Reuse(c) PROVE Counts'
  BY <1>11 DEF Reuse, usage, Types, Counts
<1>12. ASSUME NEW c \in Calls, StartRun(c) PROVE Counts'
  BY <1>12 DEF StartRun, usage, Types, Counts
<1>13. ASSUME NEW c \in Calls, Settle(c) PROVE Counts'
  BY <1>13 DEF Settle, usage, Types, Counts
<1>14. ASSUME NEW c \in Calls, Answer(c) PROVE Counts'
  BY <1>14 DEF Answer, usage, Types, Counts
<1>15. ASSUME NEW c \in Calls, Get(c) PROVE Counts'
  BY <1>15 DEF Get, usage, Types, Counts
<1>16. ASSUME NEW c \in Calls, Sweep(c) PROVE Counts'
  BY <1>16 DEF Sweep, usage, Types, Counts
<1>17. ASSUME NEW c \in Calls, Watch(c) PROVE Counts'
  <2>1. watcher[c].run \in Calls
    BY <1>17 DEF Watch, Types, Goroutines
  <2>2. /\ counter' = [counter EXCEPT ![watcher[c].run] = @ + 1]
        /\ UNCHANGED <<batch, ledger, sending, lost, crashes>>
    BY <1>17 DEF Watch
  <2> QED BY <2>1, <2>2 DEF Types, Counts
<1>18. CASE UNCHANGED vars
  BY <1>18 DEF vars, usage, Types, Counts
<1> QED
  BY <1>1, <1>2, <1>3, <1>4, <1>5, <1>6, <1>7, <1>8, <1>9, <1>10, <1>11, <1>12, <1>13, <1>14,
     <1>15, <1>16, <1>17, <1>18 DEF Next

LEMMA TypesKeep == Types /\ [Next]_vars => Types'
BY PlatformsKeep, StoresKeep, GoroutinesKeep, CountsKeep DEF Types

\* The variables have their types, however often the platform is replaced and
\* the process crashes.
THEOREM TypeCorrect == Spec => []TypeOK
<1>1. Spec => []Types
  BY InitTypes, TypesKeep, PTL DEF Spec
<1> QED BY <1>1, TypesImplyTypeOK, PTL

-----------------------------------------------------------------------------
(* Who executes a run. A run is open only in the store it was started in; a  *)
(* store is opened with nothing open in it.                                  *)

\* Nobody knows of a call that has not started its run.
Fresh(c) ==
  /\ \A s \in Services : store[s][c] = "none" /\ idem[s] # c
  /\ file[c] = "none" /\ watcher[c].pc = "none"

RunInv ==
  /\ first <= opened + 1
  /\ serving # 0 => Alive(serving)
  /\ built # 0 => Alive(built)
  /\ \A c \in Calls :
       /\ call[c].pc \in {"idle", "sent"} => Fresh(c)
       /\ \A s \in Services : store[s][c] = "open" => call[c].svc = s

IInv == Types /\ RunInv

LEMMA InitRuns == Init => RunInv
BY ConstantsAreNumbers DEF Init, RunInv, Fresh, Services

\* OpenRunStore leaves no run open and makes none of nothing.
LEMMA OpenedStore ==
  ASSUME IInv, NEW s \in Services, Open(s)
  PROVE  /\ idem' = idem
         /\ \A t \in Services, c \in Calls :
              /\ store'[t][c] = "open" => store[t][c] = "open"
              /\ t # s => store'[t][c] = store[t][c]
              /\ store'[s][c] = "none" <=> file[c] = "none"
         /\ \A c \in Calls : file'[c] = "none" <=> file[c] = "none"
<1>1. \A st \in Status : Loaded(st) # "open" /\ (Loaded(st) = "none" <=> st = "none")
  BY DEF Loaded, Status, Settled
<1>2. /\ store' = [store EXCEPT ![s] = [c \in Calls |-> Loaded(file[c])]]
      /\ file' = [c \in Calls |-> Loaded(file[c])] /\ idem' = idem
  BY DEF Open
<1>3. store \in [Services -> [Calls -> Status]] /\ file \in [Calls -> Status]
  BY DEF IInv, Types, Stores
<1> QED BY <1>1, <1>2, <1>3

\* What a call that continues with a run does to the other ones.
LEMMA StartedChanges ==
  ASSUME Types, NEW c \in Calls, NEW r \in Calls, Started(c, r)
  PROVE  /\ call'[c].pc = "waiting" /\ call'[c].svc = call[c].svc
         /\ \A d \in Calls \ {c} : call'[d] = call[d] /\ watcher'[d] = watcher[d]
<1>1. call \in [Calls -> CallType] /\ watcher \in [Calls -> WatcherType]
  BY DEF Types, Goroutines
<1>2. call'[c].pc = "waiting" /\ call'[c].svc = call[c].svc
      /\ \A d \in Calls \ {c} : call'[d] = call[d]
  BY <1>1 DEF Started, CallType
<1>3. \A d \in Calls \ {c} : watcher'[d] = watcher[d]
  BY <1>1 DEF Started
<1> QED BY <1>2, <1>3

LEMMA RunsKeep == IInv /\ [Next]_vars => RunInv'
<1> SUFFICES ASSUME IInv, [Next]_vars PROVE RunInv'
  OBVIOUS
<1>1. CASE Boot
  <2>0. up' /\ built' = built /\ UNCHANGED <<call, watcher>> /\ ~up /\ first' = opened + 1
    BY <1>1 DEF Boot
  <2>a. built = 0
    BY <2>0 DEF IInv, RunInv, Alive
  <2>1. CASE Open(opened + 1) /\ serving' = opened + 1
    <3>0. opened + 1 \in Services
      BY <1>1, ConstantsAreNumbers DEF Boot, IInv, Types, Platforms, Services
    <3>1. opened + 1 \in Services /\ opened' = opened + 1
      BY <2>1, <3>0 DEF Open
    <3>2. \A c \in Calls : Fresh(c) => Fresh(c)'
      BY <2>0, <2>1, <3>1, OpenedStore DEF Fresh
    <3>3. \A c \in Calls : /\ call'[c].pc \in {"idle", "sent"} => Fresh(c)'
                           /\ \A s \in Services : store'[s][c] = "open" => call'[c].svc = s
      BY <2>0, <2>1, <3>1, <3>2, OpenedStore DEF IInv, RunInv
    <3> QED BY <2>0, <2>a, <2>1, <3>1, <3>3 DEF RunInv, Alive, IInv, Types, Platforms
  <2>2. CASE UNCHANGED <<opened, runs>> /\ serving' = 0
    BY <2>0, <2>a, <2>2 DEF runs, RunInv, Fresh, IInv, Types, Platforms
  <2> QED BY <1>1, <2>1, <2>2 DEF Boot
<1>2. CASE ReloadOpen
  <2>0. opened + 1 \in Services
    BY <1>2, ConstantsAreNumbers DEF ReloadOpen, IInv, Types, Platforms, Services
  <2>1. opened + 1 \in Services /\ Open(opened + 1) /\ opened' = opened + 1
        /\ UNCHANGED <<call, watcher>>
    BY <1>2, <2>0 DEF ReloadOpen, Open
  <2>2. \A c \in Calls : Fresh(c) => Fresh(c)'
    BY <2>1, OpenedStore DEF Fresh
  <2>3. \A c \in Calls : /\ call'[c].pc \in {"idle", "sent"} => Fresh(c)'
                         /\ \A s \in Services : store'[s][c] = "open" => call'[c].svc = s
    BY <2>1, <2>2, OpenedStore DEF IInv, RunInv
  <2>4. up' /\ first' = first /\ serving' = serving /\ built' = opened + 1
    BY <1>2 DEF ReloadOpen
  <2> QED BY <2>1, <2>3, <2>4 DEF IInv, RunInv, Types, Platforms, Alive
<1>3. CASE ReloadSwitch
  BY <1>3 DEF ReloadSwitch, runs, IInv, RunInv, Fresh, Alive, Types, Platforms
<1>4. CASE ReloadOff
  BY <1>4 DEF ReloadOff, runs, IInv, RunInv, Fresh, Alive, Types, Platforms
<1>5. CASE Crash
  <2>1. /\ UNCHANGED <<opened, first, store, file, idem>> /\ serving' = 0 /\ built' = 0
        /\ call' = [c \in Calls |-> [call[c] EXCEPT !.pc = IF call[c].pc = "idle" THEN "idle" ELSE "done"]]
        /\ watcher' = [c \in Calls |-> [watcher[c] EXCEPT
                                         !.pc = IF watcher[c].pc = "waiting" THEN "lost" ELSE watcher[c].pc]]
    BY <1>5 DEF Crash, runs, IInv, Types, Goroutines, CallType, WatcherType
  <2>2. \A c \in Calls : /\ call'[c].svc = call[c].svc
                         /\ call'[c].pc \in {"idle", "sent"} => call[c].pc = "idle"
    BY <2>1 DEF IInv, Types, Goroutines, CallType
  <2>3. \A c \in Calls : watcher[c].pc = "none" => watcher'[c].pc = "none"
    BY <2>1 DEF IInv, Types, Goroutines, WatcherType
  <2> QED BY <2>1, <2>2, <2>3 DEF IInv, RunInv, Fresh
<1>6. CASE Drain
  <2>1. UNCHANGED <<running, runs, call, watcher>>
    BY <1>6 DEF Drain
  <2> QED BY <2>1 DEF running, runs, IInv, RunInv, Fresh, Alive
<1>7. CASE Upload
  <2>1. UNCHANGED <<running, runs, call, watcher>>
    BY <1>7 DEF Upload
  <2> QED BY <2>1 DEF running, runs, IInv, RunInv, Fresh, Alive
<1>8. CASE UploadFails
  <2>1. UNCHANGED <<running, runs, call, watcher>>
    BY <1>8 DEF UploadFails
  <2> QED BY <2>1 DEF running, runs, IInv, RunInv, Fresh, Alive
<1>9. CASE UploadUnanswered
  <2>1. UNCHANGED <<running, runs, call, watcher>>
    BY <1>9 DEF UploadUnanswered
  <2> QED BY <2>1 DEF running, runs, IInv, RunInv, Fresh, Alive
<1>10. ASSUME NEW c \in Calls, Post(c) PROVE RunInv'
  <2>1. UNCHANGED <<running, runs, watcher>> /\ call[c].pc = "idle"
    BY <1>10 DEF Post
  <2>2. \A d \in Calls \ {c} : call'[d] = call[d]
    BY <1>10 DEF Post, IInv, Types, Goroutines
  <2>3. Fresh(c)
    BY <2>1 DEF IInv, RunInv
  <2>4. \A s \in Services : store[s][c] # "open"
    BY <2>3 DEF Fresh
  <2> QED BY <2>1, <2>2, <2>3, <2>4 DEF running, runs, IInv, RunInv, Fresh, Alive
<1>11. ASSUME NEW c \in Calls, Reuse(c) PROVE RunInv'
  <2>1. PICK r \in Calls : Started(c, r)
    BY <1>11 DEF Reuse, Known
  <2>2. UNCHANGED <<running, runs>>
    BY <1>11 DEF Reuse
  <2> QED BY <2>1, <2>2, StartedChanges DEF running, runs, IInv, RunInv, Fresh, Alive
<1>12. ASSUME NEW c \in Calls, StartRun(c) PROVE RunInv'
  <2>0. UNCHANGED running /\ call[c].pc = "sent" /\ call[c].svc \in Services
    BY <1>12 DEF StartRun, IInv, Types, Goroutines
  <2>1. CASE Started(c, c) /\ store' = [store EXCEPT ![call[c].svc][c] = "open"]
             /\ file' = [file EXCEPT ![c] = "open"]
             /\ idem' = IF c \in Keyed THEN [idem EXCEPT ![call[c].svc] = c] ELSE idem
    <3>1. /\ call'[c].pc = "waiting" /\ call'[c].svc = call[c].svc
          /\ \A d \in Calls \ {c} : call'[d] = call[d] /\ watcher'[d] = watcher[d]
      BY <2>1, StartedChanges DEF IInv
    <3>2. \A s \in Services : \A d \in Calls \ {c} : store'[s][d] = store[s][d]
      BY <2>1 DEF IInv, Types, Stores
    <3>3. \A s \in Services : store'[s][c] = "open" => s = call[c].svc
      <4>1. \A s \in Services : store[s][c] # "open"
        BY <2>0 DEF IInv, RunInv, Fresh
      <4> QED BY <2>0, <2>1, <4>1 DEF IInv, Types, Stores
    <3>4. \A s \in Services : \A d \in Calls \ {c} : idem[s] # d => idem'[s] # d
      BY <2>0, <2>1 DEF IInv, Types, Stores
    <3>5. \A d \in Calls \ {c} : file'[d] = file[d]
      BY <2>1 DEF IInv, Types, Stores
    <3>6. \A d \in Calls \ {c} : Fresh(d) => Fresh(d)'
      BY <3>1, <3>2, <3>4, <3>5 DEF Fresh
    <3> QED BY <2>0, <3>1, <3>2, <3>3, <3>6 DEF running, IInv, RunInv, Alive
  <2>2. CASE call' = [call EXCEPT ![c].pc = "done"] /\ UNCHANGED <<runs, watcher>>
    <3>1. /\ call'[c].pc = "done" /\ call'[c].svc = call[c].svc
          /\ \A d \in Calls \ {c} : call'[d] = call[d]
      BY <2>2 DEF IInv, Types, Goroutines, CallType
    <3> QED BY <2>0, <2>2, <3>1 DEF running, runs, IInv, RunInv, Fresh, Alive
  <2> QED BY <1>12, <2>1, <2>2 DEF StartRun
<1>13. ASSUME NEW c \in Calls, Settle(c) PROVE RunInv'
  <2>1. PICK s \in Services, st \in {"completed", "failed"} :
          /\ store[s][c] = "open" /\ store' = [store EXCEPT ![s][c] = st]
          /\ file' = [file EXCEPT ![c] = st]
    BY <1>13 DEF Settle
  <2>2. UNCHANGED <<running, idem, call, watcher>>
    BY <1>13 DEF Settle
  <2>3. ~Fresh(c)
    BY <2>1 DEF Fresh
  <2>4. \A t \in Services, d \in Calls :
          /\ store'[t][d] = "open" => store[t][d] = "open"
          /\ d # c => store'[t][d] = store[t][d] /\ file'[d] = file[d]
    BY <2>1 DEF IInv, Types, Stores
  <2>5. \A d \in Calls : Fresh(d) => Fresh(d)'
    BY <2>2, <2>3, <2>4 DEF Fresh
  <2> QED BY <2>2, <2>4, <2>5 DEF running, IInv, RunInv, Alive
<1>14. ASSUME NEW c \in Calls, Answer(c) PROVE RunInv'
  <2>1. UNCHANGED <<running, runs, watcher>> /\ call[c].pc \notin {"idle", "sent"}
    BY <1>14 DEF Answer
  <2>2. /\ call'[c].pc = "done" /\ call'[c].svc = call[c].svc
        /\ \A d \in Calls \ {c} : call'[d] = call[d]
    BY <1>14 DEF Answer, IInv, Types, Goroutines, CallType
  <2> QED BY <2>1, <2>2 DEF running, runs, IInv, RunInv, Fresh, Alive
<1>15. ASSUME NEW c \in Calls, Get(c) PROVE RunInv'
  <2>1. UNCHANGED <<running, runs, watcher>> /\ call[c].pc \notin {"idle", "sent"}
    BY <1>15 DEF Get
  <2>2. /\ call'[c].pc = "done" /\ call'[c].svc = call[c].svc
        /\ \A d \in Calls \ {c} : call'[d] = call[d]
    BY <1>15 DEF Get, IInv, Types, Goroutines, CallType
  <2> QED BY <2>1, <2>2 DEF running, runs, IInv, RunInv, Fresh, Alive
<1>16. ASSUME NEW c \in Calls, Sweep(c) PROVE RunInv'
  <2>1. UNCHANGED <<running, call, watcher>> /\ serving \in Services
        /\ store' = [store EXCEPT ![serving][c] = "none"] /\ file' = [file EXCEPT ![c] = "none"]
        /\ idem' = [s \in Services |-> IF idem[s] = c THEN None ELSE idem[s]]
    <3>1. serving \in Services
      BY <1>16, ConstantsAreNumbers DEF Sweep, IInv, Types, Platforms, Services
    <3> QED BY <1>16, <3>1 DEF Sweep
  <2>2. \A t \in Services, d \in Calls :
          /\ store'[t][d] = "open" => store[t][d] = "open"
          /\ store[t][d] = "none" => store'[t][d] = "none"
    BY <2>1 DEF IInv, Types, Stores
  <2>3. \A d \in Calls : file[d] = "none" => file'[d] = "none"
    BY <2>1 DEF IInv, Types, Stores
  <2>4. \A t \in Services, d \in Calls : idem[t] # d => idem'[t] # d
    BY <2>1, ConstantsAreNumbers
  <2>5. \A d \in Calls : Fresh(d) => Fresh(d)'
    BY <2>1, <2>2, <2>3, <2>4 DEF Fresh
  <2> QED BY <2>1, <2>2, <2>5 DEF running, IInv, RunInv, Alive
<1>17. ASSUME NEW c \in Calls, Watch(c) PROVE RunInv'
  <2>1. UNCHANGED <<running, runs, call>> /\ watcher[c].pc = "waiting"
    BY <1>17 DEF Watch
  <2>2. \A d \in Calls \ {c} : watcher'[d] = watcher[d]
    BY <1>17 DEF Watch, IInv, Types, Goroutines
  <2>3. ~Fresh(c)
    BY <2>1 DEF Fresh
  <2> QED BY <2>1, <2>2, <2>3 DEF running, runs, IInv, RunInv, Fresh, Alive
<1>18. CASE UNCHANGED vars
  <2>1. UNCHANGED <<running, runs, call, watcher>>
    BY <1>18 DEF vars
  <2> QED BY <2>1 DEF running, runs, IInv, RunInv, Fresh, Alive
<1> QED
  BY <1>1, <1>2, <1>3, <1>4, <1>5, <1>6, <1>7, <1>8, <1>9, <1>10, <1>11, <1>12, <1>13, <1>14,
     <1>15, <1>16, <1>17, <1>18 DEF Next

LEMMA Invariance == Spec => []IInv
<1>1. Init => IInv
  BY InitTypes, InitRuns DEF IInv
<1>2. IInv /\ [Next]_vars => IInv'
  BY TypesKeep, RunsKeep DEF IInv
<1> QED BY <1>1, <1>2, PTL DEF Spec

\* A run that the API shows as open is executed by a goroutine of the present
\* process in the store that is asked, after any number of crashes and reloads.
THEOREM OpenRunsAreExecuted == Spec => []OpenRunIsExecuted
<1>1. IInv => OpenRunIsExecuted
  <2>1. ASSUME IInv, serving # 0, NEW r \in Calls, store[serving][r] = "open"
        PROVE  Alive(serving) /\ call[r].svc = serving
    <3>1. serving \in Services
      BY <2>1, ConstantsAreNumbers DEF IInv, Types, Platforms, Services
    <3> QED BY <2>1, <3>1 DEF IInv, RunInv
  <2> QED BY <2>1 DEF OpenRunIsExecuted
<1> QED BY <1>1, Invariance, PTL

-----------------------------------------------------------------------------
(* Usage, when a request that is sent again has an id of its own: a run has  *)
(* the one watcher that the call which started it has, and that counts once. *)

Billed(c) ==
  /\ watcher[c].pc # "none" => watcher[c].run = c
  /\ watcher[c].pc \in {"none", "waiting"} => Copies(c) = 0
  /\ counter[c] + batch[c] <= 1 /\ Copies(c) <= 1 + lost
  /\ crashes = 0 =>
       /\ watcher[c].pc \in {"recorded", "lost"} => Copies(c) >= 1
       /\ watcher[c].pc = "none" => file[c] = "none" /\ \A s \in Services : store[s][c] = "none"

UsageInv == IInv /\ \A c \in Calls : Billed(c)

LEMMA InitUsage == Init => \A c \in Calls : Billed(c)
BY ConstantsAreNumbers DEF Init, Billed, Copies, Nothing

\* What is counted in each place is a number.
LEMMA CountsAreNumbers ==
  ASSUME Types, NEW c \in Calls
  PROVE  counter[c] \in Nat /\ batch[c] \in Nat /\ ledger[c] \in Nat /\ lost \in Nat
         /\ crashes \in Nat
BY ConstantsAreNumbers DEF Types, Counts

\* The steps that move no usage and touch no watcher but that of call d.
LEMMA BilledKeeps ==
  ASSUME UsageInv, NEW c \in Calls, UNCHANGED <<usage, crashes>>, watcher'[c] = watcher[c],
         file[c] = "none" => file'[c] = "none",
         \A s \in Services : (file[c] = "none" /\ \A t \in Services : store[t][c] = "none")
                                => store'[s][c] = "none"
  PROVE  Billed(c)'
BY DEF UsageInv, Billed, Copies, usage

\* A watcher is started for the run that its own call has started, and for no other.
LEMMA OwnWatcher ==
  ASSUME ~SameId, UsageInv, NEW c \in Calls, NEW r \in Calls, Started(c, r)
  PROVE  IF r = c THEN watcher'[c].pc = "waiting" /\ watcher'[c].run = c
                  ELSE watcher' = watcher
<1>1. StartsWatcher(c, r) <=> r = c
  BY DEF StartsWatcher, RequestID
<1> QED BY <1>1 DEF Started, UsageInv, IInv, Types, Goroutines

\* A report, however it ends.
LEMMA ReportKeeps ==
  ASSUME UsageInv, Drain \/ Upload \/ UploadFails \/ UploadUnanswered, NEW c \in Calls
  PROVE  Billed(c)'
<1>1. Billed(c) /\ counter[c] \in Nat /\ batch[c] \in Nat /\ ledger[c] \in Nat /\ lost \in Nat
  BY CountsAreNumbers DEF UsageInv, IInv
<1>2. /\ UNCHANGED <<watcher, store, file, crashes>>
  BY DEF Drain, Upload, UploadFails, UploadUnanswered, runs
<1>3. CASE Drain
  <2>1. batch[c] = 0
    BY <1>3 DEF Drain, UsageInv, IInv, Types, Counts, Nothing
  <2>2. batch'[c] = counter[c] /\ counter'[c] = 0 /\ UNCHANGED <<ledger, lost>>
    BY <1>3 DEF Drain, Nothing
  <2>3. counter'[c] + batch'[c] = counter[c] + batch[c] /\ Copies(c)' = Copies(c)
    BY <1>1, <2>1, <2>2 DEF Copies
  <2> QED BY <1>1, <1>2, <2>2, <2>3 DEF Billed
<1>4. CASE Upload
  <2>1. ledger'[c] = ledger[c] + batch[c] /\ batch'[c] = 0 /\ UNCHANGED <<counter, lost>>
    BY <1>4 DEF Upload, Sum, Nothing
  <2> QED BY <1>1, <1>2, <2>1 DEF Billed, Copies
<1>5. CASE UploadFails
  <2>1. counter'[c] = counter[c] + batch[c] /\ batch'[c] = 0 /\ UNCHANGED <<ledger, lost>>
    BY <1>5 DEF UploadFails, Restored, Sum, Nothing
  <2> QED BY <1>1, <1>2, <2>1 DEF Billed, Copies
<1>6. CASE UploadUnanswered
  <2>1. /\ ledger'[c] = ledger[c] + batch[c] /\ lost' = lost + 1
        /\ counter'[c] = counter[c] + batch[c] /\ batch'[c] = 0
    BY <1>6 DEF UploadUnanswered, Restored, Sum, Nothing
  <2> QED BY <1>1, <1>2, <2>1 DEF Billed, Copies
<1> QED BY <1>3, <1>4, <1>5, <1>6

LEMMA UsageKeeps ==
  ASSUME ~SameId, UsageInv, [Next]_vars
  PROVE  \A c \in Calls : Billed(c)'
<1> SUFFICES ASSUME NEW c \in Calls PROVE Billed(c)'
  OBVIOUS
<1>1. ASSUME NEW s \in Services, Open(s), UNCHANGED <<watcher, usage, crashes>> PROVE Billed(c)'
  <2>1. /\ file[c] = "none" => file'[c] = "none"
        /\ \A t \in Services : (file[c] = "none" /\ \A t2 \in Services : store[t2][c] = "none")
                                  => store'[t][c] = "none"
    BY <1>1, OpenedStore DEF UsageInv
  <2> QED BY <1>1, <2>1, BilledKeeps
<1>2. ASSUME UNCHANGED <<runs, usage, crashes>>, watcher'[c] = watcher[c] PROVE Billed(c)'
  BY <1>2, BilledKeeps DEF runs
<1>3. CASE Boot
  <2>1. CASE Open(opened + 1)
    <3>1. opened + 1 \in Services
      BY <1>3, ConstantsAreNumbers DEF Boot, UsageInv, IInv, Types, Platforms, Services
    <3> QED BY <1>1, <1>3, <2>1, <3>1 DEF Boot
  <2>2. CASE UNCHANGED <<opened, runs>>
    BY <1>2, <1>3, <2>2 DEF Boot
  <2> QED BY <1>3, <2>1, <2>2 DEF Boot
<1>4. CASE ReloadOpen
  <2>1. opened + 1 \in Services
    BY <1>4, ConstantsAreNumbers DEF ReloadOpen, UsageInv, IInv, Types, Platforms, Services
  <2> QED BY <1>1, <1>4, <2>1 DEF ReloadOpen
<1>5. CASE ReloadSwitch
  BY <1>2, <1>5 DEF ReloadSwitch
<1>6. CASE ReloadOff
  BY <1>2, <1>6 DEF ReloadOff
<1>7. CASE Crash
  <2>1. Billed(c) /\ ledger[c] \in Nat /\ counter[c] \in Nat /\ batch[c] \in Nat /\ lost \in Nat
        /\ crashes \in Nat
    BY CountsAreNumbers DEF UsageInv, IInv
  <2>2. /\ crashes' = crashes + 1 /\ counter'[c] = 0 /\ batch'[c] = 0
        /\ UNCHANGED <<runs, ledger, lost>>
    BY <1>7 DEF Crash, Nothing
  <2>3. watcher'[c] = [watcher[c] EXCEPT !.pc = IF watcher[c].pc = "waiting" THEN "lost"
                                                                          ELSE watcher[c].pc]
    BY <1>7 DEF Crash
  <2>4. watcher[c] \in WatcherType
    BY DEF UsageInv, IInv, Types, Goroutines
  <2>5. /\ watcher'[c].run = watcher[c].run
        /\ watcher'[c].pc = IF watcher[c].pc = "waiting" THEN "lost" ELSE watcher[c].pc
    BY <2>3, <2>4 DEF WatcherType
  <2>6. crashes' # 0
    BY <2>1, <2>2
  <2>7. Copies(c)' = ledger[c] /\ counter'[c] + batch'[c] = 0 /\ ledger[c] <= Copies(c)
    BY <2>1, <2>2 DEF Copies
  <2>8. Copies(c) \in Nat /\ lost' = lost
    BY <2>1, <2>2 DEF Copies
  <2> QED BY <2>1, <2>5, <2>6, <2>7, <2>8 DEF Billed
<1>8. CASE Drain \/ Upload \/ UploadFails \/ UploadUnanswered
  BY <1>8, ReportKeeps
<1>9. ASSUME NEW d \in Calls, Post(d) PROVE Billed(c)'
  BY <1>2, <1>9 DEF Post
<1>10. ASSUME NEW d \in Calls, Reuse(d) PROVE Billed(c)'
  <2>1. PICK r \in Calls : r \in Known(d) /\ Started(d, r)
    BY <1>10 DEF Reuse, Known
  <2>2. call[d].pc = "sent" /\ UNCHANGED <<runs, usage, crashes>> /\ call[d].svc \in Services
    BY <1>10 DEF Reuse, UsageInv, IInv, Types, Goroutines
  <2>3. r # d
    BY <2>1, <2>2 DEF Known, UsageInv, IInv, RunInv, Fresh
  <2>4. watcher' = watcher
    BY <2>1, <2>3, OwnWatcher
  <2> QED BY <1>2, <2>2, <2>4
<1>11. ASSUME NEW d \in Calls, StartRun(d) PROVE Billed(c)'
  <2>1. UNCHANGED <<usage, crashes>> /\ call[d].pc = "sent"
    BY <1>11 DEF StartRun
  <2>2. CASE UNCHANGED <<runs, watcher>>
    BY <1>2, <2>1, <2>2
  <2>3. CASE /\ Started(d, d) /\ store' = [store EXCEPT ![call[d].svc][d] = "open"]
             /\ file' = [file EXCEPT ![d] = "open"]
    <3>1. CASE c = d
      <4>1. watcher'[c].pc = "waiting" /\ watcher'[c].run = c
        BY <2>3, <3>1, OwnWatcher
      <4>2. watcher[c].pc = "none"
        BY <2>1, <3>1 DEF UsageInv, IInv, RunInv, Fresh
      <4> QED BY <2>1, <4>1, <4>2 DEF UsageInv, Billed, Copies, usage
    <3>2. CASE c # d
      <4>1. watcher'[c] = watcher[c]
        BY <2>3, <3>2, StartedChanges DEF UsageInv, IInv
      <4>2. file'[c] = file[c] /\ \A s \in Services : store'[s][c] = store[s][c]
        BY <2>3, <3>2 DEF UsageInv, IInv, Types, Stores
      <4> QED BY <2>1, <4>1, <4>2, BilledKeeps
    <3> QED BY <3>1, <3>2
  <2> QED BY <1>11, <2>2, <2>3 DEF StartRun
<1>12. ASSUME NEW d \in Calls, Settle(d) PROVE Billed(c)'
  <2>1. PICK s \in Services, st \in {"completed", "failed"} :
          /\ store[s][d] = "open" /\ store' = [store EXCEPT ![s][d] = st]
          /\ file' = [file EXCEPT ![d] = st]
    BY <1>12 DEF Settle
  <2>2. UNCHANGED <<watcher, usage, crashes>>
    BY <1>12 DEF Settle
  <2>3. CASE c = d
    <3>1. watcher[c].pc # "none" \/ crashes # 0
      BY <2>1, <2>3 DEF UsageInv, Billed
    <3> QED BY <2>2, <3>1 DEF UsageInv, Billed, Copies, usage
  <2>4. CASE c # d
    <3>1. file'[c] = file[c] /\ \A t \in Services : store'[t][c] = store[t][c]
      BY <2>1, <2>4 DEF UsageInv, IInv, Types, Stores
    <3> QED BY <2>2, <3>1, BilledKeeps
  <2> QED BY <2>3, <2>4
<1>13. ASSUME NEW d \in Calls, Answer(d) PROVE Billed(c)'
  BY <1>2, <1>13 DEF Answer
<1>14. ASSUME NEW d \in Calls, Get(d) PROVE Billed(c)'
  BY <1>2, <1>14 DEF Get
<1>15. ASSUME NEW d \in Calls, Sweep(d) PROVE Billed(c)'
  <2>1. /\ UNCHANGED <<watcher, usage, crashes>> /\ file' = [file EXCEPT ![d] = "none"]
        /\ store' = [store EXCEPT ![serving][d] = "none"]
    BY <1>15 DEF Sweep
  <2>2. /\ file[c] = "none" => file'[c] = "none"
        /\ \A t \in Services : store[t][c] = "none" => store'[t][c] = "none"
    BY <2>1 DEF UsageInv, IInv, Types, Stores
  <2> QED BY <2>1, <2>2, BilledKeeps
<1>16. ASSUME NEW d \in Calls, Watch(d) PROVE Billed(c)'
  <2>1. /\ watcher[d].pc = "waiting" /\ watcher[d].run = d
        /\ watcher' = [watcher EXCEPT ![d].pc = "recorded"]
        /\ counter' = [counter EXCEPT ![d] = @ + 1]
        /\ UNCHANGED <<runs, batch, ledger, lost, crashes>>
    BY <1>16 DEF Watch, UsageInv, Billed
  <2>2. Billed(c) /\ counter[c] \in Nat /\ batch[c] \in Nat /\ ledger[c] \in Nat /\ lost \in Nat
    BY CountsAreNumbers DEF UsageInv, IInv
  <2>3. CASE c = d
    <3>1. watcher'[c].pc = "recorded" /\ watcher'[c].run = c
      BY <2>1, <2>3 DEF UsageInv, IInv, Types, Goroutines, WatcherType
    <3>2. counter'[c] = counter[c] + 1
      BY <2>1, <2>3 DEF UsageInv, IInv, Types, Counts
    <3>3. counter[c] = 0 /\ batch[c] = 0 /\ ledger[c] = 0
      BY <2>1, <2>2, <2>3 DEF Billed, Copies
    <3> QED BY <2>1, <2>2, <3>1, <3>2, <3>3 DEF Billed, Copies
  <2>4. CASE c # d
    <3>1. watcher'[c] = watcher[c] /\ counter'[c] = counter[c]
      BY <2>1, <2>4 DEF UsageInv, IInv, Types, Goroutines, Counts
    <3> QED BY <2>1, <2>2, <3>1 DEF Billed, Copies, runs
  <2> QED BY <2>3, <2>4
<1>17. CASE UNCHANGED vars
  BY <1>2, <1>17 DEF vars
<1> QED
  BY <1>3, <1>4, <1>5, <1>6, <1>7, <1>8, <1>9, <1>10, <1>11, <1>12, <1>13, <1>14, <1>15, <1>16,
     <1>17 DEF Next

\* The watchers that wait for a run are the one of its own call, or none.
LEMMA UsageFollows == UsageInv => UsageConserved
<1> SUFFICES ASSUME UsageInv, NEW r \in Calls
             PROVE  /\ Copies(r) + Cardinality(Waiting(r)) <= 1 + lost
                    /\ crashes = 0 /\ (\E s \in Services : store[s][r] # "none") =>
                         Copies(r) + Cardinality(Waiting(r)) >= 1
  BY DEF UsageConserved
<1>1. /\ Billed(r) /\ Copies(r) \in Nat /\ lost \in Nat
      /\ watcher[r].pc \in {"none", "waiting", "recorded", "lost"}
  <2>1. watcher[r].pc \in {"none", "waiting", "recorded", "lost"}
    BY DEF UsageInv, IInv, Types, Goroutines, WatcherType
  <2> QED BY <2>1, CountsAreNumbers DEF UsageInv, IInv, Copies
<1>2. CASE watcher[r].pc = "waiting"
  <2>1. Waiting(r) = {r}
    BY <1>2 DEF Waiting, UsageInv, Billed
  <2>2. Cardinality(Waiting(r)) = 1
    BY <2>1, FS_Singleton
  <2> QED BY <1>1, <1>2, <2>2 DEF Billed
<1>3. CASE watcher[r].pc # "waiting"
  <2>1. Waiting(r) = {}
    BY <1>3 DEF Waiting, UsageInv, Billed
  <2>2. Cardinality(Waiting(r)) = 0
    BY <2>1, FS_EmptySet
  <2> QED BY <1>1, <1>3, <2>2 DEF Billed
<1> QED BY <1>2, <1>3

\* The usage of a run is counted once, but for reports whose answer was lost and for
\* crashes, however often a request is repeated, a report refused and the platform
\* replaced, when every send of a request has an X-Request-ID of its own.
THEOREM UsageIsConserved ==
  ASSUME ~SameId PROVE Spec => []UsageConserved
<1>1. Init => UsageInv
  BY InitTypes, InitRuns, InitUsage DEF UsageInv, IInv
<1>2. UsageInv /\ [Next]_vars => UsageInv'
  BY TypesKeep, RunsKeep, UsageKeeps DEF UsageInv, IInv
<1> QED BY <1>1, <1>2, UsageFollows, PTL DEF Spec
=============================================================================
