-------------------------- MODULE ConfigSyncProofs --------------------------
(***************************************************************************)
(* Proofs about ConfigSync, for any number of generations, administrators, *)
(* keys, crashes and failures.                                             *)
(***************************************************************************)
EXTENDS ConfigSync, WellFoundedInduction, TLAPS

\* The larger of two numbers.
LEMMA MaxOfTwo ==
  ASSUME NEW a \in Int, NEW b \in Int
  PROVE  Max({a, b}) \in {a, b} /\ Max({a, b}) >= a /\ Max({a, b}) >= b
<1>1. \E x \in {a, b} : \A y \in {a, b} : x >= y
  BY SMT
<1> QED BY <1>1, SMT DEF Max

\* currentGenerationVersion: a set of files has one with the highest number.
LEMMA MaxOfVersions ==
  ASSUME NEW S \in SUBSET Versions, S # {}
  PROVE  Max(S) \in S
<1> MaxVersion \in Nat
  BY ConfigAssumption DEF ConfigAssumption
<1> DEFINE T == {MaxVersion - x : x \in S}
<1>1. T \subseteq Nat /\ T # {}
  <2>1. \A x \in S : MaxVersion - x \in Nat
    BY DEF Versions
  <2>2. PICK x \in S : TRUE
    OBVIOUS
  <2>3. MaxVersion - x \in T
    OBVIOUS
  <2> QED BY <2>1, <2>3
<1> DEFINE R == {ss \in Nat \X Nat : ss[1] < ss[2]}
<1>a. IsWellFoundedOn(R, Nat)
  BY NatLessThanWellFounded DEF OpToRel
<1>2. \E x \in T : \A y \in T : ~(<<y, x>> \in R)
  <2> HIDE DEF R, T
  <2> QED BY <1>1, <1>a, WFMin
<1>3. \E x \in T : \A y \in T : ~(y < x)
  BY <1>1, <1>2 
<1>4. \E x \in S : \A y \in S : x >= y
  BY <1>3 DEF Versions
<1> QED BY <1>4, SMT DEF Max

\* What a step of the system is, one disjunct per action.
LEMMA Steps ==
  ASSUME [Next]_vars
  PROVE  \/ Publish \/ Boot \/ Crash \/ ImportKilled \/ CurrentLost
         \/ Register \/ StoreCredential \/ RenameToken \/ Wake \/ FetchNothing \/ FetchNewer
         \/ AgentSet \/ AgentHook \/ Import
         \/ \E p \in Writers : \/ WriteGeneration(p) \/ WriteCurrent(p) \/ TruncateMarker(p)
                               \/ WriteMarker(p) \/ Prune(p) \/ StoreFails(p)
         \/ \E a \in Admins : AdminClone(a) \/ AdminWrite(a) \/ AdminSet(a) \/ AdminHook(a)
         \/ UNCHANGED vars
<1>1. "agent" \in Writers
  BY DEF Writers
<1> QED BY <1>1, Zenon DEF Next, AgentSteps, StoreSteps, AdminSteps

LEMMA ConstantsAreNumbers ==
  /\ MaxVersion \in Nat /\ MaxFaults \in Nat /\ Versions \subseteq 0..MaxVersion
  /\ Modes \subseteq {"connected", "airgapped"} /\ Packaged \in Config
  /\ \A v \in 0..MaxVersion : Generation(v) \in Config
BY ConfigAssumption DEF ConfigAssumption, Versions, Packaged, Generation, Config

LEMMA NewestIsAVersion ==
  ASSUME NEW a \in 0..MaxVersion, NEW b \in 0..MaxVersion
  PROVE  Max({a, b}) \in 0..MaxVersion /\ Max({a, b}) >= a /\ Max({a, b}) >= b
<1>1. a \in Int /\ b \in Int
  BY ConstantsAreNumbers
<1>2. Max({a, b}) \in {a, b} /\ Max({a, b}) >= a /\ Max({a, b}) >= b
  BY <1>1, MaxOfTwo
<1> QED BY <1>2

LEMMA FilesHaveANewest ==
  ASSUME gens \subseteq Versions
  PROVE  currentGenerationVersion \in 0..MaxVersion
<1>1. CASE gens = {}
  BY <1>1, ConstantsAreNumbers DEF currentGenerationVersion
<1>2. CASE gens # {}
  <2>1. Max(gens) \in gens
    BY <1>2, MaxOfVersions
  <2> QED BY <1>2, <2>1, ConstantsAreNumbers DEF currentGenerationVersion
<1> QED BY <1>1, <1>2

-----------------------------------------------------------------------------
(* Types. A writer that stores has a generation that can be stored. *)

Storing == {"gen", "current", "truncate", "marker", "prune"}

WriterType == [Writers -> [pc: Pcs, v: 0..MaxVersion, force: BOOLEAN]]
AdminType  == [Admins -> [pc: {"idle", "write", "set", "hook"}, cfg: Config]]

Flags ==
  /\ spent \in BOOLEAN /\ used \in BOOLEAN /\ credential \in BOOLEAN /\ up \in BOOLEAN
  /\ overlapped \in BOOLEAN

Numbers ==
  /\ mode \in Modes /\ latest \in 0..MaxVersion
  /\ current \in 0..MaxVersion /\ marker \in 0..MaxVersion
  /\ gens \subseteq Versions
  /\ applied \in 0..MaxVersion /\ reached \in 0..MaxVersion /\ faults \in 0..MaxFaults

Configs == yaml \in Config /\ cfg \in Config /\ platform \in Config

Processes ==
  /\ writer \in WriterType /\ admin \in AdminType
  /\ \A p \in Writers : writer[p].pc \in Storing \cup {"set", "hook"} => writer[p].v \in Versions
  /\ ~up => writer["agent"].pc = "off" /\ \A a \in Admins : admin[a].pc = "idle"

Types == Flags /\ Numbers /\ Configs /\ Processes

LEMMA TypesImplyTypeOK == Types => TypeOK
BY DEF Types, Flags, Numbers, Configs, Processes, WriterType, AdminType, TypeOK, Locked

\* A writer that goes on with its version.
LEMMA GotoKeeps ==
  ASSUME Types, NEW p \in Writers, NEW pc \in Pcs, Goto(p, pc)
  PROVE  /\ writer' \in WriterType
         /\ writer'[p].pc = pc /\ writer'[p].v = writer[p].v /\ writer'[p].force = writer[p].force
         /\ \A q \in Writers \ {p} : writer'[q] = writer[q]
BY DEF Types, Processes, WriterType, Goto

LEMMA InitTypes == Init => Types
<1> SUFFICES ASSUME Init PROVE Types
  OBVIOUS
<1>0. Flags
  BY Zenon DEF Init, Flags
<1>1. Numbers
  BY ConstantsAreNumbers DEF Init, Numbers
<1>2. Configs
  BY ConstantsAreNumbers DEF Init, Configs
<1>3. Processes
  BY ConstantsAreNumbers DEF Init, Processes, Off, Idle, Pcs, Writers, WriterType, AdminType, Storing
<1> QED BY <1>0, <1>1, <1>2, <1>3 DEF Types

LEMMA FlagsKeep == Flags /\ [Next]_vars => Flags'
<1> SUFFICES ASSUME Flags, [Next]_vars PROVE Flags'
  OBVIOUS
<1> USE DEF Flags, disk
<1>1. CASE Publish
  BY <1>1, Zenon DEF Publish
<1>2. CASE Boot
  BY <1>2, Zenon DEF Boot
<1>3. CASE Crash
  BY <1>3, Zenon DEF Crash
<1>4. CASE ImportKilled
  BY <1>4, Zenon DEF ImportKilled
<1>5. CASE CurrentLost
  BY <1>5, Zenon DEF CurrentLost
<1>6. CASE Register
  BY <1>6, Zenon DEF Register
<1>7. CASE StoreCredential
  BY <1>7, Zenon DEF StoreCredential
<1>8. CASE RenameToken
  BY <1>8, Zenon DEF RenameToken
<1>9. CASE Wake
  BY <1>9, Zenon DEF Wake
<1>10. CASE FetchNothing
  BY <1>10, Zenon DEF FetchNothing
<1>11. CASE FetchNewer
  BY <1>11, Zenon DEF FetchNewer
<1>12. CASE AgentSet
  <2>1. HookPending \in BOOLEAN
    BY DEF HookPending
  <2> QED BY <1>12, <2>1, Zenon DEF AgentSet
<1>13. CASE AgentHook
  BY <1>13, Zenon DEF AgentHook
<1>14. CASE Import
  BY <1>14, Zenon DEF Import
<1>15. ASSUME NEW p \in Writers, WriteGeneration(p) PROVE Flags'
  BY <1>15, Zenon DEF WriteGeneration
<1>16. ASSUME NEW p \in Writers, WriteCurrent(p) PROVE Flags'
  BY <1>16, Zenon DEF WriteCurrent
<1>17. ASSUME NEW p \in Writers, TruncateMarker(p) PROVE Flags'
  BY <1>17, Zenon DEF TruncateMarker
<1>18. ASSUME NEW p \in Writers, WriteMarker(p) PROVE Flags'
  BY <1>18, Zenon DEF WriteMarker
<1>19. ASSUME NEW p \in Writers, Prune(p) PROVE Flags'
  BY <1>19, Zenon DEF Prune
<1>20. ASSUME NEW p \in Writers, StoreFails(p) PROVE Flags'
  BY <1>20, Zenon DEF StoreFails
<1>21. ASSUME NEW a \in Admins, AdminClone(a) PROVE Flags'
  BY <1>21, Zenon DEF AdminClone
<1>22. ASSUME NEW a \in Admins, AdminWrite(a) PROVE Flags'
  BY <1>22, Zenon DEF AdminWrite
<1>23. ASSUME NEW a \in Admins, AdminSet(a) PROVE Flags'
  <2>1. HookPending \in BOOLEAN
    BY DEF HookPending
  <2> QED BY <1>23, <2>1, Zenon DEF AdminSet
<1>24. ASSUME NEW a \in Admins, AdminHook(a) PROVE Flags'
  BY <1>24, Zenon DEF AdminHook
<1>25. CASE UNCHANGED vars
  BY <1>25, Zenon DEF vars
<1> QED
  BY <1>1, <1>2, <1>3, <1>4, <1>5, <1>6, <1>7, <1>8, <1>9, <1>10, <1>11, <1>12, <1>13, <1>14,
     <1>15, <1>16, <1>17, <1>18, <1>19, <1>20, <1>21, <1>22, <1>23, <1>24, <1>25, Steps

LEMMA NumbersKeep == Types /\ [Next]_vars => Numbers'
<1> SUFFICES ASSUME Types, [Next]_vars PROVE Numbers'
  OBVIOUS
<1> USE ConstantsAreNumbers DEF Types, Numbers, Processes, WriterType, Fault, disk, Writers, Storing
<1>1. CASE Publish
  BY <1>1 DEF Publish, Versions
<1>2. CASE Boot
  <2>1. currentGenerationVersion \in 0..MaxVersion
    BY FilesHaveANewest
  <2>2. currentAppliedVersion \in 0..MaxVersion
    BY <2>1 DEF currentAppliedVersion
  <2>3. Max({reached, current}) \in 0..MaxVersion
    BY NewestIsAVersion
  <2> QED BY <1>2, <2>2, <2>3 DEF Boot
<1>3. CASE Crash
  BY <1>3 DEF Crash
<1>4. CASE ImportKilled
  BY <1>4 DEF ImportKilled
<1>5. CASE CurrentLost
  BY <1>5 DEF CurrentLost
<1>6. CASE Register
  BY <1>6 DEF Register
<1>7. CASE StoreCredential
  BY <1>7 DEF StoreCredential
<1>8. CASE RenameToken
  BY <1>8 DEF RenameToken
<1>9. CASE Wake
  BY <1>9 DEF Wake
<1>10. CASE FetchNothing
  BY <1>10 DEF FetchNothing
<1>11. CASE FetchNewer
  BY <1>11 DEF FetchNewer
<1>12. CASE AgentSet
  <2>1. writer["agent"].v \in 0..MaxVersion
    OBVIOUS
  <2>2. Max({reached, writer["agent"].v}) \in 0..MaxVersion
    BY <2>1, NewestIsAVersion
  <2> QED BY <1>12, <2>2 DEF AgentSet
<1>13. CASE AgentHook
  BY <1>13 DEF AgentHook
<1>14. CASE Import
  BY <1>14 DEF Import
<1>15. ASSUME NEW p \in Writers, WriteGeneration(p) PROVE Numbers'
  BY <1>15 DEF WriteGeneration
<1>16. ASSUME NEW p \in Writers, WriteCurrent(p) PROVE Numbers'
  BY <1>16 DEF WriteCurrent
<1>17. ASSUME NEW p \in Writers, TruncateMarker(p) PROVE Numbers'
  BY <1>17 DEF TruncateMarker
<1>18. ASSUME NEW p \in Writers, WriteMarker(p) PROVE Numbers'
  BY <1>18 DEF WriteMarker
<1>19. ASSUME NEW p \in Writers, Prune(p) PROVE Numbers'
  BY <1>19 DEF Prune, Pruned
<1>20. ASSUME NEW p \in Writers, StoreFails(p) PROVE Numbers'
  BY <1>20 DEF StoreFails
<1>21. ASSUME NEW a \in Admins, AdminClone(a) PROVE Numbers'
  BY <1>21 DEF AdminClone
<1>22. ASSUME NEW a \in Admins, AdminWrite(a) PROVE Numbers'
  BY <1>22 DEF AdminWrite
<1>23. ASSUME NEW a \in Admins, AdminSet(a) PROVE Numbers'
  BY <1>23 DEF AdminSet
<1>24. ASSUME NEW a \in Admins, AdminHook(a) PROVE Numbers'
  BY <1>24 DEF AdminHook
<1>25. CASE UNCHANGED vars
  BY <1>25 DEF vars
<1> QED
  BY <1>1, <1>2, <1>3, <1>4, <1>5, <1>6, <1>7, <1>8, <1>9, <1>10, <1>11, <1>12, <1>13, <1>14,
     <1>15, <1>16, <1>17, <1>18, <1>19, <1>20, <1>21, <1>22, <1>23, <1>24, <1>25, Steps

LEMMA ConfigsKeep == Types /\ [Next]_vars => Configs'
<1> SUFFICES ASSUME Types, [Next]_vars PROVE Configs'
  OBVIOUS
<1> USE ConstantsAreNumbers DEF Types, Configs, Processes, WriterType, AdminType, Fault, disk, Writers
<1>1. CASE Publish
  BY <1>1 DEF Publish
<1>2. CASE Boot
  BY <1>2 DEF Boot, Numbers
<1>3. CASE Crash
  BY <1>3 DEF Crash
<1>4. CASE ImportKilled
  BY <1>4 DEF ImportKilled
<1>5. CASE CurrentLost
  BY <1>5 DEF CurrentLost
<1>6. CASE Register
  BY <1>6 DEF Register
<1>7. CASE StoreCredential
  BY <1>7 DEF StoreCredential
<1>8. CASE RenameToken
  BY <1>8 DEF RenameToken
<1>9. CASE Wake
  BY <1>9 DEF Wake
<1>10. CASE FetchNothing
  BY <1>10 DEF FetchNothing
<1>11. CASE FetchNewer
  BY <1>11 DEF FetchNewer
<1>12. CASE AgentSet
  BY <1>12 DEF AgentSet
<1>13. CASE AgentHook
  BY <1>13 DEF AgentHook
<1>14. CASE Import
  BY <1>14 DEF Import
<1>15. ASSUME NEW p \in Writers, WriteGeneration(p) PROVE Configs'
  BY <1>15 DEF WriteGeneration
<1>16. ASSUME NEW p \in Writers, WriteCurrent(p) PROVE Configs'
  BY <1>16 DEF WriteCurrent
<1>17. ASSUME NEW p \in Writers, TruncateMarker(p) PROVE Configs'
  BY <1>17 DEF TruncateMarker
<1>18. ASSUME NEW p \in Writers, WriteMarker(p) PROVE Configs'
  BY <1>18 DEF WriteMarker
<1>19. ASSUME NEW p \in Writers, Prune(p) PROVE Configs'
  BY <1>19 DEF Prune
<1>20. ASSUME NEW p \in Writers, StoreFails(p) PROVE Configs'
  BY <1>20 DEF StoreFails
<1>21. ASSUME NEW a \in Admins, AdminClone(a) PROVE Configs'
  BY <1>21 DEF AdminClone
<1>22. ASSUME NEW a \in Admins, AdminWrite(a) PROVE Configs'
  BY <1>22 DEF AdminWrite
<1>23. ASSUME NEW a \in Admins, AdminSet(a) PROVE Configs'
  BY <1>23 DEF AdminSet
<1>24. ASSUME NEW a \in Admins, AdminHook(a) PROVE Configs'
  BY <1>24 DEF AdminHook
<1>25. CASE UNCHANGED vars
  BY <1>25 DEF vars
<1> QED
  BY <1>1, <1>2, <1>3, <1>4, <1>5, <1>6, <1>7, <1>8, <1>9, <1>10, <1>11, <1>12, <1>13, <1>14,
     <1>15, <1>16, <1>17, <1>18, <1>19, <1>20, <1>21, <1>22, <1>23, <1>24, <1>25, Steps

\* A step of a running writer that keeps its version.
LEMMA AWriterGoesOn ==
  ASSUME Types, NEW p \in Writers, writer[p].pc # "off", NEW pc \in Pcs, Goto(p, pc),
         UNCHANGED <<up, admin>>,
         pc \in Storing \cup {"set", "hook"} => writer[p].pc \in Storing \cup {"set", "hook"}
  PROVE  Processes'
<1>1. /\ writer' \in WriterType /\ writer'[p].pc = pc /\ writer'[p].v = writer[p].v
      /\ \A q \in Writers \ {p} : writer'[q] = writer[q]
  BY GotoKeeps
<1>2. ~up' => writer'["agent"].pc = "off"
  BY <1>1 DEF Types, Processes, Writers
<1>3. \A q \in Writers : writer'[q].pc \in Storing \cup {"set", "hook"} => writer'[q].v \in Versions
  BY <1>1 DEF Types, Processes
<1> QED BY <1>1, <1>2, <1>3 DEF Types, Processes

LEMMA ProcessesKeep == Types /\ [Next]_vars => Processes'
<1> SUFFICES ASSUME Types, [Next]_vars PROVE Processes'
  OBVIOUS
<1>1. CASE Publish
  <2>1. UNCHANGED <<writer, up, admin>>
    BY <1>1 DEF Publish, disk
  <2> QED BY <2>1 DEF Types, Processes
<1>2. CASE Boot
  <2>1. /\ \E pc \in {"off", "loop", "register"} : Goto("agent", pc)
        /\ up' /\ UNCHANGED admin
    BY <1>2 DEF Boot, Registered
  <2>2. PICK pc \in {"off", "loop", "register"} : Goto("agent", pc)
    BY <2>1
  <2>3. pc \in Pcs /\ "agent" \in Writers
    BY DEF Pcs, Writers
  <2>4. /\ writer' \in WriterType /\ writer'["agent"].pc = pc
        /\ \A q \in Writers \ {"agent"} : writer'[q] = writer[q]
    BY <2>2, <2>3, GotoKeeps
  <2> QED BY <2>1, <2>4 DEF Types, Processes, Storing
<1>3. CASE Crash
  <2>1. writer' = [writer EXCEPT !["agent"] = Off] /\ admin' = AdminsGone
    BY <1>3 DEF Crash
  <2>2. writer' \in WriterType /\ writer'["agent"].pc = "off" /\ writer'["import"] = writer["import"]
    BY <2>1, ConstantsAreNumbers DEF Types, Processes, WriterType, Writers, Pcs, Off
  <2>3. admin' \in AdminType /\ \A a \in Admins : admin'[a].pc = "idle"
    BY <2>1, ConstantsAreNumbers DEF AdminsGone, Idle, AdminType
  <2> QED BY <2>2, <2>3 DEF Types, Processes, Writers, Storing
<1>4. CASE ImportKilled
  <2>1. writer' = [writer EXCEPT !["import"] = Off] /\ UNCHANGED <<up, admin>>
    BY <1>4 DEF ImportKilled
  <2>2. writer' \in WriterType /\ writer'["import"].pc = "off" /\ writer'["agent"] = writer["agent"]
    BY <2>1, ConstantsAreNumbers DEF Types, Processes, WriterType, Writers, Pcs, Off
  <2> QED BY <2>1, <2>2 DEF Types, Processes, Writers, Storing
<1>5. CASE CurrentLost
  <2>1. UNCHANGED <<writer, up, admin>>
    BY <1>5 DEF CurrentLost
  <2> QED BY <2>1 DEF Types, Processes
<1>6. CASE Register
  <2>1. PICK pc \in {"credential", "off"} : Goto("agent", pc)
    BY <1>6 DEF Register
  <2>2. writer["agent"].pc \in {"register"} /\ UNCHANGED <<up, admin>>
    BY <1>6 DEF Register
  <2>3. pc \in Pcs /\ "agent" \in Writers
    BY <2>1 DEF Pcs, Writers
  <2> QED BY <2>1, <2>2, <2>3, AWriterGoesOn DEF Storing
<1>7. CASE StoreCredential
  <2>1. PICK pc \in {"rename", "off"} : Goto("agent", pc)
    BY <1>7 DEF StoreCredential
  <2>2. writer["agent"].pc \in {"credential"} /\ UNCHANGED <<up, admin>>
    BY <1>7 DEF StoreCredential
  <2>3. pc \in Pcs /\ "agent" \in Writers
    BY <2>1 DEF Pcs, Writers
  <2> QED BY <2>1, <2>2, <2>3, AWriterGoesOn DEF Storing
<1>8. CASE RenameToken
  <2>1. PICK pc \in {"loop"} : Goto("agent", pc)
    BY <1>8 DEF RenameToken
  <2>2. writer["agent"].pc \in {"rename"} /\ UNCHANGED <<up, admin>>
    BY <1>8 DEF RenameToken
  <2>3. pc \in Pcs /\ "agent" \in Writers
    BY <2>1 DEF Pcs, Writers
  <2> QED BY <2>1, <2>2, <2>3, AWriterGoesOn DEF Storing
<1>9. CASE Wake
  <2>1. PICK pc \in {"fetch"} : Goto("agent", pc)
    BY <1>9 DEF Wake
  <2>2. writer["agent"].pc \in {"loop"} /\ UNCHANGED <<up, admin>>
    BY <1>9 DEF Wake
  <2>3. pc \in Pcs /\ "agent" \in Writers
    BY <2>1 DEF Pcs, Writers
  <2> QED BY <2>1, <2>2, <2>3, AWriterGoesOn DEF Storing
<1>10. CASE FetchNothing
  <2>1. PICK pc \in {"loop"} : Goto("agent", pc)
    BY <1>10 DEF FetchNothing
  <2>2. writer["agent"].pc \in {"fetch"} /\ UNCHANGED <<up, admin>>
    BY <1>10 DEF FetchNothing
  <2>3. pc \in Pcs /\ "agent" \in Writers
    BY <2>1 DEF Pcs, Writers
  <2> QED BY <2>1, <2>2, <2>3, AWriterGoesOn DEF Storing
<1>11. CASE FetchNewer
  <2>1. /\ latest \in Versions /\ UNCHANGED <<up, admin>> /\ writer["agent"].pc = "fetch"
        /\ writer' = [writer EXCEPT !["agent"] = [pc |-> "gen", v |-> latest, force |-> FALSE]]
    BY <1>11, ConstantsAreNumbers DEF FetchNewer, Types, Numbers, Versions
  <2> QED BY <2>1, ConstantsAreNumbers DEF Types, Processes, WriterType, Writers, Pcs
<1>12. CASE AgentSet
  <2>1. PICK pc \in {"hook"} : Goto("agent", pc)
    BY <1>12 DEF AgentSet
  <2>2. writer["agent"].pc \in {"set"} /\ UNCHANGED <<up, admin>>
    BY <1>12 DEF AgentSet
  <2>3. pc \in Pcs /\ "agent" \in Writers
    BY <2>1 DEF Pcs, Writers
  <2> QED BY <2>1, <2>2, <2>3, AWriterGoesOn DEF Storing
<1>13. CASE AgentHook
  <2>1. PICK pc \in {"loop"} : Goto("agent", pc)
    BY <1>13 DEF AgentHook
  <2>2. writer["agent"].pc \in {"hook"} /\ UNCHANGED <<up, admin>>
    BY <1>13 DEF AgentHook
  <2>3. pc \in Pcs /\ "agent" \in Writers
    BY <2>1 DEF Pcs, Writers
  <2> QED BY <2>1, <2>2, <2>3, AWriterGoesOn DEF Storing
<1>14. CASE Import
  <2>1. PICK v \in Versions, force \in BOOLEAN :
          writer' = [writer EXCEPT !["import"] = [pc |-> "gen", v |-> v, force |-> force]]
    BY <1>14 DEF Import
  <2>2. UNCHANGED <<up, admin>>
    BY <1>14 DEF Import
  <2> QED BY <2>1, <2>2, ConstantsAreNumbers DEF Types, Processes, WriterType, Writers, Pcs
<1>15. ASSUME NEW p \in Writers, WriteGeneration(p) PROVE Processes'
  <2>1. PICK pc \in {"current"} : Goto(p, pc)
    BY <1>15 DEF WriteGeneration
  <2>2. writer[p].pc \in {"gen"} /\ UNCHANGED <<up, admin>>
    BY <1>15 DEF WriteGeneration
  <2>3. pc \in Pcs /\ p \in Writers
    BY <2>1 DEF Pcs, Writers
  <2> QED BY <2>1, <2>2, <2>3, AWriterGoesOn DEF Storing
<1>16. ASSUME NEW p \in Writers, WriteCurrent(p) PROVE Processes'
  <2>1. PICK pc \in {"truncate"} : Goto(p, pc)
    BY <1>16 DEF WriteCurrent
  <2>2. writer[p].pc \in {"current"} /\ UNCHANGED <<up, admin>>
    BY <1>16 DEF WriteCurrent
  <2>3. pc \in Pcs /\ p \in Writers
    BY <2>1 DEF Pcs, Writers
  <2> QED BY <2>1, <2>2, <2>3, AWriterGoesOn DEF Storing
<1>17. ASSUME NEW p \in Writers, TruncateMarker(p) PROVE Processes'
  <2>1. PICK pc \in {"marker"} : Goto(p, pc)
    BY <1>17 DEF TruncateMarker
  <2>2. writer[p].pc \in {"truncate"} /\ UNCHANGED <<up, admin>>
    BY <1>17 DEF TruncateMarker
  <2>3. pc \in Pcs /\ p \in Writers
    BY <2>1 DEF Pcs, Writers
  <2> QED BY <2>1, <2>2, <2>3, AWriterGoesOn DEF Storing
<1>18. ASSUME NEW p \in Writers, WriteMarker(p) PROVE Processes'
  <2>1. PICK pc \in {"prune"} : Goto(p, pc)
    BY <1>18 DEF WriteMarker
  <2>2. writer[p].pc \in {"marker"} /\ UNCHANGED <<up, admin>>
    BY <1>18 DEF WriteMarker
  <2>3. pc \in Pcs /\ p \in Writers
    BY <2>1 DEF Pcs, Writers
  <2> QED BY <2>1, <2>2, <2>3, AWriterGoesOn DEF Storing
<1>19. ASSUME NEW p \in Writers, Prune(p) PROVE Processes'
  <2>1. PICK pc \in {"set", "off"} : Goto(p, pc)
    BY <1>19 DEF Prune, Stored
  <2>2. writer[p].pc \in {"prune"} /\ UNCHANGED <<up, admin>>
    BY <1>19 DEF Prune
  <2>3. pc \in Pcs /\ p \in Writers
    BY <2>1 DEF Pcs, Writers
  <2> QED BY <2>1, <2>2, <2>3, AWriterGoesOn DEF Storing
<1>20. ASSUME NEW p \in Writers, StoreFails(p) PROVE Processes'
  <2>1. PICK pc \in {"set", "off"} : Goto(p, pc)
    BY <1>20 DEF StoreFails, Stored
  <2>2. writer[p].pc \in {"gen", "current", "truncate", "marker"} /\ UNCHANGED <<up, admin>>
    BY <1>20 DEF StoreFails
  <2>3. pc \in Pcs /\ p \in Writers
    BY <2>1 DEF Pcs, Writers
  <2> QED BY <2>1, <2>2, <2>3, AWriterGoesOn DEF Storing
<1>21. ASSUME NEW a \in Admins, AdminClone(a) PROVE Processes'
  <2>1. PICK c \in Edited(cfg) : admin' = [admin EXCEPT ![a] = [pc |-> "write", cfg |-> c]]
    BY <1>21 DEF AdminClone
  <2>2. c \in Config
    BY ConstantsAreNumbers DEF Edited, Config, Types, Configs
  <2>3. up /\ UNCHANGED <<writer, up>>
    BY <1>21 DEF AdminClone, Listening
  <2> QED BY <2>1, <2>2, <2>3 DEF Types, Processes, AdminType
<1>22. ASSUME NEW a \in Admins, AdminWrite(a) PROVE Processes'
  <2>1. PICK c \in {[admin[a] EXCEPT !.pc = "set"], Idle} : admin' = [admin EXCEPT ![a] = c]
    BY <1>22 DEF AdminWrite
  <2>2. admin[a].pc # "idle" /\ UNCHANGED <<writer, up>>
    BY <1>22 DEF AdminWrite
  <2>3. c \in [pc: {"idle", "write", "set", "hook"}, cfg: Config]
    BY <2>1, ConstantsAreNumbers DEF Idle, Types, Processes, AdminType
  <2> QED BY <2>1, <2>2, <2>3 DEF Types, Processes, AdminType
<1>23. ASSUME NEW a \in Admins, AdminSet(a) PROVE Processes'
  <2>1. PICK c \in {[admin[a] EXCEPT !.pc = "hook"]} : admin' = [admin EXCEPT ![a] = c]
    BY <1>23 DEF AdminSet
  <2>2. admin[a].pc # "idle" /\ UNCHANGED <<writer, up>>
    BY <1>23 DEF AdminSet
  <2>3. c \in [pc: {"idle", "write", "set", "hook"}, cfg: Config]
    BY <2>1, ConstantsAreNumbers DEF Idle, Types, Processes, AdminType
  <2> QED BY <2>1, <2>2, <2>3 DEF Types, Processes, AdminType
<1>24. ASSUME NEW a \in Admins, AdminHook(a) PROVE Processes'
  <2>1. PICK c \in {Idle} : admin' = [admin EXCEPT ![a] = c]
    BY <1>24 DEF AdminHook
  <2>2. admin[a].pc # "idle" /\ UNCHANGED <<writer, up>>
    BY <1>24 DEF AdminHook
  <2>3. c \in [pc: {"idle", "write", "set", "hook"}, cfg: Config]
    BY <2>1, ConstantsAreNumbers DEF Idle, Types, Processes, AdminType
  <2> QED BY <2>1, <2>2, <2>3 DEF Types, Processes, AdminType
<1>25. CASE UNCHANGED vars
  <2>1. UNCHANGED <<writer, up, admin>>
    BY <1>25 DEF vars
  <2> QED BY <2>1 DEF Types, Processes
<1> QED
  BY <1>1, <1>2, <1>3, <1>4, <1>5, <1>6, <1>7, <1>8, <1>9, <1>10, <1>11, <1>12, <1>13, <1>14,
     <1>15, <1>16, <1>17, <1>18, <1>19, <1>20, <1>21, <1>22, <1>23, <1>24, <1>25, Steps

LEMMA TypesKeep == Types /\ [Next]_vars => Types'
BY FlagsKeep, NumbersKeep, ConfigsKeep, ProcessesKeep DEF Types

\* The variables have their types and a process that is down has nothing in
\* memory, for any number of generations, administrators and failures.
THEOREM TypeCorrect == Spec => []TypeOK
<1>1. Spec => []Types
  BY InitTypes, TypesKeep, PTL DEF Spec
<1> QED BY <1>1, TypesImplyTypeOK, PTL

-----------------------------------------------------------------------------
(* The files of the generations. At most one of agent and import command is  *)
(* there to write them, and what it has written so far is still there.       *)

Owners ==
  \A p \in Writers :
    writer[p].pc # "off" => mode = IF p = "agent" THEN "connected" ELSE "airgapped"

\* A writer about to make its generation current has its file on disk, one that
\* has done so finds it current, and only -force may take it back.
Held ==
  \A p \in Writers :
    /\ writer[p].pc = "current" => writer[p].v \in gens
    /\ writer[p].pc \in {"truncate", "marker", "prune"} => current = writer[p].v
    /\ writer[p].pc \in {"gen", "current"} /\ ~writer[p].force => writer[p].v >= current

NothingNewer == mode = "connected" => current <= latest /\ writer["agent"].v <= latest

StoreInv == Owners /\ Held /\ NothingNewer /\ CurrentIsKept

IInv == Types /\ StoreInv

LEMMA InitStore == Init => StoreInv
BY ConstantsAreNumbers
DEF Init, StoreInv, Owners, Held, NothingNewer, CurrentIsKept, Off, Writers

LEMMA TwoWriters == "agent" \in Writers /\ "import" \in Writers /\ Writers = {"agent", "import"}
BY DEF Writers

LEMMA OnlyOneWriter ==
  ASSUME Owners, NEW p \in Writers, NEW q \in Writers, writer[p].pc # "off", p # q
  PROVE  writer[q].pc = "off"
BY DEF Owners, Writers

\* A step that leaves the files alone, and starts no writer.
LEMMA Elsewhere ==
  ASSUME IInv, UNCHANGED <<mode, gens, current>>, latest' \in 0..MaxVersion, latest' >= latest,
         \A p \in Writers :
           \/ writer'[p] = writer[p]
           \/ /\ writer'[p].pc \notin Storing /\ writer'[p].v \in {writer[p].v, 0}
              /\ writer'[p].pc # "off" => writer[p].pc # "off"
  PROVE  StoreInv'
<1> USE TwoWriters, ConstantsAreNumbers DEF IInv, StoreInv
<1>1. Owners'
  BY DEF Owners
<1>2. Held'
  BY DEF Held, Storing
<1>3. NothingNewer'
  BY DEF NothingNewer, Types, Numbers, Processes, WriterType
<1>4. CurrentIsKept'
  BY DEF CurrentIsKept
<1> QED BY <1>1, <1>2, <1>3, <1>4

\* A step of the one writer p, from which the others are off.
LEMMA OneWrites ==
  ASSUME IInv, NEW p \in Writers, writer[p].pc # "off", UNCHANGED <<mode, latest>>,
         NEW pc \in Pcs, Goto(p, pc), current' \in 0..MaxVersion,
         pc = "current" => writer[p].v \in gens',
         pc \in {"truncate", "marker", "prune"} => current' = writer[p].v,
         pc \in {"gen", "current"} /\ ~writer[p].force => writer[p].v >= current',
         mode = "connected" => current' <= latest,
         CurrentIsKept'
  PROVE  StoreInv'
<1>1. /\ writer'[p].pc = pc /\ writer'[p].v = writer[p].v /\ writer'[p].force = writer[p].force
      /\ \A q \in Writers \ {p} : writer'[q] = writer[q]
  BY GotoKeeps DEF IInv
<1>2. \A q \in Writers \ {p} : writer'[q].pc = "off"
  BY <1>1, OnlyOneWriter DEF IInv, StoreInv
<1>3. Owners'
  BY <1>1, <1>2 DEF IInv, StoreInv, Owners
<1>4. Held'
  BY <1>1, <1>2 DEF Held
<1>5. NothingNewer'
  <2>1. writer'["agent"].v = writer["agent"].v
    BY <1>1, TwoWriters
  <2> QED BY <2>1 DEF IInv, StoreInv, NothingNewer
<1> QED BY <1>3, <1>4, <1>5 DEF StoreInv

LEMMA StoreKeeps == IInv /\ [Next]_vars => StoreInv'
<1> SUFFICES ASSUME IInv, [Next]_vars PROVE StoreInv'
  OBVIOUS
<1>1. CASE Publish
  <2>1. UNCHANGED <<mode, gens, current, writer>> /\ latest' \in 0..MaxVersion /\ latest' >= latest
    BY <1>1, ConstantsAreNumbers DEF Publish, disk, IInv, Types, Numbers, Versions
  <2> QED BY <2>1, Elsewhere
<1>2. CASE Boot
  <2>1. UNCHANGED <<mode, latest, gens, current>> /\ writer["agent"].pc = "off"
    BY <1>2 DEF Boot, disk, IInv, Types, Processes
  <2>2. PICK pc \in {"off", "loop", "register"} :
          Goto("agent", pc) /\ (pc # "off" => mode = "connected")
    BY <1>2, ConstantsAreNumbers DEF Boot, Registered, IInv, Types, Numbers
  <2>3. pc \in Pcs
    BY DEF Pcs
  <2>4. /\ writer'["agent"].pc = pc /\ writer'["agent"].v = writer["agent"].v
        /\ writer'["import"] = writer["import"]
    BY <2>2, <2>3, GotoKeeps, TwoWriters DEF IInv
  <2> QED BY <2>1, <2>2, <2>4, TwoWriters
    DEF IInv, StoreInv, Owners, Held, NothingNewer, CurrentIsKept
<1>3. CASE Crash
  <2>1. UNCHANGED <<mode, latest, gens, current>> /\ writer' = [writer EXCEPT !["agent"] = Off]
    BY <1>3 DEF Crash, disk
  <2>2. \A q \in Writers : writer'[q] = writer[q] \/ writer'[q] = Off
    BY <2>1 DEF IInv, Types, Processes, WriterType
  <2> QED BY <2>1, <2>2, Elsewhere DEF IInv, Types, Numbers, Off, Storing
<1>4. CASE ImportKilled
  <2>1. UNCHANGED <<mode, latest, gens, current>> /\ writer' = [writer EXCEPT !["import"] = Off]
    BY <1>4 DEF ImportKilled, disk
  <2>2. \A q \in Writers : writer'[q] = writer[q] \/ writer'[q] = Off
    BY <2>1 DEF IInv, Types, Processes, WriterType
  <2> QED BY <2>1, <2>2, Elsewhere DEF IInv, Types, Numbers, Off, Storing
<1>5. CASE CurrentLost
  <2>1. /\ current' = 0 /\ UNCHANGED <<mode, latest, gens, writer>>
        /\ \A q \in Writers : writer[q].pc = "off"
    BY <1>5, TwoWriters DEF CurrentLost, IInv, Types, Processes
  <2> QED BY <2>1 DEF IInv, StoreInv, Owners, Held, NothingNewer, CurrentIsKept, Types, Numbers
<1>6. CASE Register
  <2>1. PICK pc \in {"credential", "off"} : Goto("agent", pc)
    BY <1>6 DEF Register
  <2>2. UNCHANGED <<mode, latest, gens, current>> /\ writer["agent"].pc # "off"
    BY <1>6 DEF Register, disk
  <2>3. pc \in Pcs /\ pc \notin Storing
    BY <2>1 DEF Pcs, Storing
  <2>4. \A q \in Writers : \/ writer'[q] = writer[q]
                          \/ /\ writer'[q].pc \notin Storing /\ writer'[q].v = writer[q].v
                             /\ writer[q].pc # "off"
    BY <2>1, <2>2, <2>3, GotoKeeps, TwoWriters DEF IInv
  <2> QED BY <2>2, <2>4, Elsewhere DEF IInv, Types, Numbers
<1>7. CASE StoreCredential
  <2>1. PICK pc \in {"rename", "off"} : Goto("agent", pc)
    BY <1>7 DEF StoreCredential
  <2>2. UNCHANGED <<mode, latest, gens, current>> /\ writer["agent"].pc # "off"
    BY <1>7 DEF StoreCredential, disk
  <2>3. pc \in Pcs /\ pc \notin Storing
    BY <2>1 DEF Pcs, Storing
  <2>4. \A q \in Writers : \/ writer'[q] = writer[q]
                          \/ /\ writer'[q].pc \notin Storing /\ writer'[q].v = writer[q].v
                             /\ writer[q].pc # "off"
    BY <2>1, <2>2, <2>3, GotoKeeps, TwoWriters DEF IInv
  <2> QED BY <2>2, <2>4, Elsewhere DEF IInv, Types, Numbers
<1>8. CASE RenameToken
  <2>1. PICK pc \in {"loop"} : Goto("agent", pc)
    BY <1>8 DEF RenameToken
  <2>2. UNCHANGED <<mode, latest, gens, current>> /\ writer["agent"].pc # "off"
    BY <1>8 DEF RenameToken, disk
  <2>3. pc \in Pcs /\ pc \notin Storing
    BY <2>1 DEF Pcs, Storing
  <2>4. \A q \in Writers : \/ writer'[q] = writer[q]
                          \/ /\ writer'[q].pc \notin Storing /\ writer'[q].v = writer[q].v
                             /\ writer[q].pc # "off"
    BY <2>1, <2>2, <2>3, GotoKeeps, TwoWriters DEF IInv
  <2> QED BY <2>2, <2>4, Elsewhere DEF IInv, Types, Numbers
<1>9. CASE Wake
  <2>1. PICK pc \in {"fetch"} : Goto("agent", pc)
    BY <1>9 DEF Wake
  <2>2. UNCHANGED <<mode, latest, gens, current>> /\ writer["agent"].pc # "off"
    BY <1>9 DEF Wake, disk
  <2>3. pc \in Pcs /\ pc \notin Storing
    BY <2>1 DEF Pcs, Storing
  <2>4. \A q \in Writers : \/ writer'[q] = writer[q]
                          \/ /\ writer'[q].pc \notin Storing /\ writer'[q].v = writer[q].v
                             /\ writer[q].pc # "off"
    BY <2>1, <2>2, <2>3, GotoKeeps, TwoWriters DEF IInv
  <2> QED BY <2>2, <2>4, Elsewhere DEF IInv, Types, Numbers
<1>10. CASE FetchNothing
  <2>1. PICK pc \in {"loop"} : Goto("agent", pc)
    BY <1>10 DEF FetchNothing
  <2>2. UNCHANGED <<mode, latest, gens, current>> /\ writer["agent"].pc # "off"
    BY <1>10 DEF FetchNothing, disk
  <2>3. pc \in Pcs /\ pc \notin Storing
    BY <2>1 DEF Pcs, Storing
  <2>4. \A q \in Writers : \/ writer'[q] = writer[q]
                          \/ /\ writer'[q].pc \notin Storing /\ writer'[q].v = writer[q].v
                             /\ writer[q].pc # "off"
    BY <2>1, <2>2, <2>3, GotoKeeps, TwoWriters DEF IInv
  <2> QED BY <2>2, <2>4, Elsewhere DEF IInv, Types, Numbers
<1>11. CASE FetchNewer
  <2>1. /\ UNCHANGED <<mode, latest, gens, current>> /\ writer["agent"].pc = "fetch"
        /\ writer' = [writer EXCEPT !["agent"] = [pc |-> "gen", v |-> latest, force |-> FALSE]]
    BY <1>11 DEF FetchNewer, disk
  <2>2. /\ writer'["agent"].pc = "gen" /\ writer'["agent"].v = latest
        /\ writer'["import"] = writer["import"]
    BY <2>1, TwoWriters DEF IInv, Types, Processes, WriterType
  <2>3. mode = "connected" /\ writer["import"].pc = "off"
    BY <2>1, TwoWriters, OnlyOneWriter DEF IInv, StoreInv, Owners
  <2>4. latest >= current
    BY <2>3 DEF IInv, StoreInv, NothingNewer, Types, Numbers
  <2> QED BY <2>1, <2>2, <2>3, <2>4, TwoWriters
    DEF IInv, StoreInv, Owners, Held, NothingNewer, CurrentIsKept, Types, Numbers
<1>12. CASE AgentSet
  <2>1. PICK pc \in {"hook"} : Goto("agent", pc)
    BY <1>12 DEF AgentSet
  <2>2. UNCHANGED <<mode, latest, gens, current>> /\ writer["agent"].pc # "off"
    BY <1>12 DEF AgentSet, disk
  <2>3. pc \in Pcs /\ pc \notin Storing
    BY <2>1 DEF Pcs, Storing
  <2>4. \A q \in Writers : \/ writer'[q] = writer[q]
                          \/ /\ writer'[q].pc \notin Storing /\ writer'[q].v = writer[q].v
                             /\ writer[q].pc # "off"
    BY <2>1, <2>2, <2>3, GotoKeeps, TwoWriters DEF IInv
  <2> QED BY <2>2, <2>4, Elsewhere DEF IInv, Types, Numbers
<1>13. CASE AgentHook
  <2>1. PICK pc \in {"loop"} : Goto("agent", pc)
    BY <1>13 DEF AgentHook
  <2>2. UNCHANGED <<mode, latest, gens, current>> /\ writer["agent"].pc # "off"
    BY <1>13 DEF AgentHook, disk
  <2>3. pc \in Pcs /\ pc \notin Storing
    BY <2>1 DEF Pcs, Storing
  <2>4. \A q \in Writers : \/ writer'[q] = writer[q]
                          \/ /\ writer'[q].pc \notin Storing /\ writer'[q].v = writer[q].v
                             /\ writer[q].pc # "off"
    BY <2>1, <2>2, <2>3, GotoKeeps, TwoWriters DEF IInv
  <2> QED BY <2>2, <2>4, Elsewhere DEF IInv, Types, Numbers
<1>14. CASE Import
  <2>1. PICK v \in Versions, force \in BOOLEAN :
          /\ NewerThanStored(v) \/ force
          /\ writer' = [writer EXCEPT !["import"] = [pc |-> "gen", v |-> v, force |-> force]]
    BY <1>14 DEF Import
  <2>2. mode = "airgapped" /\ UNCHANGED <<mode, latest, gens, current>>
    BY <1>14 DEF Import, disk
  <2>3. /\ writer'["import"].pc = "gen" /\ writer'["import"].v = v
        /\ writer'["import"].force = force /\ writer'["agent"] = writer["agent"]
    BY <2>1, TwoWriters DEF IInv, Types, Processes, WriterType
  <2>4. writer["agent"].pc = "off"
    BY <2>2, TwoWriters DEF IInv, StoreInv, Owners
  <2>5. force \/ v >= current
    BY <2>1 DEF NewerThanStored, IInv, StoreInv, CurrentIsKept, Types, Numbers, Versions
  <2> QED BY <2>2, <2>3, <2>4, <2>5, TwoWriters
    DEF IInv, StoreInv, Owners, Held, NothingNewer, CurrentIsKept
<1>15. ASSUME NEW p \in Writers, WriteGeneration(p) PROVE StoreInv'
  <2>1. PICK pc \in {"current"} : Goto(p, pc)
    BY <1>15 DEF WriteGeneration
  <2>2. writer[p].pc \in {"gen"} /\ UNCHANGED <<mode, latest>> /\ gens' = gens \cup {writer[p].v} /\ current' = current
    BY <1>15 DEF WriteGeneration
  <2>3. pc \in Pcs /\ writer[p].pc # "off" /\ writer[p].v \in Versions /\ current' \in 0..MaxVersion
    BY <2>1, <2>2, ConstantsAreNumbers DEF Pcs, IInv, Types, Numbers, Processes, Storing
  <2>4. CurrentIsKept'
    BY <2>2 DEF CurrentIsKept, IInv, StoreInv
  <2>5. mode = "connected" => current' <= latest
    BY <2>2, <2>3, TwoWriters DEF IInv, StoreInv, Owners, NothingNewer
  <2>6. /\ pc = "current" => writer[p].v \in gens'
        /\ pc \in {"truncate", "marker", "prune"} => current' = writer[p].v
        /\ pc \in {"gen", "current"} /\ ~writer[p].force => writer[p].v >= current'
    BY <2>1, <2>2 DEF IInv, StoreInv, Held
  <2> QED BY <2>1, <2>2, <2>3, <2>4, <2>5, <2>6, OneWrites
<1>16. ASSUME NEW p \in Writers, WriteCurrent(p) PROVE StoreInv'
  <2>1. PICK pc \in {"truncate"} : Goto(p, pc)
    BY <1>16 DEF WriteCurrent
  <2>2. writer[p].pc \in {"current"} /\ UNCHANGED <<mode, latest>> /\ gens' = gens /\ current' = writer[p].v
    BY <1>16 DEF WriteCurrent
  <2>3. pc \in Pcs /\ writer[p].pc # "off" /\ writer[p].v \in Versions /\ current' \in 0..MaxVersion
    BY <2>1, <2>2, ConstantsAreNumbers DEF Pcs, IInv, Types, Numbers, Processes, Storing
  <2>4. CurrentIsKept'
    BY <2>2 DEF CurrentIsKept, IInv, StoreInv, Held
  <2>5. mode = "connected" => current' <= latest
    BY <2>2, <2>3, TwoWriters DEF IInv, StoreInv, Owners, NothingNewer
  <2>6. /\ pc = "current" => writer[p].v \in gens'
        /\ pc \in {"truncate", "marker", "prune"} => current' = writer[p].v
        /\ pc \in {"gen", "current"} /\ ~writer[p].force => writer[p].v >= current'
    BY <2>1, <2>2 DEF IInv, StoreInv, Held
  <2> QED BY <2>1, <2>2, <2>3, <2>4, <2>5, <2>6, OneWrites
<1>17. ASSUME NEW p \in Writers, TruncateMarker(p) PROVE StoreInv'
  <2>1. PICK pc \in {"marker"} : Goto(p, pc)
    BY <1>17 DEF TruncateMarker
  <2>2. writer[p].pc \in {"truncate"} /\ UNCHANGED <<mode, latest>> /\ gens' = gens /\ current' = current
    BY <1>17 DEF TruncateMarker
  <2>3. pc \in Pcs /\ writer[p].pc # "off" /\ writer[p].v \in Versions /\ current' \in 0..MaxVersion
    BY <2>1, <2>2, ConstantsAreNumbers DEF Pcs, IInv, Types, Numbers, Processes, Storing
  <2>4. CurrentIsKept'
    BY <2>2 DEF CurrentIsKept, IInv, StoreInv
  <2>5. mode = "connected" => current' <= latest
    BY <2>2, <2>3, TwoWriters DEF IInv, StoreInv, Owners, NothingNewer
  <2>6. /\ pc = "current" => writer[p].v \in gens'
        /\ pc \in {"truncate", "marker", "prune"} => current' = writer[p].v
        /\ pc \in {"gen", "current"} /\ ~writer[p].force => writer[p].v >= current'
    BY <2>1, <2>2 DEF IInv, StoreInv, Held
  <2> QED BY <2>1, <2>2, <2>3, <2>4, <2>5, <2>6, OneWrites
<1>18. ASSUME NEW p \in Writers, WriteMarker(p) PROVE StoreInv'
  <2>1. PICK pc \in {"prune"} : Goto(p, pc)
    BY <1>18 DEF WriteMarker
  <2>2. writer[p].pc \in {"marker"} /\ UNCHANGED <<mode, latest>> /\ gens' = gens /\ current' = current
    BY <1>18 DEF WriteMarker
  <2>3. pc \in Pcs /\ writer[p].pc # "off" /\ writer[p].v \in Versions /\ current' \in 0..MaxVersion
    BY <2>1, <2>2, ConstantsAreNumbers DEF Pcs, IInv, Types, Numbers, Processes, Storing
  <2>4. CurrentIsKept'
    BY <2>2 DEF CurrentIsKept, IInv, StoreInv
  <2>5. mode = "connected" => current' <= latest
    BY <2>2, <2>3, TwoWriters DEF IInv, StoreInv, Owners, NothingNewer
  <2>6. /\ pc = "current" => writer[p].v \in gens'
        /\ pc \in {"truncate", "marker", "prune"} => current' = writer[p].v
        /\ pc \in {"gen", "current"} /\ ~writer[p].force => writer[p].v >= current'
    BY <2>1, <2>2 DEF IInv, StoreInv, Held
  <2> QED BY <2>1, <2>2, <2>3, <2>4, <2>5, <2>6, OneWrites
<1>19. ASSUME NEW p \in Writers, Prune(p) PROVE StoreInv'
  <2>1. PICK pc \in {"set", "off"} : Goto(p, pc)
    BY <1>19 DEF Prune, Stored
  <2>2. writer[p].pc \in {"prune"} /\ UNCHANGED <<mode, latest>> /\ gens' = Pruned(gens, writer[p].v) /\ current' = current
    BY <1>19 DEF Prune
  <2>3. pc \in Pcs /\ writer[p].pc # "off" /\ writer[p].v \in Versions /\ current' \in 0..MaxVersion
    BY <2>1, <2>2, ConstantsAreNumbers DEF Pcs, IInv, Types, Numbers, Processes, Storing
  <2>4. CurrentIsKept'
    BY <2>2 DEF CurrentIsKept, IInv, StoreInv, Held, Pruned
  <2>5. mode = "connected" => current' <= latest
    BY <2>2, <2>3, TwoWriters DEF IInv, StoreInv, Owners, NothingNewer
  <2>6. /\ pc = "current" => writer[p].v \in gens'
        /\ pc \in {"truncate", "marker", "prune"} => current' = writer[p].v
        /\ pc \in {"gen", "current"} /\ ~writer[p].force => writer[p].v >= current'
    BY <2>1, <2>2 DEF IInv, StoreInv, Held
  <2> QED BY <2>1, <2>2, <2>3, <2>4, <2>5, <2>6, OneWrites
<1>20. ASSUME NEW p \in Writers, StoreFails(p) PROVE StoreInv'
  <2>1. PICK pc \in {"set", "off"} : Goto(p, pc)
    BY <1>20 DEF StoreFails, Stored
  <2>2. writer[p].pc \in {"gen", "current", "truncate", "marker"} /\ UNCHANGED <<mode, latest>> /\ gens \subseteq gens' /\ current' = current
    BY <1>20 DEF StoreFails
  <2>3. pc \in Pcs /\ writer[p].pc # "off" /\ writer[p].v \in Versions /\ current' \in 0..MaxVersion
    BY <2>1, <2>2, ConstantsAreNumbers DEF Pcs, IInv, Types, Numbers, Processes, Storing
  <2>4. CurrentIsKept'
    BY <2>2 DEF CurrentIsKept, IInv, StoreInv
  <2>5. mode = "connected" => current' <= latest
    BY <2>2, <2>3, TwoWriters DEF IInv, StoreInv, Owners, NothingNewer
  <2>6. /\ pc = "current" => writer[p].v \in gens'
        /\ pc \in {"truncate", "marker", "prune"} => current' = writer[p].v
        /\ pc \in {"gen", "current"} /\ ~writer[p].force => writer[p].v >= current'
    BY <2>1, <2>2 DEF IInv, StoreInv, Held
  <2> QED BY <2>1, <2>2, <2>3, <2>4, <2>5, <2>6, OneWrites
<1>21. ASSUME NEW a \in Admins, AdminClone(a) PROVE StoreInv'
  <2>1. UNCHANGED <<mode, latest, gens, current, writer>>
    BY <1>21 DEF AdminClone, disk
  <2> QED BY <2>1, Elsewhere DEF IInv, Types, Numbers
<1>22. ASSUME NEW a \in Admins, AdminWrite(a) PROVE StoreInv'
  <2>1. UNCHANGED <<mode, latest, gens, current, writer>>
    BY <1>22 DEF AdminWrite, disk
  <2> QED BY <2>1, Elsewhere DEF IInv, Types, Numbers
<1>23. ASSUME NEW a \in Admins, AdminSet(a) PROVE StoreInv'
  <2>1. UNCHANGED <<mode, latest, gens, current, writer>>
    BY <1>23 DEF AdminSet, disk
  <2> QED BY <2>1, Elsewhere DEF IInv, Types, Numbers
<1>24. ASSUME NEW a \in Admins, AdminHook(a) PROVE StoreInv'
  <2>1. UNCHANGED <<mode, latest, gens, current, writer>>
    BY <1>24 DEF AdminHook, disk
  <2> QED BY <2>1, Elsewhere DEF IInv, Types, Numbers
<1>25. CASE UNCHANGED vars
  <2>1. UNCHANGED <<mode, latest, gens, current, writer>>
    BY <1>25 DEF vars, disk
  <2> QED BY <2>1, Elsewhere DEF IInv, Types, Numbers
<1> QED
  BY <1>1, <1>2, <1>3, <1>4, <1>5, <1>6, <1>7, <1>8, <1>9, <1>10, <1>11, <1>12, <1>13, <1>14,
     <1>15, <1>16, <1>17, <1>18, <1>19, <1>20, <1>21, <1>22, <1>23, <1>24, <1>25, Steps

LEMMA Invariance == Spec => []IInv
<1>1. Init => IInv
  BY InitTypes, InitStore DEF IInv
<1>2. IInv /\ [Next]_vars => IInv'
  BY TypesKeep, StoreKeeps DEF IInv
<1> QED BY <1>1, <1>2, PTL DEF Spec

\* storeConfigGeneration never prunes or loses the file of the generation that
\* is current, whichever of its writes fails and however often.
THEOREM CurrentKept == Spec => []CurrentIsKept
<1>1. IInv => CurrentIsKept
  BY DEF IInv, StoreInv
<1> QED BY <1>1, Invariance, PTL

\* Only the write of config-current.json and its loss change it, and a writer
\* without -force has a generation at least as new.
LEMMA CurrentGoesUp ==
  ASSUME IInv, [Next]_vars, current' # 0, current' < current
  PROVE  \E p \in Writers : writer[p].pc = "current" /\ writer[p].force
<1>1. current \in Nat
  BY DEF IInv, Types, Numbers
<1>2. CASE UNCHANGED current
  BY <1>1, <1>2
<1>3. CASE CurrentLost
  BY <1>3 DEF CurrentLost
<1>4. ASSUME NEW p \in Writers, WriteCurrent(p)
      PROVE  writer[p].pc = "current" /\ writer[p].force
  <2>1. writer[p].pc = "current" /\ current' = writer[p].v
    BY <1>4 DEF WriteCurrent
  <2>2. writer[p].force \/ writer[p].v >= current
    BY <2>1 DEF IInv, StoreInv, Held
  <2>3. writer[p].v \in Nat /\ ~(writer[p].v >= current)
    BY <1>1, <2>1 DEF IInv, Types, Processes, WriterType
  <2> QED BY <2>1, <2>2, <2>3
<1>5. \/ UNCHANGED current \/ CurrentLost \/ \E p \in Writers : WriteCurrent(p)
  <2>1. Publish => UNCHANGED current
    BY DEF Publish, disk
  <2>2. Boot => UNCHANGED current
    BY DEF Boot, disk
  <2>3. Crash => UNCHANGED current
    BY DEF Crash, disk
  <2>4. ImportKilled => UNCHANGED current
    BY DEF ImportKilled, disk
  <2>5. Register => UNCHANGED current
    BY DEF Register, disk
  <2>6. StoreCredential => UNCHANGED current
    BY DEF StoreCredential, disk
  <2>7. RenameToken => UNCHANGED current
    BY DEF RenameToken, disk
  <2>8. Wake => UNCHANGED current
    BY DEF Wake, disk
  <2>9. FetchNothing => UNCHANGED current
    BY DEF FetchNothing, disk
  <2>10. FetchNewer => UNCHANGED current
    BY DEF FetchNewer, disk
  <2>11. AgentSet => UNCHANGED current
    BY DEF AgentSet, disk
  <2>12. AgentHook => UNCHANGED current
    BY DEF AgentHook, disk
  <2>13. Import => UNCHANGED current
    BY DEF Import, disk
  <2>14. ASSUME NEW p \in Writers, WriteGeneration(p) PROVE UNCHANGED current
    BY <2>14 DEF WriteGeneration
  <2>15. ASSUME NEW p \in Writers, TruncateMarker(p) PROVE UNCHANGED current
    BY <2>15 DEF TruncateMarker
  <2>16. ASSUME NEW p \in Writers, WriteMarker(p) PROVE UNCHANGED current
    BY <2>16 DEF WriteMarker
  <2>17. ASSUME NEW p \in Writers, Prune(p) PROVE UNCHANGED current
    BY <2>17 DEF Prune
  <2>18. ASSUME NEW p \in Writers, StoreFails(p) PROVE UNCHANGED current
    BY <2>18 DEF StoreFails
  <2>19. ASSUME NEW a \in Admins, AdminClone(a) PROVE UNCHANGED current
    BY <2>19 DEF AdminClone, disk
  <2>20. ASSUME NEW a \in Admins, AdminWrite(a) PROVE UNCHANGED current
    BY <2>20 DEF AdminWrite, disk
  <2>21. ASSUME NEW a \in Admins, AdminSet(a) PROVE UNCHANGED current
    BY <2>21 DEF AdminSet, disk
  <2>22. ASSUME NEW a \in Admins, AdminHook(a) PROVE UNCHANGED current
    BY <2>22 DEF AdminHook, disk
  <2>23. UNCHANGED vars => UNCHANGED current
    BY DEF vars, disk
  <2> QED
    BY <2>1, <2>2, <2>3, <2>4, <2>5, <2>6, <2>7, <2>8, <2>9, <2>10, <2>11, <2>12, <2>13, <2>14,
       <2>15, <2>16, <2>17, <2>18, <2>19, <2>20, <2>21, <2>22, <2>23, Steps, Zenon
<1> QED BY <1>2, <1>3, <1>4, <1>5

\* Without -force neither a fetch nor an import makes an older generation
\* current, in whatever order they come, fail and are cut off by crashes.
THEOREM NoDowngrade == Spec => NoSilentDowngrade
<1>1. IInv /\ [Next]_vars
        => [current' # 0 /\ current' < current =>
              \E p \in Writers : writer[p].pc = "current" /\ writer[p].force]_vars
  BY CurrentGoesUp
<1> QED BY <1>1, Invariance, PTL DEF Spec, NoSilentDowngrade

-----------------------------------------------------------------------------
(* gateway.yaml and what is served. *)

AdminInv ==
  /\ \A a, b \in Admins : admin[a].pc # "idle" /\ admin[b].pc # "idle" => a = b
  /\ \A a \in Admins : admin[a].pc = "set" => yaml = admin[a].cfg
  /\ up /\ reached = 0 /\ (\A a \in Admins : admin[a].pc # "set") => cfg = yaml

LEMMA InitAdmin == Init => AdminInv
BY DEF Init, AdminInv, Idle

LEMMA AdminKeeps == Types /\ AdminInv /\ [Next]_vars => AdminInv'
<1> SUFFICES ASSUME Types, AdminInv, [Next]_vars PROVE AdminInv'
  OBVIOUS
<1>1. CASE Publish
  <2>1. UNCHANGED <<yaml, cfg, up, admin, reached>>
    BY <1>1 DEF Publish, disk
  <2> QED BY <2>1 DEF AdminInv
<1>2. CASE Boot
  <2>1. /\ UNCHANGED <<yaml, admin>> /\ reached' = Max({reached, current})
        /\ current = 0 => cfg' = yaml
        /\ \A a \in Admins : admin[a].pc = "idle"
    BY <1>2 DEF Boot, Types, Processes
  <2>2. reached \in 0..MaxVersion /\ current \in 0..MaxVersion
    BY DEF Types, Numbers
  <2>3. Max({reached, current}) >= current
    BY <2>2, NewestIsAVersion
  <2>4. reached' = 0 => current = 0
    BY <2>1, <2>2, <2>3, ConstantsAreNumbers
  <2> QED BY <2>1, <2>4 DEF AdminInv
<1>3. CASE Crash
  <2>1. ~up' /\ \A a \in Admins : admin'[a].pc = "idle"
    BY <1>3 DEF Crash, AdminsGone, Idle
  <2> QED BY <2>1 DEF AdminInv
<1>4. CASE ImportKilled
  <2>1. UNCHANGED <<yaml, cfg, up, admin, reached>>
    BY <1>4 DEF ImportKilled, disk
  <2> QED BY <2>1 DEF AdminInv
<1>5. CASE CurrentLost
  <2>1. UNCHANGED <<yaml, cfg, up, admin, reached>>
    BY <1>5 DEF CurrentLost, disk
  <2> QED BY <2>1 DEF AdminInv
<1>6. CASE Register
  <2>1. UNCHANGED <<yaml, cfg, up, admin, reached>>
    BY <1>6 DEF Register, disk
  <2> QED BY <2>1 DEF AdminInv
<1>7. CASE StoreCredential
  <2>1. UNCHANGED <<yaml, cfg, up, admin, reached>>
    BY <1>7 DEF StoreCredential, disk
  <2> QED BY <2>1 DEF AdminInv
<1>8. CASE RenameToken
  <2>1. UNCHANGED <<yaml, cfg, up, admin, reached>>
    BY <1>8 DEF RenameToken, disk
  <2> QED BY <2>1 DEF AdminInv
<1>9. CASE Wake
  <2>1. UNCHANGED <<yaml, cfg, up, admin, reached>>
    BY <1>9 DEF Wake, disk
  <2> QED BY <2>1 DEF AdminInv
<1>10. CASE FetchNothing
  <2>1. UNCHANGED <<yaml, cfg, up, admin, reached>>
    BY <1>10 DEF FetchNothing, disk
  <2> QED BY <2>1 DEF AdminInv
<1>11. CASE FetchNewer
  <2>1. UNCHANGED <<yaml, cfg, up, admin, reached>>
    BY <1>11 DEF FetchNewer, disk
  <2> QED BY <2>1 DEF AdminInv
<1>12. CASE AgentSet
  <2>1. /\ UNCHANGED <<yaml, up, admin>> /\ reached' = Max({reached, writer["agent"].v})
        /\ writer["agent"].pc = "set"
    BY <1>12 DEF AgentSet
  <2>2. writer["agent"].v \in Versions
    BY <2>1, TwoWriters DEF Types, Processes
  <2>3. writer["agent"].v >= 1 /\ writer["agent"].v \in 0..MaxVersion
    BY <2>2, ConstantsAreNumbers DEF Versions
  <2>4. reached' # 0
    <3>1. reached \in 0..MaxVersion
      BY DEF Types, Numbers
    <3>2. reached' \in 0..MaxVersion /\ reached' >= writer["agent"].v
      BY <2>1, <2>3, <3>1, NewestIsAVersion
    <3> QED BY <2>3, <3>2, ConstantsAreNumbers
  <2> QED BY <2>1, <2>4 DEF AdminInv
<1>13. CASE AgentHook
  <2>1. UNCHANGED <<yaml, cfg, up, admin, reached>>
    BY <1>13 DEF AgentHook, disk
  <2> QED BY <2>1 DEF AdminInv
<1>14. CASE Import
  <2>1. UNCHANGED <<yaml, cfg, up, admin, reached>>
    BY <1>14 DEF Import, disk
  <2> QED BY <2>1 DEF AdminInv
<1>15. ASSUME NEW p \in Writers, WriteGeneration(p) PROVE AdminInv'
  <2>1. UNCHANGED <<yaml, cfg, up, admin, reached>>
    BY <1>15 DEF WriteGeneration, disk
  <2> QED BY <2>1 DEF AdminInv
<1>16. ASSUME NEW p \in Writers, WriteCurrent(p) PROVE AdminInv'
  <2>1. UNCHANGED <<yaml, cfg, up, admin, reached>>
    BY <1>16 DEF WriteCurrent, disk
  <2> QED BY <2>1 DEF AdminInv
<1>17. ASSUME NEW p \in Writers, TruncateMarker(p) PROVE AdminInv'
  <2>1. UNCHANGED <<yaml, cfg, up, admin, reached>>
    BY <1>17 DEF TruncateMarker, disk
  <2> QED BY <2>1 DEF AdminInv
<1>18. ASSUME NEW p \in Writers, WriteMarker(p) PROVE AdminInv'
  <2>1. UNCHANGED <<yaml, cfg, up, admin, reached>>
    BY <1>18 DEF WriteMarker, disk
  <2> QED BY <2>1 DEF AdminInv
<1>19. ASSUME NEW p \in Writers, Prune(p) PROVE AdminInv'
  <2>1. UNCHANGED <<yaml, cfg, up, admin, reached>>
    BY <1>19 DEF Prune, disk
  <2> QED BY <2>1 DEF AdminInv
<1>20. ASSUME NEW p \in Writers, StoreFails(p) PROVE AdminInv'
  <2>1. UNCHANGED <<yaml, cfg, up, admin, reached>>
    BY <1>20 DEF StoreFails, disk
  <2> QED BY <2>1 DEF AdminInv
<1>21. ASSUME NEW a \in Admins, AdminClone(a) PROVE AdminInv'
  <2>1. PICK c \in Edited(cfg) : admin' = [admin EXCEPT ![a] = [pc |-> "write", cfg |-> c]]
    BY <1>21 DEF AdminClone
  <2>2. UNCHANGED <<yaml, cfg, up, reached>> /\ \A b \in Admins : admin[b].pc = "idle"
    BY <1>21 DEF AdminClone, Locked
  <2> QED BY <2>1, <2>2 DEF AdminInv, Types, Processes, AdminType
<1>22. ASSUME NEW a \in Admins, AdminWrite(a) PROVE AdminInv'
  <2>1. CASE yaml' = admin[a].cfg /\ admin' = [admin EXCEPT ![a].pc = "set"]
    <3>1. UNCHANGED <<cfg, up, reached>> /\ admin[a].pc = "write"
      BY <1>22 DEF AdminWrite
    <3>2. \A b \in Admins \ {a} : admin'[b].pc = "idle"
      BY <2>1, <3>1 DEF AdminInv, Types, Processes, AdminType
    <3>3. admin'[a].pc = "set" /\ admin'[a].cfg = yaml'
      BY <2>1 DEF Types, Processes, AdminType
    <3> QED BY <3>1, <3>2, <3>3 DEF AdminInv
  <2>2. CASE UNCHANGED yaml /\ admin' = [admin EXCEPT ![a] = Idle]
    <3>1. UNCHANGED <<cfg, up, reached>> /\ admin[a].pc = "write"
      BY <1>22 DEF AdminWrite
    <3>2. \A b \in Admins : admin[b].pc # "set" /\ admin'[b].pc = "idle"
      BY <2>2, <3>1 DEF AdminInv, Types, Processes, AdminType, Idle
    <3> QED BY <2>2, <3>1, <3>2 DEF AdminInv
  <2> QED BY <1>22, <2>1, <2>2 DEF AdminWrite
<1>23. ASSUME NEW a \in Admins, AdminSet(a) PROVE AdminInv'
  <2>1. /\ UNCHANGED <<yaml, up, reached>> /\ admin[a].pc = "set" /\ cfg' = admin[a].cfg
        /\ admin' = [admin EXCEPT ![a].pc = "hook"]
    BY <1>23 DEF AdminSet
  <2>2. cfg' = yaml
    BY <2>1 DEF AdminInv
  <2>3. admin'[a].pc = "hook" /\ \A b \in Admins \ {a} : admin'[b].pc = "idle"
    BY <2>1 DEF AdminInv, Types, Processes, AdminType
  <2> QED BY <2>1, <2>2, <2>3 DEF AdminInv
<1>24. ASSUME NEW a \in Admins, AdminHook(a) PROVE AdminInv'
  <2>1. /\ UNCHANGED <<yaml, cfg, up, reached>> /\ admin[a].pc = "hook"
        /\ admin' = [admin EXCEPT ![a] = Idle]
    BY <1>24 DEF AdminHook
  <2>2. \A b \in Admins : admin[b].pc # "set" /\ admin'[b].pc = "idle"
    BY <2>1 DEF AdminInv, Types, Processes, AdminType, Idle
  <2> QED BY <2>1, <2>2 DEF AdminInv
<1>25. CASE UNCHANGED vars
  <2>1. UNCHANGED <<yaml, cfg, up, admin, reached>>
    BY <1>25 DEF vars, disk
  <2> QED BY <2>1 DEF AdminInv
<1> QED
  BY <1>1, <1>2, <1>3, <1>4, <1>5, <1>6, <1>7, <1>8, <1>9, <1>10, <1>11, <1>12, <1>13, <1>14,
     <1>15, <1>16, <1>17, <1>18, <1>19, <1>20, <1>21, <1>22, <1>23, <1>24, <1>25, Steps

\* persistAndApply: as long as no stored generation has ever been in effect, a
\* gateway serves what its gateway.yaml says whenever no administration call is
\* under way, crashes and failed writes included.
THEOREM FileServed == Spec => []FileIsServed
<1>1. Types /\ AdminInv => FileIsServed
  BY DEF AdminInv, FileIsServed, Locked
<1>2. Init => Types /\ AdminInv
  BY InitTypes, InitAdmin
<1>3. Types /\ AdminInv /\ [Next]_vars => (Types /\ AdminInv)'
  BY TypesKeep, AdminKeeps
<1> QED BY <1>1, <1>2, <1>3, PTL DEF Spec

-----------------------------------------------------------------------------
(* The platform and what is served. *)

\* As long as no two SetConfig overlapped there is at most one hook to come, and it
\* builds the platform of the configuration that is served.
HookInv ==
  up /\ ~overlapped =>
    /\ HookPending \/ platform = cfg
    /\ writer["agent"].pc = "hook" =>
         cfg = Generation(writer["agent"].v) /\ \A a \in Admins : admin[a].pc # "hook"
    /\ \A a \in Admins : admin[a].pc = "hook" =>
         cfg = admin[a].cfg /\ \A b \in Admins : admin[b].pc = "hook" => a = b

LEMMA InitHook == Init => HookInv
BY Zenon DEF Init, HookInv

\* A step that neither sets a configuration nor is at a hook.
LEMMA HookUntouched ==
  ASSUME HookInv, UNCHANGED <<cfg, platform, up, overlapped>>,
         writer["agent"].pc = "hook" \/ writer'["agent"].pc = "hook" => writer'["agent"] = writer["agent"],
         \A a \in Admins : admin[a].pc = "hook" \/ admin'[a].pc = "hook" => admin'[a] = admin[a]
  PROVE  HookInv'
<1>1. writer'["agent"].pc = "hook" <=> writer["agent"].pc = "hook"
  OBVIOUS
<1>2. \A a \in Admins : admin'[a].pc = "hook" <=> admin[a].pc = "hook"
  OBVIOUS
<1>3. HookPending' <=> HookPending
  BY <1>1, <1>2 DEF HookPending
<1>4. writer["agent"].pc = "hook" => Generation(writer["agent"].v)' = Generation(writer["agent"].v)
  BY DEF Generation
<1> QED BY <1>1, <1>2, <1>3, <1>4 DEF HookInv

\* What a writer's step between a fetch and its end does to the hooks: nothing.
LEMMA WriterAway ==
  ASSUME Types, HookInv, UNCHANGED <<cfg, platform, up, overlapped, admin>>,
         NEW p \in Writers, NEW pc \in Pcs \ {"hook"}, writer[p].pc # "hook",
         Goto(p, pc)
  PROVE  HookInv'
<1>1. writer'[p].pc = pc /\ \A q \in Writers \ {p} : writer'[q] = writer[q]
  BY GotoKeeps
<1>2. writer["agent"].pc = "hook" \/ writer'["agent"].pc = "hook" => writer'["agent"] = writer["agent"]
  BY <1>1, TwoWriters
<1> QED BY <1>2, HookUntouched

LEMMA HookKeeps == Types /\ HookInv /\ [Next]_vars => HookInv'
<1> SUFFICES ASSUME Types, HookInv, [Next]_vars PROVE HookInv'
  OBVIOUS
<1> USE TwoWriters
<1>1. ASSUME Publish \/ CurrentLost \/ UNCHANGED vars PROVE HookInv'
  <2>1. UNCHANGED <<cfg, platform, up, overlapped, writer, admin>>
    BY <1>1, Zenon DEF Publish, CurrentLost, vars, disk
  <2> QED BY <2>1, HookUntouched
<1>2. CASE Boot
  <2>1. platform' = cfg' /\ UNCHANGED admin /\ \A a \in Admins : admin[a].pc # "hook"
    BY <1>2 DEF Boot, Types, Processes
  <2>2. writer'["agent"].pc \in {"off", "register", "loop"}
    BY <1>2, GotoKeeps DEF Boot, Goto, Registered, Pcs, Types, Processes, WriterType
  <2> QED BY <2>1, <2>2 DEF HookInv
<1>3. CASE Crash
  <2>1. ~up'
    BY <1>3, Zenon DEF Crash
  <2> QED BY <2>1 DEF HookInv
<1>4. CASE ImportKilled
  <2>1. UNCHANGED <<cfg, platform, up, overlapped, admin>> /\ writer'["agent"] = writer["agent"]
    BY <1>4 DEF ImportKilled, Types, Processes, WriterType
  <2> QED BY <2>1, HookUntouched
<1>5. ASSUME Register \/ StoreCredential \/ RenameToken \/ Wake \/ FetchNothing PROVE HookInv'
  <2>1. UNCHANGED <<cfg, platform, up, overlapped, admin>> /\ writer["agent"].pc # "hook"
    BY <1>5 DEF Register, StoreCredential, RenameToken, Wake, FetchNothing
  <2>2. \E pc \in {"credential", "off", "rename", "loop", "fetch"} : Goto("agent", pc)
    BY <1>5 DEF Register, StoreCredential, RenameToken, Wake, FetchNothing
  <2> QED BY <2>1, <2>2, WriterAway DEF Pcs
<1>6. CASE FetchNewer
  <2>1. UNCHANGED <<cfg, platform, up, overlapped, admin>> /\ writer["agent"].pc # "hook"
    BY <1>6 DEF FetchNewer
  <2>2. writer'["agent"].pc = "gen"
    BY <1>6 DEF FetchNewer, Types, Processes, WriterType
  <2> QED BY <2>1, <2>2, HookUntouched
<1>7. CASE AgentSet
  <2>1. /\ UNCHANGED <<up, platform, admin>> /\ overlapped' = HookPending
        /\ cfg' = Generation(writer["agent"].v) /\ writer["agent"].pc = "set"
    BY <1>7 DEF AgentSet
  <2>2. writer'["agent"].pc = "hook" /\ writer'["agent"].v = writer["agent"].v
    BY <1>7, GotoKeeps DEF AgentSet, Pcs
  <2>3. ~overlapped' => \A a \in Admins : admin'[a].pc # "hook"
    BY <2>1 DEF HookPending
  <2> QED BY <2>1, <2>2, <2>3 DEF HookInv, HookPending, Generation
<1>8. CASE AgentHook
  <2>1. /\ UNCHANGED <<up, cfg, admin, overlapped>>
        /\ platform' = Generation(writer["agent"].v) /\ writer["agent"].pc = "hook"
    BY <1>8 DEF AgentHook
  <2>2. writer'["agent"].pc = "loop"
    BY <1>8, GotoKeeps DEF AgentHook, Pcs
  <2> QED BY <2>1, <2>2 DEF HookInv
<1>9. CASE Import
  <2>1. UNCHANGED <<cfg, platform, up, overlapped, admin>> /\ writer'["agent"] = writer["agent"]
    BY <1>9 DEF Import, Types, Processes, WriterType
  <2> QED BY <2>1, HookUntouched
<1>10. ASSUME NEW p \in Writers,
              WriteGeneration(p) \/ WriteCurrent(p) \/ TruncateMarker(p) \/ WriteMarker(p)
              \/ Prune(p) \/ StoreFails(p)
       PROVE  HookInv'
  <2>1. UNCHANGED <<cfg, platform, up, overlapped, admin>> /\ writer[p].pc # "hook"
    BY <1>10 DEF WriteGeneration, WriteCurrent, TruncateMarker, WriteMarker, Prune, StoreFails
  <2>2. \E pc \in {"current", "truncate", "marker", "prune", "set", "off"} : Goto(p, pc)
    BY <1>10 DEF WriteGeneration, WriteCurrent, TruncateMarker, WriteMarker, Prune, StoreFails, Stored
  <2> QED BY <2>1, <2>2, WriterAway DEF Pcs
<1>11. ASSUME NEW a \in Admins, AdminClone(a) \/ AdminWrite(a) PROVE HookInv'
  <2>1. UNCHANGED <<cfg, platform, up, overlapped, writer>> /\ admin[a].pc # "hook"
    BY <1>11 DEF AdminClone, AdminWrite, Locked
  <2>2. /\ \A b \in Admins \ {a} : admin'[b] = admin[b]
        /\ admin'[a].pc # "hook"
    BY <1>11 DEF AdminClone, AdminWrite, Idle, Types, Processes, AdminType
  <2> QED BY <2>1, <2>2, HookUntouched
<1>12. ASSUME NEW a \in Admins, AdminSet(a) PROVE HookInv'
  <2>1. /\ UNCHANGED <<up, platform, writer>> /\ overlapped' = HookPending
        /\ cfg' = admin[a].cfg
    BY <1>12 DEF AdminSet
  <2>2. /\ \A b \in Admins \ {a} : admin'[b] = admin[b]
        /\ admin'[a].pc = "hook" /\ admin'[a].cfg = admin[a].cfg
    BY <1>12 DEF AdminSet, Types, Processes, AdminType
  <2>3. ~overlapped' => writer'["agent"].pc # "hook" /\ \A b \in Admins : admin[b].pc # "hook"
    BY <2>1 DEF HookPending
  <2> QED BY <2>1, <2>2, <2>3 DEF HookInv, HookPending
<1>13. ASSUME NEW a \in Admins, AdminHook(a) PROVE HookInv'
  <2>1. /\ UNCHANGED <<up, cfg, writer, overlapped>>
        /\ platform' = admin[a].cfg /\ admin[a].pc = "hook"
    BY <1>13 DEF AdminHook
  <2>2. /\ \A b \in Admins \ {a} : admin'[b] = admin[b]
        /\ admin'[a].pc = "idle"
    BY <1>13 DEF AdminHook, Idle, Types, Processes, AdminType
  <2> QED BY <2>1, <2>2 DEF HookInv
<1> QED
  BY <1>1, <1>2, <1>3, <1>4, <1>5, <1>6, <1>7, <1>8, <1>9, <1>10, <1>11, <1>12, <1>13, Steps, Zenon

\* Server.SetConfig: whatever configurations the agent and administrators apply, and
\* wherever the process crashes, the platform is the one of the configuration that is
\* served once the hooks have run, unless two calls of SetConfig overlapped.
THEOREM PlatformFollows == Spec => []PlatformFollowsConfig
<1>1. HookInv => PlatformFollowsConfig
  BY DEF HookInv, PlatformFollowsConfig
<1>2. Init => Types /\ HookInv
  BY InitTypes, InitHook
<1>3. Types /\ HookInv /\ [Next]_vars => (Types /\ HookInv)'
  BY TypesKeep, HookKeeps
<1> QED BY <1>1, <1>2, <1>3, PTL DEF Spec

-----------------------------------------------------------------------------
(* What a restart takes itself to have. The marker never names a newer         *)
(* generation than the current one, and no file is newer than what is being    *)
(* written; but without a marker the newest file counts, and that may be one   *)
(* that never became current.                                                  *)

Writing == {"gen", "current", "truncate", "marker"}

Marked ==
  mode = "connected" =>
    /\ marker <= latest
    /\ current # 0 => marker <= current
    /\ \A x \in gens : x <= latest
    /\ writer["agent"].pc \in {"gen", "current"} => writer["agent"].v >= marker
    /\ writer["agent"].pc \in Writing => \A x \in gens : x <= writer["agent"].v

Unmarked ==
  mode = "connected" /\ current # 0 /\ marker = 0 =>
    /\ faults = 0 => writer["agent"].pc \in {"truncate", "marker"}
    /\ ~up /\ faults <= 1 => \A x \in gens : x <= current

Marks == Marked /\ Unmarked

LEMMA InitMarks == Init => Marks
BY ConstantsAreNumbers DEF Init, Marks, Marked, Unmarked, Off, Writers, Writing

\* The types of the numbers Marks compares.
LEMMA MarkTypes ==
  ASSUME IInv
  PROVE  /\ latest \in Nat /\ current \in Nat /\ marker \in Nat /\ faults \in Nat /\ gens \subseteq Nat
         /\ writer["agent"].v \in Nat /\ writer \in WriterType /\ DOMAIN writer = Writers
BY ConstantsAreNumbers, TwoWriters DEF IInv, Types, Numbers, Processes, WriterType, Versions

\* A step that leaves the files alone and has the agent write nothing.
LEMMA MarksElsewhere ==
  ASSUME IInv, Marks, UNCHANGED <<mode, gens, current, marker>>, latest' \in Nat, latest' >= latest,
         ~up' => ~up, faults' \in Nat, faults' >= faults,
         \/ writer'["agent"] = writer["agent"]
         \/ /\ writer'["agent"].pc \notin Writing
            /\ writer["agent"].pc \notin {"truncate", "marker"} \/ faults' > 0
  PROVE  Marks'
<1> USE MarkTypes
<1>1. Marked'
  <2> SUFFICES ASSUME mode = "connected" PROVE Marked'
    BY DEF Marked
  <2>1. marker <= latest' /\ (current # 0 => marker <= current) /\ \A x \in gens : x <= latest'
    BY DEF Marks, Marked
  <2>2. /\ writer'["agent"].pc \in {"gen", "current"} => writer'["agent"].v >= marker
        /\ writer'["agent"].pc \in Writing => \A x \in gens : x <= writer'["agent"].v
    BY DEF Marks, Marked, Writing
  <2> QED BY <2>1, <2>2 DEF Marked
<1>2. Unmarked'
  <2> SUFFICES ASSUME mode = "connected", current # 0, marker = 0 PROVE Unmarked'
    BY DEF Unmarked
  <2>1. faults' = 0 => writer'["agent"].pc \in {"truncate", "marker"}
    BY DEF Marks, Unmarked
  <2>2. ~up' /\ faults' <= 1 => \A x \in gens : x <= current
    BY DEF Marks, Unmarked
  <2> QED BY <2>1, <2>2 DEF Unmarked
<1> QED BY <1>1, <1>2 DEF Marks

\* In connected mode the agent is the only writer.
LEMMA OnlyTheAgent ==
  ASSUME IInv, NEW p \in Writers, writer[p].pc # "off", mode = "connected"
  PROVE  p = "agent"
BY TwoWriters DEF IInv, StoreInv, Owners

\* Nothing a writer does, and no failure, disturbs the marks.
LEMMA MarksKeep == IInv /\ Marks /\ [Next]_vars => Marks'
<1> SUFFICES ASSUME IInv, Marks, [Next]_vars PROVE Marks'
  OBVIOUS
<1> USE MarkTypes, TwoWriters
<1>g. ASSUME NEW pc \in Pcs, Goto("agent", pc)
      PROVE  writer'["agent"].pc = pc /\ writer'["agent"].v = writer["agent"].v
  BY <1>g, GotoKeeps DEF IInv
<1>a. ASSUME NEW pc \in Pcs \ Writing, Goto("agent", pc), writer["agent"].pc \notin Writing,
             UNCHANGED <<mode, gens, current, marker, latest>>, up' = up \/ up',
             faults' \in {faults, faults + 1}
      PROVE  Marks'
  <2>1. writer'["agent"].pc = pc /\ faults' \in Nat /\ faults' >= faults /\ latest' \in Nat /\ latest' >= latest
    BY <1>a, <1>g
  <2> QED BY <1>a, <2>1, MarksElsewhere DEF Writing
<1>o. ASSUME UNCHANGED <<mode, gens, current, marker, latest, up>>, faults' \in {faults, faults + 1},
             writer'["agent"] = writer["agent"]
      PROVE  Marks'
  <2>1. faults' \in Nat /\ faults' >= faults /\ latest' \in Nat /\ latest' >= latest
    BY <1>o
  <2> QED BY <1>o, <2>1, MarksElsewhere
<1>p. {"off", "register", "credential", "rename", "loop", "fetch", "set", "hook"} \subseteq Pcs \ Writing
      /\ Writing \subseteq Pcs /\ "prune" \in Pcs
  BY DEF Pcs, Writing
<1>1. CASE Publish
  <2>1. UNCHANGED <<mode, gens, current, marker, up, faults, writer>> /\ latest' \in Nat /\ latest' >= latest
    BY <1>1, ConstantsAreNumbers DEF Publish, disk, Versions
  <2> QED BY <2>1, MarksElsewhere
<1>2. CASE Boot
  <2>1. /\ UNCHANGED <<mode, gens, current, marker, latest, faults>> /\ up'
        /\ writer["agent"].pc = "off"
    BY <1>2 DEF Boot, disk, IInv, Types, Processes
  <2>2. PICK pc \in {"off", "loop", "register"} : Goto("agent", pc)
    BY <1>2 DEF Boot, Registered
  <2> QED BY <1>a, <1>p, <2>1, <2>2 DEF Writing
<1>3. CASE Crash
  <2>1. /\ UNCHANGED <<mode, gens, current, marker, latest>> /\ faults' = faults + 1 /\ ~up' /\ up
        /\ writer'["agent"] = Off
    BY <1>3 DEF Crash, disk, Fault, WriterType
  <2>2. writer'["agent"].pc = "off"
    BY <2>1 DEF Off
  <2>3. Marked'
    BY <2>1, <2>2 DEF Marks, Marked, Writing
  <2>4. Unmarked'
    <3> SUFFICES ASSUME mode = "connected", current # 0, marker = 0, faults = 0
                 PROVE  \A x \in gens : x <= current
      BY <2>1 DEF Unmarked
    <3>1. writer["agent"].pc \in {"truncate", "marker"}
      BY DEF Marks, Unmarked
    <3>2. current = writer["agent"].v
      BY <3>1 DEF IInv, StoreInv, Held
    <3> QED BY <3>1, <3>2 DEF Marks, Marked, Writing
  <2> QED BY <2>3, <2>4 DEF Marks
<1>4. CASE ImportKilled
  BY <1>4, <1>o DEF ImportKilled, Fault, disk, WriterType
<1>5. CASE CurrentLost
  <2>1. UNCHANGED <<mode, gens, marker, latest, up, writer>> /\ current' = 0
    BY <1>5 DEF CurrentLost
  <2> QED BY <2>1 DEF Marks, Marked, Unmarked
<1>6. CASE Register
  <2>1. PICK pc \in {"credential", "off"} : Goto("agent", pc)
    BY <1>6 DEF Register
  <2>2. writer["agent"].pc \notin Writing /\ faults' \in {faults, faults + 1}
        /\ UNCHANGED <<mode, gens, current, marker, latest, up>>
    BY <1>6 DEF Register, Fault, disk, Writing
  <2> QED BY <1>a, <1>p, <2>1, <2>2
<1>7. CASE StoreCredential
  <2>1. PICK pc \in {"rename", "off"} : Goto("agent", pc)
    BY <1>7 DEF StoreCredential
  <2>2. writer["agent"].pc \notin Writing /\ faults' \in {faults, faults + 1}
        /\ UNCHANGED <<mode, gens, current, marker, latest, up>>
    BY <1>7 DEF StoreCredential, Fault, Writing
  <2> QED BY <1>a, <1>p, <2>1, <2>2
<1>8. CASE RenameToken
  <2>1. writer["agent"].pc \notin Writing /\ faults' \in {faults, faults + 1} /\ Goto("agent", "loop")
        /\ UNCHANGED <<mode, gens, current, marker, latest, up>>
    BY <1>8 DEF RenameToken, Fault, disk, Writing
  <2> QED BY <1>a, <1>p, <2>1
<1>9. CASE Wake
  <2>1. writer["agent"].pc \notin Writing /\ Goto("agent", "fetch")
        /\ UNCHANGED <<mode, gens, current, marker, latest, up, faults>>
    BY <1>9 DEF Wake, disk, Writing
  <2> QED BY <1>a, <1>p, <2>1
<1>10. CASE FetchNothing
  <2>1. writer["agent"].pc \notin Writing /\ Goto("agent", "loop")
        /\ UNCHANGED <<mode, gens, current, marker, latest, up, faults>>
    BY <1>10 DEF FetchNothing, disk, Writing
  <2> QED BY <1>a, <1>p, <2>1
<1>11. CASE FetchNewer
  <2>1. /\ UNCHANGED <<mode, gens, current, marker, latest, up, faults>> /\ writer["agent"].pc = "fetch"
        /\ writer' = [writer EXCEPT !["agent"] = [pc |-> "gen", v |-> latest, force |-> FALSE]]
    BY <1>11 DEF FetchNewer, disk
  <2>2. writer'["agent"].pc = "gen" /\ writer'["agent"].v = latest
    BY <2>1
  <2>3. Marked'
    BY <2>1, <2>2 DEF Marks, Marked
  <2>4. Unmarked'
    BY <2>1 DEF Marks, Unmarked
  <2> QED BY <2>3, <2>4 DEF Marks
<1>12. CASE AgentSet
  <2>1. writer["agent"].pc \notin Writing /\ Goto("agent", "hook")
        /\ UNCHANGED <<mode, gens, current, marker, latest, up, faults>>
    BY <1>12 DEF AgentSet, disk, Writing
  <2> QED BY <1>a, <1>p, <2>1
<1>13. CASE AgentHook
  <2>1. writer["agent"].pc \notin Writing /\ Goto("agent", "loop")
        /\ UNCHANGED <<mode, gens, current, marker, latest, up, faults>>
    BY <1>13 DEF AgentHook, disk, Writing
  <2> QED BY <1>a, <1>p, <2>1
<1>14. CASE Import
  BY <1>14, <1>o DEF Import, disk, WriterType
<1>w. ASSUME NEW p \in Writers, writer[p].pc # "off", mode' = mode, mode = "connected" => (p = "agent" => Marks')
      PROVE  Marks'
  <2>1. CASE mode = "connected"
    BY <1>w, <2>1, OnlyTheAgent
  <2>2. CASE mode # "connected"
    BY <1>w, <2>2 DEF Marks, Marked, Unmarked
  <2> QED BY <2>1, <2>2
<1>15. ASSUME NEW p \in Writers, WriteGeneration(p) PROVE Marks'
  <2> SUFFICES ASSUME mode = "connected", p = "agent" PROVE Marks'
    BY <1>15, <1>w DEF WriteGeneration
  <2>1. /\ UNCHANGED <<mode, current, marker, latest, up, faults>> /\ writer["agent"].pc = "gen"
        /\ gens' = gens \cup {writer["agent"].v} /\ Goto("agent", "current")
    BY <1>15 DEF WriteGeneration
  <2>2. writer'["agent"].pc = "current" /\ writer'["agent"].v = writer["agent"].v
    BY <1>g, <1>p, <2>1 DEF Writing
  <2>3. Marked'
    <3>1. writer["agent"].v <= latest
      BY DEF IInv, StoreInv, NothingNewer
    <3> QED BY <2>1, <2>2, <3>1 DEF Marks, Marked, Writing
  <2>4. Unmarked'
    <3>1. up
      BY <2>1 DEF IInv, Types, Processes
    <3> QED BY <2>1, <3>1 DEF Marks, Unmarked
  <2> QED BY <2>3, <2>4 DEF Marks
<1>16. ASSUME NEW p \in Writers, WriteCurrent(p) PROVE Marks'
  <2> SUFFICES ASSUME mode = "connected", p = "agent" PROVE Marks'
    BY <1>16, <1>w DEF WriteCurrent
  <2>1. /\ UNCHANGED <<mode, gens, marker, latest, up, faults>> /\ writer["agent"].pc = "current"
        /\ current' = writer["agent"].v /\ Goto("agent", "truncate")
    BY <1>16 DEF WriteCurrent
  <2>2. writer'["agent"].pc = "truncate" /\ writer'["agent"].v = writer["agent"].v
    BY <1>g, <1>p, <2>1 DEF Writing
  <2>3. Marked'
    BY <2>1, <2>2 DEF Marks, Marked, Writing
  <2>4. Unmarked'
    BY <2>1, <2>2 DEF Unmarked, Marks, Marked, Writing
  <2> QED BY <2>3, <2>4 DEF Marks
<1>17. ASSUME NEW p \in Writers, TruncateMarker(p) PROVE Marks'
  <2> SUFFICES ASSUME mode = "connected", p = "agent" PROVE Marks'
    BY <1>17, <1>w DEF TruncateMarker
  <2>1. /\ UNCHANGED <<mode, gens, current, latest, up, faults>> /\ writer["agent"].pc = "truncate"
        /\ marker' = 0 /\ Goto("agent", "marker")
    BY <1>17 DEF TruncateMarker
  <2>2. writer'["agent"].pc = "marker" /\ writer'["agent"].v = writer["agent"].v
    BY <1>g, <1>p, <2>1 DEF Writing
  <2>3. Marked'
    BY <2>1, <2>2 DEF Marks, Marked, Writing
  <2>4. Unmarked'
    <3>1. up
      BY <2>1 DEF IInv, Types, Processes
    <3> QED BY <2>1, <2>2, <3>1 DEF Unmarked
  <2> QED BY <2>3, <2>4 DEF Marks
<1>18. ASSUME NEW p \in Writers, WriteMarker(p) PROVE Marks'
  <2> SUFFICES ASSUME mode = "connected", p = "agent" PROVE Marks'
    BY <1>18, <1>w DEF WriteMarker
  <2>1. /\ UNCHANGED <<mode, gens, current, latest, up, faults>> /\ writer["agent"].pc = "marker"
        /\ marker' = writer["agent"].v /\ Goto("agent", "prune")
    BY <1>18 DEF WriteMarker
  <2>2. writer'["agent"].pc = "prune" /\ writer'["agent"].v = writer["agent"].v
    BY <1>g, <1>p, <2>1
  <2>3. writer["agent"].v <= latest /\ current = writer["agent"].v /\ writer["agent"].v # 0
    BY <2>1, ConstantsAreNumbers DEF IInv, StoreInv, NothingNewer, Held, Types, Processes, Storing, Versions
  <2>4. Marked'
    BY <2>1, <2>2, <2>3 DEF Marks, Marked, Writing
  <2>5. Unmarked'
    BY <2>1, <2>3 DEF Unmarked
  <2> QED BY <2>4, <2>5 DEF Marks
<1>19. ASSUME NEW p \in Writers, Prune(p) PROVE Marks'
  <2> SUFFICES ASSUME mode = "connected", p = "agent" PROVE Marks'
    BY <1>19, <1>w DEF Prune
  <2>1. /\ UNCHANGED <<mode, current, marker, latest, up, faults>> /\ writer["agent"].pc = "prune"
        /\ gens' \subseteq gens /\ Goto("agent", "set")
    BY <1>19 DEF Prune, Pruned, Stored
  <2>2. writer'["agent"].pc = "set"
    BY <1>g, <1>p, <2>1
  <2>3. Marked'
    BY <2>1, <2>2 DEF Marks, Marked, Writing
  <2>4. Unmarked'
    BY <2>1 DEF Marks, Unmarked
  <2> QED BY <2>3, <2>4 DEF Marks
<1>20. ASSUME NEW p \in Writers, StoreFails(p) PROVE Marks'
  <2> SUFFICES ASSUME mode = "connected", p = "agent" PROVE Marks'
    BY <1>20, <1>w DEF StoreFails
  <2>1. /\ UNCHANGED <<mode, current, marker, latest, up>> /\ faults' = faults + 1
        /\ writer["agent"].pc \in Writing /\ Goto("agent", "set")
        /\ gens' \subseteq gens \cup {writer["agent"].v}
    BY <1>20 DEF StoreFails, Stored, Fault, Writing
  <2>2. writer'["agent"].pc = "set" /\ up
    BY <1>g, <1>p, <2>1 DEF IInv, Types, Processes, Writing
  <2>3. writer["agent"].v <= latest
    BY DEF IInv, StoreInv, NothingNewer
  <2>4. Marked'
    BY <2>1, <2>2, <2>3 DEF Marks, Marked, Writing
  <2>5. Unmarked'
    BY <2>1, <2>2 DEF Unmarked
  <2> QED BY <2>4, <2>5 DEF Marks
<1>21. ASSUME NEW a \in Admins, AdminClone(a) PROVE Marks'
  BY <1>21, <1>o DEF AdminClone, disk
<1>22. ASSUME NEW a \in Admins, AdminWrite(a) PROVE Marks'
  BY <1>22, <1>o DEF AdminWrite, Fault, disk
<1>23. ASSUME NEW a \in Admins, AdminSet(a) PROVE Marks'
  BY <1>23, <1>o DEF AdminSet, disk
<1>24. ASSUME NEW a \in Admins, AdminHook(a) PROVE Marks'
  BY <1>24, <1>o DEF AdminHook, disk
<1>25. CASE UNCHANGED vars
  BY <1>25, <1>o DEF vars, disk
<1> QED
  BY <1>1, <1>2, <1>3, <1>4, <1>5, <1>6, <1>7, <1>8, <1>9, <1>10, <1>11, <1>12, <1>13, <1>14,
     <1>15, <1>16, <1>17, <1>18, <1>19, <1>20, <1>21, <1>22, <1>23, <1>24, <1>25, Steps

\* A restart knows which generation it serves as long as there is a marker, or at most
\* one thing has failed.
LEMMA BootKnows ==
  ASSUME IInv, Marks, [Next]_vars, ~up, up', marker # 0 \/ faults <= 1
  PROVE  applied' <= cfg'.base
<1> USE MarkTypes
<1>1. Boot
  <2>1. Publish \/ Crash \/ ImportKilled \/ CurrentLost \/ Import \/ UNCHANGED vars => ~(~up /\ up')
    BY DEF Publish, Crash, ImportKilled, CurrentLost, Import, vars
  <2>2. Register \/ StoreCredential \/ RenameToken \/ Wake \/ FetchNothing \/ FetchNewer \/ AgentSet \/ AgentHook
          => ~(~up /\ up')
    BY DEF Register, StoreCredential, RenameToken, Wake, FetchNothing, FetchNewer, AgentSet, AgentHook
  <2>3. ASSUME NEW p \in Writers, \/ WriteGeneration(p) \/ WriteCurrent(p) \/ TruncateMarker(p)
                                  \/ WriteMarker(p) \/ Prune(p) \/ StoreFails(p)
        PROVE  ~(~up /\ up')
    BY <2>3 DEF WriteGeneration, WriteCurrent, TruncateMarker, WriteMarker, Prune, StoreFails
  <2>4. ASSUME NEW a \in Admins, AdminClone(a) \/ AdminWrite(a) \/ AdminSet(a) \/ AdminHook(a)
        PROVE  ~(~up /\ up')
    BY <2>4 DEF AdminClone, AdminWrite, AdminSet, AdminHook
  <2> QED BY <2>1, <2>2, <2>3, <2>4, Steps
<1>2. cfg' = (IF current = 0 THEN yaml ELSE Generation(current))
      /\ applied' = IF mode = "connected" /\ current # 0 THEN currentAppliedVersion ELSE 0
  BY <1>1 DEF Boot
<1>3. CASE mode = "connected" /\ current # 0
  <2>1. cfg'.base = current /\ applied' = currentAppliedVersion
    BY <1>2, <1>3 DEF Generation
  <2>2. CASE marker # 0
    BY <1>3, <2>1, <2>2 DEF currentAppliedVersion, Marks, Marked
  <2>3. CASE marker = 0
    <3>1. \A x \in gens : x <= current
      BY <1>3, <2>3 DEF Marks, Unmarked
    <3>2. applied' = currentGenerationVersion
      BY <2>1, <2>3 DEF currentAppliedVersion
    <3>3. CASE gens = {}
      BY <2>1, <3>2, <3>3 DEF currentGenerationVersion
    <3>4. CASE gens # {}
      <4>1. gens \in SUBSET Versions
        BY DEF IInv, Types, Numbers
      <4>2. Max(gens) \in gens
        BY <3>4, <4>1, MaxOfVersions
      <4> QED BY <2>1, <3>1, <3>2, <3>4, <4>2 DEF currentGenerationVersion
    <3> QED BY <3>3, <3>4
  <2> QED BY <2>2, <2>3
<1>4. CASE ~(mode = "connected" /\ current # 0)
  <2>1. applied' = 0
    BY <1>2, <1>4
  <2>2. cfg' \in Config
    BY <1>2, ConstantsAreNumbers DEF IInv, Types, Numbers, Configs
  <2>3. cfg'.base \in 0..MaxVersion
    BY <2>2 DEF Config
  <2> QED BY <2>1, <2>3, ConstantsAreNumbers
<1> QED BY <1>3, <1>4

\* The marks hold in every state.
LEMMA MarksInvariance == Spec => []Marks
<1>1. Init => Marks
  BY InitMarks
<1>2. IInv /\ Marks /\ [Next]_vars => Marks'
  BY MarksKeep
<1> QED BY <1>1, <1>2, Invariance, PTL DEF Spec

\* LoadStoredConfig, currentAppliedVersion: whatever was stored, cut off and lost before,
\* however often, a restart that finds a marker, or that only one fault came before, does
\* not take itself to have a newer generation than the one it serves.
THEOREM MarkerIsTrusted ==
  Spec => [][~up /\ up' /\ (marker # 0 \/ faults <= 1) => applied' <= cfg'.base]_vars
<1>1. IInv /\ Marks /\ [Next]_vars
        => [~up /\ up' /\ (marker # 0 \/ faults <= 1) => applied' <= cfg'.base]_vars
  BY BootKnows
<1> QED BY <1>1, Invariance, MarksInvariance, PTL DEF Spec

\* The same for a gateway that has one fault, as the runs of TLC have it: an agent that
\* restarts fetches whatever is newer than what it serves.
THEOREM RestartKnows == ASSUME MaxFaults <= 1 PROVE Spec => RestartKnowsItsGeneration
<1>1. IInv /\ Marks /\ [Next]_vars => [~up /\ up' => applied' <= cfg'.base]_vars
  <2>1. IInv => faults <= 1
    BY ConstantsAreNumbers DEF IInv, Types, Numbers
  <2> QED BY <2>1, BootKnows
<1> QED BY <1>1, Invariance, MarksInvariance, PTL DEF Spec, RestartKnowsItsGeneration
=============================================================================
