----------------------------- MODULE FlowProofs -----------------------------
(***************************************************************************)
(* Proofs about FlowDefinition, for definitions of any length, with any    *)
(* number of inputs, steps and references; and about FlowReload, for any   *)
(* flows, aliases, bodies and callers and any bounds, with failing writes, *)
(* crashes, altered files and hot reloads.                                 *)
(***************************************************************************)
EXTENDS FlowReload, FlowDefinition, SequenceTheorems, TLAPS

(***************************************************************************)
(* FlowDefinition                                                          *)
(***************************************************************************)
-----------------------------------------------------------------------------
(* What a run relies on: it runs a definition that Validate accepted, and by *)
(* the time it has come to step at, the inputs and all steps before at have  *)
(* a value.                                                                  *)

Available == {RunId} \cup def.declared \cup EarlierSteps(def, at)

RunInv ==
  /\ phase \in {"draft", "published"} => at = 1
  /\ phase \in {"published", "running"} => Validate(def)
  /\ phase = "running" => Available \subseteq bound
  /\ reason # "undefined reference"

DefinitionIInv == DefinitionTypeOK /\ RunInv

StepRecord == [id : StepIds, deps : SUBSET StepIds, fine : BOOLEAN,
               refs : SUBSET (StepIds \cup Inputs \cup {RunId})]

\* A definition is a record of the shape DefinitionConstants gives it.
LEMMA Shape ==
  ASSUME NEW d \in Definitions
  PROVE  /\ \A i \in 1 .. Len(d.steps) : d.steps[i].id \in StepIds
         /\ Len(d.steps) \in Nat /\ DOMAIN d.steps = 1 .. Len(d.steps)
         /\ d.declared \subseteq Inputs /\ d.required \subseteq Inputs
<1>1. /\ d.steps \in Seq(StepRecord)
      /\ d.declared \subseteq Inputs /\ d.required \subseteq Inputs
  BY DefinitionConstants, Zenon DEF DefinitionConstants, StepRecord
<1>2. Len(d.steps) \in Nat /\ DOMAIN d.steps = 1 .. Len(d.steps)
  BY <1>1, LenProperties
<1>3. \A i \in 1 .. Len(d.steps) : d.steps[i] \in StepRecord
  BY <1>1, ElementOfSeq
<1> QED BY <1>1, <1>2, <1>3 DEF StepRecord

\* The loop of Validate: going on by one step makes that step known.
LEMMA OneStepMore ==
  ASSUME NEW d \in Definitions, NEW i \in 1 .. Len(d.steps)
  PROVE  EarlierSteps(d, i + 1) = EarlierSteps(d, i) \cup {d.steps[i].id}
<1>1. Len(d.steps) \in Nat
  BY Shape
<1>2. 1 .. (i + 1) - 1 = (1 .. i - 1) \cup {i}
  BY <1>1
<1> QED BY <1>2, Zenon DEF EarlierSteps

\* The first step finds no other step known.
LEMMA NoneEarlier == ASSUME NEW d PROVE EarlierSteps(d, 1) = {}
BY DEF EarlierSteps

\* What checkRefs allows in the template of a step has a value when a run gets there.
LEMMA StepRenders ==
  ASSUME DefinitionIInv, phase = "running", at <= Len(def.steps)
  PROVE  at \in DOMAIN def.steps /\ Renders(def.steps[at].refs)
<1>1. at \in DOMAIN def.steps
  <2>1. def \in Definitions /\ at \in 1 .. Len(def.steps) + 1
    BY DEF DefinitionIInv, DefinitionTypeOK
  <2> QED BY <2>1, Shape
<1>2. StepIsValid(def, at)
  BY <1>1 DEF DefinitionIInv, RunInv, Validate
<1> QED
  BY <1>1, <1>2 DEF StepIsValid, RefsAllowed, DefinitionIInv, RunInv, Available, Renders

\* The same of the output, for which every step is known.
LEMMA OutputRenders ==
  ASSUME DefinitionIInv, phase = "running", at = Len(def.steps) + 1
  PROVE  Renders(def.output)
BY DEF DefinitionIInv, RunInv, Validate, RefsAllowed, Available, Renders

LEMMA DefinitionInitHolds == DefinitionInit => DefinitionIInv
<1> SUFFICES ASSUME DefinitionInit PROVE DefinitionIInv
  OBVIOUS
<1>1. Len(def.steps) \in Nat
  BY Shape DEF DefinitionInit
<1> QED BY <1>1 DEF DefinitionInit, DefinitionIInv, DefinitionTypeOK, RunInv

\* Every step of a publisher and of a run keeps IInv.
LEMMA DefinitionStepHolds == DefinitionIInv /\ [DefinitionNext]_definitionVars => DefinitionIInv'
<1> SUFFICES ASSUME DefinitionIInv, [DefinitionNext]_definitionVars PROVE DefinitionIInv'
  OBVIOUS
<1>0. /\ def \in Definitions /\ Len(def.steps) \in Nat
      /\ def.declared \subseteq Inputs /\ def.required \subseteq Inputs
  BY Shape DEF DefinitionIInv, DefinitionTypeOK
<1>1. CASE PublishDefinition
  BY <1>0, <1>1 DEF PublishDefinition, DefinitionIInv, DefinitionTypeOK, RunInv
<1>2. CASE StartRun
  <2>1. PICK given \in (SUBSET Inputs) \cup ChatInputs(def) :
          \/ phase' = "running" /\ bound' = InitialVars(def, given)
          \/ phase' = "refused" /\ UNCHANGED bound
    BY <1>2 DEF StartRun
  <2>2. given \subseteq Inputs
    BY <1>0, <2>1 DEF ChatInputs
  <2>3. def' = def /\ at' = at /\ at = 1 /\ reason' = reason /\ Validate(def)
    BY <1>2 DEF StartRun, DefinitionIInv, RunInv
  <2>4. CASE phase' = "running" /\ bound' = InitialVars(def, given)
    <3>1. DefinitionTypeOK'
      BY <1>0, <2>2, <2>3, <2>4 DEF DefinitionIInv, DefinitionTypeOK, InitialVars
    <3>2. Validate(def)' /\ EarlierSteps(def, at)' = {}
      BY <2>3, NoneEarlier
    <3>3. Available' \subseteq bound'
      BY <2>3, <2>4, <3>2 DEF Available, InitialVars
    <3> QED BY <2>3, <2>4, <3>1, <3>2, <3>3 DEF DefinitionIInv, RunInv
  <2>5. CASE phase' = "refused" /\ UNCHANGED bound
    BY <2>3, <2>5 DEF DefinitionIInv, DefinitionTypeOK, RunInv
  <2> QED BY <2>1, <2>4, <2>5
<1>3. CASE RunStep
  <2>1. at \in DOMAIN def.steps /\ Renders(def.steps[at].refs)
    BY <1>3, StepRenders DEF RunStep
  <2>2. CASE \E why \in Failures(def.steps[at].refs) : Fail(why)
    BY <2>1, <2>2 DEF Failures, Fail, DefinitionIInv, DefinitionTypeOK, RunInv
  <2>3. CASE /\ bound' = bound \cup {def.steps[at].id} /\ at' = at + 1
             /\ UNCHANGED <<def, phase, reason>>
    <3>1. at \in 1 .. Len(def.steps) /\ def.steps[at].id \in StepIds
      BY <1>0, <2>1, Shape, Zenon
    <3>2. DefinitionTypeOK'
      <4>1. def' = def /\ phase' = phase /\ reason' = reason
        BY <2>3
      <4>2. at' \in 1 .. Len(def.steps) + 1
        BY <1>0, <2>3, <3>1
      <4>3. bound' \subseteq StepIds \cup Inputs \cup {RunId}
        BY <2>3, <3>1 DEF DefinitionIInv, DefinitionTypeOK
      <4> QED BY <4>1, <4>2, <4>3 DEF DefinitionIInv, DefinitionTypeOK
    <3>3. EarlierSteps(def, at + 1) = EarlierSteps(def, at) \cup {def.steps[at].id}
      BY <1>0, <3>1, OneStepMore
    <3>4. Available' = Available \cup {def.steps[at].id}
      BY <2>3, <3>3 DEF Available
    <3>5. Validate(def)' = Validate(def)
      BY <2>3
    <3> QED BY <1>3, <2>3, <3>2, <3>4, <3>5 DEF RunStep, DefinitionIInv, RunInv
  <2> QED BY <1>3, <2>2, <2>3 DEF RunStep
<1>4. CASE RenderOutput
  <2>1. Renders(def.output)
    BY <1>4, OutputRenders DEF RenderOutput
  <2> QED BY <1>4, <2>1 DEF RenderOutput, DefinitionIInv, DefinitionTypeOK, RunInv
<1>5. CASE UNCHANGED definitionVars
  BY <1>5 DEF definitionVars, DefinitionIInv, DefinitionTypeOK, RunInv, Available
<1> QED BY <1>1, <1>2, <1>3, <1>4, <1>5 DEF DefinitionNext

-----------------------------------------------------------------------------
\* A run in progress has a value for all it may refer to.
THEOREM DefinitionInvariance == DefinitionSpec => []DefinitionIInv
BY DefinitionInitHolds, DefinitionStepHolds, PTL DEF DefinitionSpec

\* The variables have their types, whatever is published and run.
THEOREM DefinitionTypeCorrect == DefinitionSpec => []DefinitionTypeOK
BY DefinitionInvariance, PTL DEF DefinitionIInv

\* Validate lets nothing through that a run could not render, for definitions of
\* any length and shape and for all inputs ValidateInputs accepts.
THEOREM AcceptedRenders == DefinitionSpec => []AcceptedFlowsRender
<1>1. DefinitionIInv => AcceptedFlowsRender
  BY DEF DefinitionIInv, RunInv, AcceptedFlowsRender
<1> QED BY <1>1, DefinitionInvariance, PTL

-----------------------------------------------------------------------------
(***************************************************************************)
(* FlowStore: one store                                                    *)
(***************************************************************************)
\* What the assumptions say of the values that stand for none.
LEMMA Constants ==
  /\ None \notin Bodies /\ None \notin FlowMeta /\ None \notin Draft /\ None \notin FlowVersion
  /\ None \notin FlowCall
  /\ MaxRevision \in Nat \ {0} /\ MaxVersion \in Nat \ {0}
BY FlowConstants, NoneIsNoContent

-----------------------------------------------------------------------------
(* The invariant *)

\* m is what became of the meta o of a flow: nothing went back.
Later(m, o) ==
  /\ m.alias = o.alias /\ m.rev >= o.rev /\ m.latest >= o.latest
  /\ o.status = "retired" => m.status = "retired"

\* Memory and disk: what is in memory is on disk and not older, and an open store has
\* everything in memory; an alias has one owner.
Store ==
  /\ \A f \in Flows :
       /\ meta[f] # None => f \in dir /\ draft[f] # None
       /\ mem[f] # None => meta[f] # None /\ Later(mem[f], meta[f])
       /\ mode = "up" /\ meta[f] # None => mem[f] # None
       /\ mode # "up" => mem[f] = None
  /\ \A f, g \in Flows :
       f # g /\ meta[f] # None /\ meta[g] # None => meta[f].alias # meta[g].alias
  /\ mode = "broken" => \E f \in dir : meta[f] = None

\* A call that is under way; what it has validated is the draft as long as the
\* revision is the one it saw.
CallerIsPlaced(k) ==
  /\ k.pc # "idle" => k.flow \in Flows /\ mem[k.flow] # None
  /\ k.pc = "resolved" => k.n \in Versions
  /\ k.pc = "validated" /\ k.seen # None =>
       mem[k.flow].rev >= k.n /\ (mem[k.flow].rev = k.n => draft[k.flow].body = k.seen)

\* What was answered is on disk.
Answered ==
  /\ \A a \in accepted : meta[a.flow] # None /\ meta[a.flow].rev >= a.rev
  /\ \A p \in published : meta[p.flow] # None /\ meta[p.flow].latest >= p.version
  /\ \A f \in retired : meta[f] # None /\ meta[f].status = "retired"

\* What was executed is what the checksum of its file was taken of.
Executions ==
  \A e \in executed : ver[e.flow][e.version] # None /\ ver[e.flow][e.version].sum = e.body

Callers == \A c \in Clients : CallerIsPlaced(client[c])

IInv == TypeOK /\ Store /\ Callers /\ Answered /\ Executions

LEMMA InitHolds == Init => IInv
BY Constants DEF Init, IInv, TypeOK, Store, Callers, CallerIsPlaced, Answered, Executions, Idle,
   ClientRecord

-----------------------------------------------------------------------------
(* Types *)

LEMMA IdleIsACall == Idle \in ClientRecord /\ Idle.pc = "idle"
BY Constants DEF Idle, ClientRecord

LEMMA DeathIsTyped ==
  ASSUME Dies
  PROVE  /\ mode' = "down" /\ mem' = [f \in Flows |-> None]
         /\ client' = [c \in Clients |-> Idle] /\ UNCHANGED answers
BY DEF Dies

LEMMA RevisedIsAMeta ==
  ASSUME TypeOK, NEW f \in Flows, mem[f] # None, NEW expect \in Revisions,
         expect < MaxRevision, mem[f].rev = expect
  PROVE  /\ Revised(f, expect) \in FlowMeta /\ Revised(f, expect).rev = expect + 1
         /\ Later(Revised(f, expect), mem[f]) /\ expect + 1 \in Revisions
BY Constants DEF TypeOK, Revised, FlowMeta, Later, Revisions

LEMMA ReleasedIsAMeta ==
  ASSUME TypeOK, NEW f \in Flows, mem[f] # None, mem[f].latest < MaxVersion,
         mem[f].status # "retired"
  PROVE  /\ Released(f) \in FlowMeta /\ Released(f).latest = mem[f].latest + 1
         /\ Released(f).rev = mem[f].rev /\ Later(Released(f), mem[f])
         /\ mem[f].latest + 1 \in Versions
<1>1. mem[f] \in FlowMeta
  BY DEF TypeOK
<1>2. mem[f].latest + 1 \in Versions /\ mem[f].latest + 1 \in 0..MaxVersion
  BY <1>1, Constants DEF FlowMeta, Versions
<1> DEFINE t == [mem[f] EXCEPT !.latest = @ + 1]
<1>3. /\ t \in FlowMeta /\ t.latest = mem[f].latest + 1
      /\ t.rev = mem[f].rev /\ t.alias = mem[f].alias
  BY <1>1, <1>2 DEF FlowMeta
<1>4. Released(f) = [t EXCEPT !.status = "published"]
  BY DEF Released
<1> HIDE DEF t
<1>5. /\ Released(f) \in FlowMeta /\ Released(f).latest = mem[f].latest + 1
      /\ Released(f).rev = mem[f].rev /\ Released(f).alias = mem[f].alias
  BY <1>3, <1>4 DEF FlowMeta, FlowStatus
<1>6. mem[f].rev \in Nat /\ mem[f].latest \in Nat
  BY <1>1, Constants DEF FlowMeta, Revisions
<1> QED BY <1>2, <1>5, <1>6 DEF Later

LEMMA SetIsAMeta ==
  ASSUME TypeOK, NEW f \in Flows, mem[f] # None, NEW status \in FlowStatus, Settable(f, status)
  PROVE  LET m == [mem[f] EXCEPT !.status = status] IN
         m \in FlowMeta /\ m.rev = mem[f].rev /\ m.status = status /\ Later(m, mem[f])
BY Constants DEF TypeOK, Settable, FlowMeta, FlowStatus, Later, Revisions, Versions

-----------------------------------------------------------------------------
(* What the steps do to one flow. *)

\* The meta of flow f becomes m, in memory, on disk or in both; or the process dies.
Rewrites(f, m) ==
  /\ mem[f] # None /\ m \in FlowMeta /\ Later(m, mem[f])
  /\ meta' \in {meta, [meta EXCEPT ![f] = m]}
  /\ dir' = dir
  /\ \A g \in Flows : draft[g] # None => draft'[g] # None
  /\ \/ mode' = mode /\ mem' = [mem EXCEPT ![f] = m]
     \/ mode' = mode /\ mem' = mem /\ meta' = meta
     \/ mode' = "down" /\ mem' = [g \in Flows |-> None]

LEMMA RewriteKeeps ==
  ASSUME TypeOK, Store, NEW f \in Flows, NEW m, Rewrites(f, m)
  PROVE  /\ Store'
         /\ \A g \in Flows : meta[g] # None => meta'[g] # None /\ Later(meta'[g], meta[g])
         /\ mem' \in [Flows -> FlowMeta \cup {None}] /\ meta' \in [Flows -> FlowMeta \cup {None}]
         /\ mode' \in {"up", "down", "broken"}
<1>1. /\ mem \in [Flows -> FlowMeta \cup {None}] /\ meta \in [Flows -> FlowMeta \cup {None}]
      /\ mode \in {"up", "down", "broken"}
  BY DEF TypeOK
<1>2. /\ mode = "up" /\ m # None /\ meta[f] # None /\ m.alias = meta[f].alias /\ Later(m, meta[f])
  BY <1>1, Constants DEF Store, Rewrites, Later, FlowMeta, Revisions, Versions
<1>3. \A g \in Flows : meta[g] # None => Later(meta[g], meta[g])
  BY <1>1, Constants DEF Later, FlowMeta, Revisions
<1>4. \A g \in Flows : IF g = f THEN meta'[g] \in {meta[g], m} ELSE meta'[g] = meta[g]
  BY <1>1 DEF Rewrites
<1>5. \A g \in Flows : meta[g] # None => meta'[g] # None /\ Later(meta'[g], meta[g])
  BY <1>2, <1>3, <1>4
<1>6. \A g \in Flows : meta'[g] # None => meta[g] # None /\ meta'[g].alias = meta[g].alias
  BY <1>2, <1>4
<1>7. /\ mem' \in [Flows -> FlowMeta \cup {None}] /\ meta' \in [Flows -> FlowMeta \cup {None}]
      /\ mode' \in {"up", "down"}
  BY <1>1, <1>2 DEF Rewrites
<1>8. \A g \in Flows :
        /\ meta'[g] # None => g \in dir' /\ draft'[g] # None
        /\ mem'[g] # None => meta'[g] # None /\ Later(mem'[g], meta'[g])
        /\ mode' = "up" /\ meta'[g] # None => mem'[g] # None
        /\ mode' # "up" => mem'[g] = None
  <2> SUFFICES ASSUME NEW g \in Flows
               PROVE  /\ meta'[g] # None => g \in dir' /\ draft'[g] # None
                      /\ mem'[g] # None => meta'[g] # None /\ Later(mem'[g], meta'[g])
                      /\ mode' = "up" /\ meta'[g] # None => mem'[g] # None
                      /\ mode' # "up" => mem'[g] = None
    OBVIOUS
  <2>1. Later(m, m)
    BY <1>1, Constants DEF Rewrites, Later, FlowMeta, Revisions
  <2>2. meta'[g] # None => g \in dir' /\ draft'[g] # None
    BY <1>6 DEF Store, Rewrites
  <2>3. CASE mode' = mode /\ mem' = [mem EXCEPT ![f] = m]
    <3>1. CASE g = f
      BY <1>1, <1>2, <1>4, <2>1, <2>2, <2>3, <3>1 DEF Store
    <3>2. CASE g # f
      BY <1>1, <1>2, <1>4, <2>2, <2>3, <3>2 DEF Store
    <3> QED BY <3>1, <3>2
  <2>4. CASE mode' = mode /\ mem' = mem /\ meta' = meta
    BY <1>2, <2>2, <2>4 DEF Store
  <2>5. CASE mode' = "down" /\ mem' = [h \in Flows |-> None]
    BY <2>2, <2>5
  <2> QED BY <2>3, <2>4, <2>5 DEF Rewrites
<1>9. \A g, h \in Flows :
        g # h /\ meta'[g] # None /\ meta'[h] # None => meta'[g].alias # meta'[h].alias
  BY <1>6 DEF Store
<1>10. Store'
  BY <1>7, <1>8, <1>9 DEF Store
<1> QED BY <1>5, <1>7, <1>10

\* The calls that are under way when a step leaves memory and drafts as they are, or
\* ahead of what the calls have seen.
LEMMA CallersKeep ==
  ASSUME TypeOK, Callers,
         \A c \in Clients : client'[c] \in {client[c], Idle},
         \A g \in Flows : mem[g] # None =>
           /\ mem'[g] # None /\ mem'[g].rev >= mem[g].rev
           /\ mem'[g].rev = mem[g].rev => draft'[g] = draft[g],
         \A g \in Flows : mem[g] # None => mem[g].rev \in Nat /\ mem'[g].rev \in Nat
  PROVE  Callers'
<1> SUFFICES ASSUME NEW c \in Clients PROVE CallerIsPlaced(client[c])'
  BY DEF Callers
<1>1. CASE client'[c] = Idle
  BY <1>1, IdleIsACall DEF CallerIsPlaced
<1>2. CASE client'[c] = client[c]
  <2>1. CallerIsPlaced(client[c])
    BY DEF Callers
  <2>2. client[c].n \in Nat
    BY Constants DEF TypeOK, ClientRecord
  <2> QED BY <1>2, <2>1, <2>2 DEF CallerIsPlaced
<1> QED BY <1>1, <1>2

LEMMA NobodyCalls ==
  ASSUME client' = [c \in Clients |-> Idle]
  PROVE  Callers' /\ client' \in [Clients -> ClientRecord]
BY IdleIsACall DEF Callers, CallerIsPlaced

\* A meta that was answered for is still there, as late or later.
LEMMA StillAnswered ==
  ASSUME TypeOK, Answered, meta' \in [Flows -> FlowMeta \cup {None}],
         \A g \in Flows : meta[g] # None => meta'[g] # None /\ Later(meta'[g], meta[g])
  PROVE  /\ \A a \in accepted : meta'[a.flow] # None /\ meta'[a.flow].rev >= a.rev
         /\ \A p \in published : meta'[p.flow] # None /\ meta'[p.flow].latest >= p.version
         /\ \A f \in retired : meta'[f] # None /\ meta'[f].status = "retired"
<1>1. \A g \in Flows : meta[g] # None => meta[g].rev \in Nat /\ meta[g].latest \in Nat
  BY Constants DEF TypeOK, FlowMeta, Revisions
<1>2. \A g \in Flows : meta'[g] # None => meta'[g].rev \in Nat /\ meta'[g].latest \in Nat
  BY Constants DEF FlowMeta, Revisions
<1>3. /\ \A a \in accepted : a.flow \in Flows /\ a.rev \in Nat
      /\ \A p \in published : p.flow \in Flows /\ p.version \in Nat
      /\ retired \subseteq Flows
  BY Constants DEF TypeOK, Revisions, Versions
<1> QED BY <1>1, <1>2, <1>3 DEF Answered, Later

LEMMA AnswersKeep ==
  ASSUME TypeOK, TypeOK', Answered, UNCHANGED answers,
         \A g \in Flows : meta[g] # None => meta'[g] # None /\ Later(meta'[g], meta[g])
  PROVE  Answered'
<1>1. meta' \in [Flows -> FlowMeta \cup {None}]
  BY DEF TypeOK
<1> QED BY <1>1, StillAnswered DEF Answered, answers

-----------------------------------------------------------------------------
(* The steps *)

LEMMA CreateKeeps ==
  ASSUME IInv, NEW f \in Flows, NEW a \in Aliases, NEW b \in Bodies, Create(f, a, b)
  PROVE  IInv'
<1> DEFINE m == [alias |-> a, status |-> "draft", rev |-> 1, latest |-> 0]
<1> DEFINE d == [rev |-> 1, body |-> b]
<1>1. mode = "up" /\ f \notin dir /\ AliasFree(a)
  BY DEF Create
<1>2. meta[f] = None /\ mem[f] = None
  BY <1>1 DEF IInv, Store
<1>3. /\ mem \in [Flows -> FlowMeta \cup {None}] /\ meta \in [Flows -> FlowMeta \cup {None}]
      /\ draft \in [Flows -> Draft \cup {None}] /\ client \in [Clients -> ClientRecord]
  BY DEF IInv, TypeOK
<1>4. m \in FlowMeta /\ d \in Draft /\ m # None /\ d # None /\ Later(m, m) /\ 1 \in Revisions
  <2>1. m \in FlowMeta /\ d \in Draft /\ 1 \in Revisions
    BY Constants DEF FlowMeta, FlowStatus, Draft, Revisions
  <2> QED BY <2>1, Constants DEF Later
<1>0. /\ \A n \in 0..3 : CreateWrites(f, a, b, n) =>
           /\ draft' = IF n >= 2 THEN [draft EXCEPT ![f] = d] ELSE draft
           /\ meta' = IF n = 3 THEN [meta EXCEPT ![f] = m] ELSE meta
      /\ m.alias = a /\ m.rev = 1
  BY DEF CreateWrites
<1> HIDE DEF m, d
<1>5. \A g \in Flows : meta[g] # None => meta[g].alias # a
  BY <1>1 DEF IInv, Store, AliasFree, Owners, Registered, Later
<1>6. ASSUME NEW n \in 0..3, CreateWrites(f, a, b, n)
      PROVE  /\ UNCHANGED <<ver, executed>> /\ dir' \subseteq Flows /\ dir \subseteq dir'
             /\ draft' \in [Flows -> Draft \cup {None}] /\ meta' \in [Flows -> FlowMeta \cup {None}]
             /\ \A g \in Flows \ {f} : meta'[g] = meta[g] /\ draft'[g] = draft[g]
             /\ n = 3 => meta'[f] = m
             /\ n # 3 => meta' = meta
             /\ meta'[f] \in {None, m}
             /\ meta'[f] # None => f \in dir' /\ draft'[f] # None
  <2>1. /\ UNCHANGED <<ver, executed>> /\ dir' \subseteq Flows /\ dir \subseteq dir'
    BY <1>6 DEF CreateWrites, IInv, TypeOK
  <2>2. draft' = IF n >= 2 THEN [draft EXCEPT ![f] = d] ELSE draft
    BY <1>0, <1>6
  <2>3. meta' = IF n = 3 THEN [meta EXCEPT ![f] = m] ELSE meta
    BY <1>0, <1>6
  <2>4. n = 3 => f \in dir'
    BY <1>6 DEF CreateWrites
  <2> QED BY <1>2, <1>3, <1>4, <2>1, <2>2, <2>3, <2>4
<1>7. ASSUME NEW n \in 0..3, CreateWrites(f, a, b, n),
             \/ mem' = [mem EXCEPT ![f] = m] /\ n = 3 /\ mode' = mode
             \/ mem' = mem /\ n # 3 /\ mode' = mode
             \/ mem' = [g \in Flows |-> None] /\ mode' = "down"
      PROVE  /\ Store' /\ Executions'
             /\ mem' \in [Flows -> FlowMeta \cup {None}] /\ mode' \in {"up", "down", "broken"}
             /\ \A g \in Flows : meta[g] # None => meta'[g] # None /\ Later(meta'[g], meta[g])
  <2> USE <1>6, <1>7
  <2>1. \A g \in Flows \ {f} :
          /\ meta'[g] # None => g \in dir' /\ draft'[g] # None
          /\ mem'[g] # None => meta'[g] # None /\ Later(mem'[g], meta'[g])
          /\ mode' = "up" /\ meta'[g] # None => mem'[g] # None
          /\ mode' # "up" => mem'[g] = None
    BY <1>1, <1>3 DEF IInv, Store
  <2>2. /\ meta'[f] # None => f \in dir' /\ draft'[f] # None
        /\ mem'[f] # None => meta'[f] # None /\ Later(mem'[f], meta'[f])
        /\ mode' = "up" /\ meta'[f] # None => mem'[f] # None
        /\ mode' # "up" => mem'[f] = None
    BY <1>1, <1>2, <1>3, <1>4
  <2>3. \A g, h \in Flows :
          g # h /\ meta'[g] # None /\ meta'[h] # None => meta'[g].alias # meta'[h].alias
    <3>1. \A g \in Flows \ {f} : meta'[g] # None => meta'[g].alias # a
      BY <1>5
    <3>2. meta'[f] # None => meta'[f].alias = a
      BY <1>0
    <3>3. \A g, h \in Flows \ {f} :
            g # h /\ meta'[g] # None /\ meta'[h] # None => meta'[g].alias # meta'[h].alias
      BY DEF IInv, Store
    <3> QED BY <3>1, <3>2, <3>3
  <2>4. mode' # "broken"
    BY <1>1
  <2>5. Store'
    BY <2>1, <2>2, <2>3, <2>4 DEF Store
  <2>6. \A g \in Flows : meta[g] # None => meta'[g] # None /\ Later(meta'[g], meta[g])
    <3>1. \A g \in Flows : meta[g] # None => Later(meta[g], meta[g])
      BY <1>3, Constants DEF Later, FlowMeta, Revisions
    <3> QED BY <1>2, <3>1
  <2> QED BY <1>1, <1>3, <1>4, <2>5, <2>6 DEF IInv, Executions
<1>8. \A g \in Flows : mem[g] # None => mem[g].rev \in Nat /\ mem[g].rev >= mem[g].rev
  BY <1>3, Constants DEF FlowMeta, Revisions
<1>9. CASE /\ CreateWrites(f, a, b, 3) /\ mem' = [mem EXCEPT ![f] = meta'[f]]
           /\ accepted' = accepted \cup {[flow |-> f, rev |-> 1, body |-> b]}
           /\ UNCHANGED <<mode, client, published, retired>>
  <2>9. meta'[f] = m
    BY <1>6, <1>9
  <2>0. mem' = [mem EXCEPT ![f] = m]
    BY <1>9, <2>9
  <2>1. /\ Store' /\ Executions' /\ mem' \in [Flows -> FlowMeta \cup {None}]
        /\ \A g \in Flows : meta[g] # None => meta'[g] # None /\ Later(meta'[g], meta[g])
    <3>1. 3 \in 0..3 /\ mode' = mode /\ CreateWrites(f, a, b, 3)
      BY <1>9
    <3> QED BY <1>7, <2>0, <3>1
  <2>2. Callers'
    <3>1. \A g \in Flows : mem[g] # None =>
            mem'[g] = mem[g] /\ draft'[g] = draft[g]
      BY <1>2, <1>3, <1>6, <1>9, <2>0
    <3> QED BY <1>8, <1>9, <3>1, CallersKeep DEF IInv
  <2>3. TypeOK'
    BY <1>4, <1>6, <1>9, <2>1 DEF IInv, TypeOK
  <2>4. Answered'
    <3>1. meta'[f] # None /\ meta'[f].rev >= 1
      BY <1>0, <1>4, <2>9
    <3>2. \A x \in accepted : meta[x.flow] # None /\ meta[x.flow].rev >= x.rev
                               /\ meta'[x.flow] # None /\ meta'[x.flow].rev >= x.rev
      <4>1. \A x \in accepted : x.flow \in Flows /\ x.flow # f
        BY <1>2 DEF IInv, TypeOK, Answered
      <4> QED BY <1>6, <1>9, <4>1 DEF IInv, Answered
    <3>3. \A x \in published : meta[x.flow] # None /\ x.flow \in Flows /\ x.flow # f
      BY <1>2 DEF IInv, TypeOK, Answered
    <3>4. \A x \in retired : meta[x] # None /\ x \in Flows /\ x # f
      BY <1>2 DEF IInv, TypeOK, Answered
    <3> QED BY <1>6, <1>9, <3>1, <3>2, <3>3, <3>4 DEF IInv, Answered
  <2> QED BY <2>1, <2>2, <2>3, <2>4 DEF IInv
<1>10. CASE \E n \in 0..2 : CreateWrites(f, a, b, n) /\ Fails /\ UNCHANGED <<mem, client>>
  <2>1. PICK n \in 0..2 : CreateWrites(f, a, b, n) /\ Fails /\ UNCHANGED <<mem, client>>
    BY <1>10
  <2>2. UNCHANGED <<mode, answers>> /\ n \in 0..3 /\ n # 3
    BY <2>1 DEF Fails
  <2>3. /\ Store' /\ Executions' /\ mem' \in [Flows -> FlowMeta \cup {None}]
        /\ \A g \in Flows : meta[g] # None => meta'[g] # None /\ Later(meta'[g], meta[g])
    BY <1>7, <2>1, <2>2
  <2>4. Callers'
    <3>1. \A g \in Flows : mem[g] # None => mem'[g] = mem[g] /\ draft'[g] = draft[g]
      BY <1>2, <1>6, <2>1, <2>2
    <3> QED BY <1>8, <2>1, <3>1, CallersKeep DEF IInv
  <2>5. TypeOK'
    BY <1>6, <2>1, <2>2, <2>3 DEF IInv, TypeOK, answers
  <2> QED BY <2>2, <2>3, <2>4, <2>5, AnswersKeep DEF IInv
<1>11. CASE \E n \in 0..3 : CreateWrites(f, a, b, n) /\ Dies
  <2>1. PICK n \in 0..3 : CreateWrites(f, a, b, n) /\ Dies
    BY <1>11
  <2>2. /\ Store' /\ Executions' /\ mem' \in [Flows -> FlowMeta \cup {None}]
        /\ mode' \in {"up", "down", "broken"}
        /\ \A g \in Flows : meta[g] # None => meta'[g] # None /\ Later(meta'[g], meta[g])
    BY <1>7, <2>1, DeathIsTyped
  <2>3. Callers' /\ client' \in [Clients -> ClientRecord] /\ UNCHANGED answers
    BY <2>1, DeathIsTyped, NobodyCalls
  <2>4. TypeOK'
    BY <1>6, <2>1, <2>2, <2>3 DEF IInv, TypeOK, answers
  <2> QED BY <2>2, <2>3, <2>4, AnswersKeep DEF IInv
<1> QED BY <1>9, <1>10, <1>11 DEF Create

\* The steps that rewrite the meta of one flow: memory and disk are kept by RewriteKeeps.
LEMMA UpdateDraftKeeps ==
  ASSUME IInv, NEW f \in Flows, NEW expect \in Revisions, NEW b \in Bodies,
         UpdateDraft(f, expect, b)
  PROVE  IInv'
<1> DEFINE m == Revised(f, expect)
<1> DEFINE d == [rev |-> expect + 1, body |-> b]
<1>1. /\ mem[f] # None /\ mem[f].rev = expect /\ expect < MaxRevision /\ TypeOK
  BY DEF UpdateDraft, Registered, RevisionMatches, IInv
<1>2. /\ m \in FlowMeta /\ m.rev = expect + 1 /\ Later(m, mem[f]) /\ expect + 1 \in Revisions
  BY <1>1, RevisedIsAMeta
<1>3. d \in Draft /\ d # None /\ expect \in Nat
  BY <1>2, Constants DEF Draft, Revisions
<1>0. \A n \in 0..2 : DraftWrites(f, expect, b, n) =>
        /\ draft' = IF n >= 1 THEN [draft EXCEPT ![f] = d] ELSE draft
        /\ meta' = IF n = 2 THEN [meta EXCEPT ![f] = m] ELSE meta
        /\ UNCHANGED <<dir, ver, executed>>
  BY DEF DraftWrites
<1> HIDE DEF m, d
<1>4. /\ draft \in [Flows -> Draft \cup {None}] /\ mem \in [Flows -> FlowMeta \cup {None}]
      /\ \A g \in Flows : mem[g] # None => mem[g].rev \in Nat
  BY Constants DEF IInv, TypeOK, FlowMeta, Revisions
<1>5. ASSUME NEW n \in 0..2, DraftWrites(f, expect, b, n),
             \/ mode' = mode /\ mem' = [mem EXCEPT ![f] = m]
             \/ mode' = mode /\ mem' = mem /\ n = 0
             \/ mode' = "down" /\ mem' = [g \in Flows |-> None]
      PROVE  /\ Rewrites(f, m) /\ Store' /\ Executions'
             /\ \A g \in Flows : meta[g] # None => meta'[g] # None /\ Later(meta'[g], meta[g])
             /\ mem' \in [Flows -> FlowMeta \cup {None}]
             /\ meta' \in [Flows -> FlowMeta \cup {None}] /\ mode' \in {"up", "down", "broken"}
             /\ draft' \in [Flows -> Draft \cup {None}] /\ UNCHANGED <<dir, ver, executed>>
  <2>1. /\ meta' \in {meta, [meta EXCEPT ![f] = m]} /\ UNCHANGED <<dir, ver, executed>>
        /\ draft' \in {draft, [draft EXCEPT ![f] = d]}
        /\ n = 0 => meta' = meta
    BY <1>0, <1>5
  <2>2. /\ \A g \in Flows : draft[g] # None => draft'[g] # None
        /\ draft' \in [Flows -> Draft \cup {None}]
    BY <1>3, <1>4, <2>1
  <2>3. Rewrites(f, m)
    BY <1>1, <1>2, <1>5, <2>1, <2>2 DEF Rewrites
  <2>4. Executions'
    BY <2>1 DEF IInv, Executions
  <2> QED BY <2>1, <2>2, <2>3, <2>4, RewriteKeeps DEF IInv
<1>6. ASSUME NEW n \in 0..2, DraftWrites(f, expect, b, n), UNCHANGED client,
             \/ mem' = [mem EXCEPT ![f] = m]
             \/ mem' = mem /\ n = 0
      PROVE  Callers'
  <2>1. draft' = draft \/ (mem' = [mem EXCEPT ![f] = m] /\ draft' = [draft EXCEPT ![f] = d])
    BY <1>0, <1>6
  <2>2. m # None
    BY <1>2, Constants
  <2>3. \A g \in Flows : mem[g] # None =>
           /\ mem'[g] # None /\ mem'[g].rev \in Nat /\ mem'[g].rev >= mem[g].rev
           /\ mem'[g].rev = mem[g].rev => draft'[g] = draft[g]
    <3> SUFFICES ASSUME NEW g \in Flows, mem[g] # None
                 PROVE  /\ mem'[g] # None /\ mem'[g].rev \in Nat /\ mem'[g].rev >= mem[g].rev
                        /\ mem'[g].rev = mem[g].rev => draft'[g] = draft[g]
      OBVIOUS
    <3>1. CASE g = f
      BY <1>1, <1>2, <1>3, <1>4, <1>6, <2>1, <2>2, <3>1
    <3>2. CASE g # f
      BY <1>4, <1>6, <2>1, <3>2
    <3> QED BY <3>1, <3>2
  <2> QED BY <1>4, <1>6, <2>3, CallersKeep DEF IInv
<1>7. CASE /\ DraftWrites(f, expect, b, 2) /\ mem' = [mem EXCEPT ![f] = m]
           /\ accepted' = accepted \cup {[flow |-> f, rev |-> expect + 1, body |-> b]}
           /\ UNCHANGED <<mode, client, published, retired>>
  <2>0. 2 \in 0..2 /\ DraftWrites(f, expect, b, 2) /\ mode' = mode /\ UNCHANGED client
        /\ mem' = [mem EXCEPT ![f] = m]
    BY <1>7
  <2>1. /\ Store' /\ Executions' /\ mem' \in [Flows -> FlowMeta \cup {None}]
        /\ \A g \in Flows : meta[g] # None => meta'[g] # None /\ Later(meta'[g], meta[g])
        /\ meta' \in [Flows -> FlowMeta \cup {None}] /\ mode' \in {"up", "down", "broken"}
        /\ draft' \in [Flows -> Draft \cup {None}] /\ UNCHANGED <<dir, ver, executed>>
    BY <1>5, <2>0
  <2>2. Callers'
    BY <1>6, <2>0
  <2>3. TypeOK'
    BY <1>2, <1>7, <2>1 DEF IInv, TypeOK
  <2>4. Answered'
    <3>1. meta'[f] # None /\ meta'[f].rev = expect + 1
      <4>1. meta' = [meta EXCEPT ![f] = m]
        BY <1>0, <2>0
      <4> QED BY <1>2, <4>1, Constants DEF IInv, TypeOK
    <3> QED BY <1>3, <1>7, <2>1, <3>1, StillAnswered DEF IInv, Answered
  <2> QED BY <2>1, <2>2, <2>3, <2>4 DEF IInv
<1>8. ASSUME NEW n \in 0..2, DraftWrites(f, expect, b, n), Fails, UNCHANGED client,
             mem' = [mem EXCEPT ![f] = m] \/ (mem' = mem /\ n = 0)
      PROVE  IInv'
  <2>0. UNCHANGED <<mode, answers>>
    BY <1>8 DEF Fails
  <2>1. /\ Store' /\ Executions' /\ mem' \in [Flows -> FlowMeta \cup {None}]
        /\ \A g \in Flows : meta[g] # None => meta'[g] # None /\ Later(meta'[g], meta[g])
        /\ meta' \in [Flows -> FlowMeta \cup {None}] /\ mode' \in {"up", "down", "broken"}
        /\ draft' \in [Flows -> Draft \cup {None}] /\ UNCHANGED <<dir, ver, executed>>
    BY <1>5, <1>8, <2>0
  <2>2. Callers'
    BY <1>6, <1>8
  <2>3. TypeOK'
    BY <1>8, <2>0, <2>1 DEF IInv, TypeOK, answers
  <2> QED BY <2>0, <2>1, <2>2, <2>3, AnswersKeep DEF IInv
<1>9. ASSUME NEW n \in 0..2, DraftWrites(f, expect, b, n), Dies
      PROVE  IInv'
  <2>1. /\ Store' /\ Executions' /\ mem' \in [Flows -> FlowMeta \cup {None}]
        /\ \A g \in Flows : meta[g] # None => meta'[g] # None /\ Later(meta'[g], meta[g])
        /\ meta' \in [Flows -> FlowMeta \cup {None}] /\ mode' \in {"up", "down", "broken"}
        /\ draft' \in [Flows -> Draft \cup {None}] /\ UNCHANGED <<dir, ver, executed>>
    BY <1>5, <1>9, DeathIsTyped
  <2>2. Callers' /\ client' \in [Clients -> ClientRecord] /\ UNCHANGED answers
    BY <1>9, DeathIsTyped, NobodyCalls
  <2>3. TypeOK'
    BY <2>1, <2>2 DEF IInv, TypeOK, answers
  <2> QED BY <2>1, <2>2, <2>3, AnswersKeep DEF IInv
<1>10. 0 \in 0..2 /\ 1 \in 0..2
  OBVIOUS
<1> QED BY <1>7, <1>8, <1>9, <1>10 DEF UpdateDraft, m

LEMMA PublishKeeps ==
  ASSUME IInv, NEW c \in Clients, Publish(c)
  PROVE  IInv'
<1> DEFINE f == client[c].flow
           m == Released(f)
           v == mem[f].latest + 1
           file == [body |-> draft[f].body, sum |-> draft[f].body]
<1>1. client[c].pc = "validated" /\ f \in Flows /\ mem[f] # None /\ TypeOK
  BY DEF Publish, IInv, Callers, CallerIsPlaced
<1>2. /\ mem[f].status # "retired" /\ mem[f].latest < MaxVersion /\ ver[f][v] = None
  BY DEF Publish, VersionFree
<1>3. /\ m \in FlowMeta /\ m.latest = v /\ m.rev = mem[f].rev /\ Later(m, mem[f])
      /\ v \in Versions
  BY <1>1, <1>2, ReleasedIsAMeta
<1>4. draft[f] # None /\ draft[f].body \in Bodies /\ file \in FlowVersion /\ file # None
  <2>1. draft[f] # None
    BY <1>1 DEF IInv, Store
  <2>2. draft[f].body \in Bodies
    BY <1>1, <2>1 DEF TypeOK, Draft
  <2>3. file \in FlowVersion
    BY <2>2 DEF FlowVersion
  <2> QED BY <2>1, <2>2, <2>3, Constants
<1>0. \A n \in 0..2 : PublishWrites(f, n) =>
        /\ ver' = IF n >= 1 THEN [ver EXCEPT ![f] = [ver[f] EXCEPT ![v] = file]] ELSE ver
        /\ meta' = IF n = 2 THEN [meta EXCEPT ![f] = m] ELSE meta
        /\ UNCHANGED <<dir, draft, executed>>
  BY DEF PublishWrites
<1>a. /\ \/ /\ PublishWrites(f, 2) /\ mem' = [mem EXCEPT ![f] = m]
            /\ client' = [client EXCEPT ![c] = Idle]
            /\ published' = published \cup
                 {[flow |-> f, version |-> v, body |-> draft[f].body]}
            /\ UNCHANGED <<mode, accepted, retired>>
         \/ PublishWrites(f, 0) /\ Fails /\ UNCHANGED mem /\ client' = [client EXCEPT ![c] = Idle]
         \/ /\ PublishWrites(f, 1) /\ Fails /\ mem' = [mem EXCEPT ![f] = m]
            /\ client' = [client EXCEPT ![c] = Idle]
         \/ \E n \in 0..2 : PublishWrites(f, n) /\ Dies
  BY DEF Publish
<1> HIDE DEF m, f, v, file
<1>5. /\ ver \in [Flows -> [Versions -> FlowVersion \cup {None}]]
      /\ mem \in [Flows -> FlowMeta \cup {None}] /\ client \in [Clients -> ClientRecord]
      /\ \A g \in Flows : mem[g] # None => mem[g].rev \in Nat
  BY Constants DEF IInv, TypeOK, FlowMeta, Revisions
<1>6. ASSUME NEW n \in 0..2, PublishWrites(f, n),
             \/ mode' = mode /\ mem' = [mem EXCEPT ![f] = m]
             \/ mode' = mode /\ mem' = mem /\ n = 0
             \/ mode' = "down" /\ mem' = [g \in Flows |-> None]
      PROVE  /\ Store' /\ Executions'
             /\ \A g \in Flows : meta[g] # None => meta'[g] # None /\ Later(meta'[g], meta[g])
             /\ mem' \in [Flows -> FlowMeta \cup {None}]
             /\ meta' \in [Flows -> FlowMeta \cup {None}] /\ mode' \in {"up", "down", "broken"}
             /\ ver' \in [Flows -> [Versions -> FlowVersion \cup {None}]]
             /\ UNCHANGED <<dir, draft, executed>>
  <2>1. /\ meta' \in {meta, [meta EXCEPT ![f] = m]} /\ UNCHANGED <<dir, draft, executed>>
        /\ ver' \in {ver, [ver EXCEPT ![f] = [ver[f] EXCEPT ![v] = file]]}
        /\ n = 0 => meta' = meta
    BY <1>0, <1>6
  <2>2. ver' \in [Flows -> [Versions -> FlowVersion \cup {None}]]
    <3>1. ver \in [Flows -> [Versions -> FlowVersion \cup {None}]]
      BY <1>5
    <3>2. f \in Flows /\ v \in Versions /\ file \in FlowVersion
      BY <1>1, <1>3, <1>4
    <3>3. [ver[f] EXCEPT ![v] = file] \in [Versions -> FlowVersion \cup {None}]
      BY ONLY <3>1, <3>2
    <3> QED BY ONLY <2>1, <3>1, <3>2, <3>3
  <2>3. Rewrites(f, m)
    BY <1>1, <1>3, <1>6, <2>1 DEF Rewrites
  <2>4. Executions'
    <3>1. \A e \in executed : e.flow \in Flows /\ e.version \in Versions
      BY <1>1 DEF TypeOK
    <3>2. \A g \in Flows, w \in Versions : ver[g][w] # None => ver'[g][w] = ver[g][w]
      BY <1>1, <1>2, <1>3, <1>5, <2>1
    <3> QED BY <2>1, <3>1, <3>2 DEF IInv, Executions
  <2> QED BY <1>1, <2>1, <2>2, <2>3, <2>4, RewriteKeeps DEF IInv
<1>7. ASSUME UNCHANGED draft, client' = [client EXCEPT ![c] = Idle],
             mem' \in {mem, [mem EXCEPT ![f] = m]}
      PROVE  Callers' /\ client' \in [Clients -> ClientRecord]
  <2>1. \A g \in Flows : mem[g] # None =>
           /\ mem'[g] # None /\ mem'[g].rev \in Nat /\ mem'[g].rev >= mem[g].rev
    BY <1>1, <1>3, <1>5, <1>7, Constants
  <2>2. \A k \in Clients : client'[k] \in {client[k], Idle}
    BY <1>5, <1>7
  <2>3. client' \in [Clients -> ClientRecord]
    BY <1>5, <1>7, IdleIsACall
  <2> QED BY <1>1, <1>5, <1>7, <2>1, <2>2, <2>3, CallersKeep DEF IInv
<1>8. CASE /\ PublishWrites(f, 2) /\ mem' = [mem EXCEPT ![f] = m]
           /\ client' = [client EXCEPT ![c] = Idle]
           /\ published' = published \cup {[flow |-> f, version |-> v, body |-> draft[f].body]}
           /\ UNCHANGED <<mode, accepted, retired>>
  <2>0. 2 \in 0..2 /\ mode' = mode /\ mem' = [mem EXCEPT ![f] = m] /\ PublishWrites(f, 2)
    BY <1>8
  <2>1. /\ Store' /\ Executions' /\ mem' \in [Flows -> FlowMeta \cup {None}]
        /\ \A g \in Flows : meta[g] # None => meta'[g] # None /\ Later(meta'[g], meta[g])
        /\ meta' \in [Flows -> FlowMeta \cup {None}] /\ mode' \in {"up", "down", "broken"}
        /\ ver' \in [Flows -> [Versions -> FlowVersion \cup {None}]]
        /\ UNCHANGED <<dir, draft, executed>>
    BY <1>6, <2>0
  <2>2. Callers' /\ client' \in [Clients -> ClientRecord]
    BY <1>7, <1>8, <2>1
  <2>3. TypeOK'
    BY <1>1, <1>3, <1>4, <1>8, <2>1, <2>2 DEF TypeOK
  <2>4. Answered'
    <3>1. meta'[f] # None /\ meta'[f].latest = v
      <4>1. meta' = [meta EXCEPT ![f] = m]
        BY <1>0, <2>0
      <4> QED BY <1>1, <1>3, <4>1, Constants DEF TypeOK
    <3>2. v \in Nat
      BY <1>3, Constants DEF Versions
    <3> QED BY <1>8, <2>1, <3>1, <3>2, StillAnswered DEF IInv, Answered
  <2> QED BY <2>1, <2>2, <2>3, <2>4 DEF IInv
<1>9. ASSUME NEW n \in 0..2, PublishWrites(f, n), Fails, client' = [client EXCEPT ![c] = Idle],
             mem' = [mem EXCEPT ![f] = m] \/ (mem' = mem /\ n = 0)
      PROVE  IInv'
  <2>0. UNCHANGED <<mode, answers>>
    BY <1>9 DEF Fails
  <2>1. /\ Store' /\ Executions' /\ mem' \in [Flows -> FlowMeta \cup {None}]
        /\ \A g \in Flows : meta[g] # None => meta'[g] # None /\ Later(meta'[g], meta[g])
        /\ meta' \in [Flows -> FlowMeta \cup {None}] /\ mode' \in {"up", "down", "broken"}
        /\ ver' \in [Flows -> [Versions -> FlowVersion \cup {None}]]
        /\ UNCHANGED <<dir, draft, executed>>
    BY <1>6, <1>9, <2>0
  <2>2. Callers' /\ client' \in [Clients -> ClientRecord]
    BY <1>7, <1>9, <2>1
  <2>3. TypeOK'
    BY <1>1, <2>0, <2>1, <2>2 DEF TypeOK, answers
  <2> QED BY <2>0, <2>1, <2>2, <2>3, AnswersKeep DEF IInv
<1>10. ASSUME NEW n \in 0..2, PublishWrites(f, n), Dies
       PROVE  IInv'
  <2>1. /\ Store' /\ Executions' /\ mem' \in [Flows -> FlowMeta \cup {None}]
        /\ \A g \in Flows : meta[g] # None => meta'[g] # None /\ Later(meta'[g], meta[g])
        /\ meta' \in [Flows -> FlowMeta \cup {None}] /\ mode' \in {"up", "down", "broken"}
        /\ ver' \in [Flows -> [Versions -> FlowVersion \cup {None}]]
        /\ UNCHANGED <<dir, draft, executed>>
    BY <1>6, <1>10, DeathIsTyped
  <2>2. Callers' /\ client' \in [Clients -> ClientRecord] /\ UNCHANGED answers
    BY <1>10, DeathIsTyped, NobodyCalls
  <2>3. TypeOK'
    BY <1>1, <2>1, <2>2 DEF TypeOK, answers
  <2> QED BY <2>1, <2>2, <2>3, AnswersKeep DEF IInv
<1>11. 0 \in 0..2 /\ 1 \in 0..2
  OBVIOUS
<1> QED BY <1>a, <1>8, <1>9, <1>10, <1>11

LEMMA SetStatusKeeps ==
  ASSUME IInv, NEW f \in Flows, NEW status \in FlowStatus, SetStatus(f, status)
  PROVE  IInv'
<1> DEFINE m == [mem[f] EXCEPT !.status = status]
<1>1. mem[f] # None /\ Settable(f, status) /\ TypeOK
  BY DEF SetStatus, Registered, IInv
<1>2. m \in FlowMeta /\ m.rev = mem[f].rev /\ m.status = status /\ Later(m, mem[f])
  BY <1>1, SetIsAMeta
<1>0. \A n \in 0..1 : StatusWrites(f, status, n) =>
        /\ meta' \in {meta, [meta EXCEPT ![f] = m]}
        /\ n = 1 => meta' = [meta EXCEPT ![f] = m]
        /\ UNCHANGED <<dir, draft, ver, executed>>
  BY DEF StatusWrites
<1>a. \/ /\ StatusWrites(f, status, 1) /\ mem' = [mem EXCEPT ![f] = m]
         /\ retired' = IF status = "retired" THEN retired \cup {f} ELSE retired
         /\ UNCHANGED <<mode, client, accepted, published>>
      \/ StatusWrites(f, status, 0) /\ Fails /\ mem' = [mem EXCEPT ![f] = m] /\ UNCHANGED client
      \/ \E n \in 0..1 : StatusWrites(f, status, n) /\ Dies
  BY <1>1 DEF SetStatus, TypeOK
<1> HIDE DEF m
<1>5. /\ mem \in [Flows -> FlowMeta \cup {None}]
      /\ \A g \in Flows : mem[g] # None => mem[g].rev \in Nat
  BY Constants DEF IInv, TypeOK, FlowMeta, Revisions
<1>6. ASSUME NEW n \in 0..1, StatusWrites(f, status, n),
             \/ mode' = mode /\ mem' = [mem EXCEPT ![f] = m]
             \/ mode' = "down" /\ mem' = [g \in Flows |-> None]
      PROVE  /\ Store' /\ Executions'
             /\ \A g \in Flows : meta[g] # None => meta'[g] # None /\ Later(meta'[g], meta[g])
             /\ mem' \in [Flows -> FlowMeta \cup {None}]
             /\ meta' \in [Flows -> FlowMeta \cup {None}] /\ mode' \in {"up", "down", "broken"}
             /\ UNCHANGED <<dir, draft, ver, executed>>
  <2>1. /\ meta' \in {meta, [meta EXCEPT ![f] = m]} /\ UNCHANGED <<dir, draft, ver, executed>>
    BY <1>0, <1>6
  <2>3. Rewrites(f, m)
    BY <1>1, <1>2, <1>6, <2>1 DEF Rewrites
  <2>4. Executions'
    BY <2>1 DEF IInv, Executions
  <2> QED BY <1>1, <2>1, <2>3, <2>4, RewriteKeeps DEF IInv
<1>7. ASSUME UNCHANGED <<draft, client>>, mem' = [mem EXCEPT ![f] = m]
      PROVE  Callers' /\ client' \in [Clients -> ClientRecord]
  <2>1. \A g \in Flows : mem[g] # None =>
           /\ mem'[g] # None /\ mem'[g].rev \in Nat /\ mem'[g].rev >= mem[g].rev
    BY <1>1, <1>2, <1>5, <1>7, Constants
  <2>2. client' \in [Clients -> ClientRecord]
    BY <1>1, <1>7 DEF TypeOK
  <2> QED BY <1>1, <1>5, <1>7, <2>1, <2>2, CallersKeep DEF IInv
<1>8. CASE /\ StatusWrites(f, status, 1) /\ mem' = [mem EXCEPT ![f] = m]
           /\ retired' = IF status = "retired" THEN retired \cup {f} ELSE retired
           /\ UNCHANGED <<mode, client, accepted, published>>
  <2>0. 1 \in 0..1 /\ mode' = mode /\ StatusWrites(f, status, 1)
    BY <1>8
  <2>1. /\ Store' /\ Executions' /\ mem' \in [Flows -> FlowMeta \cup {None}]
        /\ \A g \in Flows : meta[g] # None => meta'[g] # None /\ Later(meta'[g], meta[g])
        /\ meta' \in [Flows -> FlowMeta \cup {None}] /\ mode' \in {"up", "down", "broken"}
        /\ UNCHANGED <<dir, draft, ver, executed>>
    BY <1>6, <1>8, <2>0
  <2>2. Callers' /\ client' \in [Clients -> ClientRecord]
    BY <1>7, <1>8, <2>1
  <2>3. TypeOK'
    BY <1>1, <1>8, <2>1, <2>2 DEF TypeOK
  <2>4. Answered'
    <3>1. meta'[f] # None /\ meta'[f].status = status
      <4>1. meta' = [meta EXCEPT ![f] = m]
        BY <1>0, <2>0
      <4> QED BY <1>1, <1>2, <4>1, Constants DEF TypeOK
    <3> QED BY <1>8, <2>1, <3>1, StillAnswered DEF IInv, Answered
  <2> QED BY <2>1, <2>2, <2>3, <2>4 DEF IInv
<1>9. CASE StatusWrites(f, status, 0) /\ Fails /\ mem' = [mem EXCEPT ![f] = m] /\ UNCHANGED client
  <2>0. 0 \in 0..1 /\ UNCHANGED <<mode, answers>> /\ StatusWrites(f, status, 0)
    BY <1>9 DEF Fails
  <2>1. /\ Store' /\ Executions' /\ mem' \in [Flows -> FlowMeta \cup {None}]
        /\ \A g \in Flows : meta[g] # None => meta'[g] # None /\ Later(meta'[g], meta[g])
        /\ meta' \in [Flows -> FlowMeta \cup {None}] /\ mode' \in {"up", "down", "broken"}
        /\ UNCHANGED <<dir, draft, ver, executed>>
    BY <1>6, <1>9, <2>0
  <2>2. Callers' /\ client' \in [Clients -> ClientRecord]
    BY <1>7, <1>9, <2>1
  <2>3. TypeOK'
    BY <1>1, <2>0, <2>1, <2>2 DEF TypeOK, answers
  <2> QED BY <2>0, <2>1, <2>2, <2>3, AnswersKeep DEF IInv
<1>10. ASSUME NEW n \in 0..1, StatusWrites(f, status, n), Dies
       PROVE  IInv'
  <2>1. /\ Store' /\ Executions' /\ mem' \in [Flows -> FlowMeta \cup {None}]
        /\ \A g \in Flows : meta[g] # None => meta'[g] # None /\ Later(meta'[g], meta[g])
        /\ meta' \in [Flows -> FlowMeta \cup {None}] /\ mode' \in {"up", "down", "broken"}
        /\ UNCHANGED <<dir, draft, ver, executed>>
    BY <1>6, <1>10, DeathIsTyped
  <2>2. Callers' /\ client' \in [Clients -> ClientRecord] /\ UNCHANGED answers
    BY <1>10, DeathIsTyped, NobodyCalls
  <2>3. TypeOK'
    BY <1>1, <2>1, <2>2 DEF TypeOK, answers
  <2> QED BY <2>1, <2>2, <2>3, AnswersKeep DEF IInv
<1> QED BY <1>a, <1>8, <1>9, <1>10

\* The steps that change no file and no meta.
LEMMA CallersMove ==
  ASSUME IInv, UNCHANGED <<mode, mem, files, answers>>, Callers',
         client' \in [Clients -> ClientRecord],
         \A e \in executed' : \/ e \in executed
                              \/ /\ e \in [flow : Flows, version : Versions, body : Bodies]
                                 /\ ver[e.flow][e.version] # None
                                 /\ ver[e.flow][e.version].sum = e.body
  PROVE  IInv'
<1>1. TypeOK'
  BY DEF IInv, TypeOK, files, answers
<1>2. Store' /\ Executions'
  BY DEF IInv, Store, Executions, files
<1>3. Answered'
  BY DEF IInv, Answered, files, answers
<1> QED BY <1>1, <1>2, <1>3 DEF IInv

LEMMA GetDraftKeeps ==
  ASSUME IInv, NEW c \in Clients, NEW f \in Flows, GetDraft(c, f)
  PROVE  IInv'
<1> DEFINE k == [pc |-> "validated", flow |-> f, n |-> draft[f].rev,
                 seen |-> IF draft[f].rev = mem[f].rev THEN draft[f].body ELSE None]
<1>1. /\ client' = [client EXCEPT ![c] = k] /\ UNCHANGED <<mode, mem, files, answers, executed>>
      /\ mem[f] # None
  BY DEF GetDraft, Registered
<1>2. draft[f] # None /\ draft[f].rev \in Revisions /\ draft[f].body \in Bodies
  <2>1. draft[f] # None
    BY <1>1 DEF IInv, Store
  <2> QED BY <2>1 DEF IInv, TypeOK, Draft
<1>3. k \in ClientRecord
  BY <1>2, Constants DEF ClientRecord, Revisions
<1>4. CallerIsPlaced(k)
  BY <1>1, <1>2, Constants DEF CallerIsPlaced, Revisions
<1>5. client' \in [Clients -> ClientRecord]
  BY <1>1, <1>3 DEF IInv, TypeOK
<1>6. Callers'
  <2> SUFFICES ASSUME NEW d \in Clients PROVE CallerIsPlaced(client[d])'
    BY DEF Callers
  <2>1. CallerIsPlaced(client'[d])
    BY <1>1, <1>4 DEF IInv, TypeOK, Callers
  <2> QED BY <1>1, <2>1 DEF CallerIsPlaced, files
<1> QED BY <1>1, <1>5, <1>6, CallersMove

LEMMA ResolveAliasKeeps ==
  ASSUME IInv, NEW c \in Clients, NEW a \in Aliases, NEW asked \in {0} \cup Versions,
         ResolveAlias(c, a, asked)
  PROVE  IInv'
<1>1. PICK f \in Owners(a) :
        /\ mem[f].status = "published" /\ mem[f].latest > 0
        /\ client' = [client EXCEPT ![c] =
             [Idle EXCEPT !.pc = "resolved", !.flow = f,
                          !.n = IF asked = 0 THEN mem[f].latest ELSE asked]]
  BY DEF ResolveAlias
<1>2. f \in Flows /\ mem[f] # None /\ mem[f] \in FlowMeta
  BY DEF Owners, Registered, IInv, TypeOK
<1>3. PICK n : n = IF asked = 0 THEN mem[f].latest ELSE asked
  OBVIOUS
<1>4. n \in Versions
  BY <1>1, <1>2, <1>3, Constants DEF FlowMeta, Versions
<1> DEFINE k == [Idle EXCEPT !.pc = "resolved", !.flow = f, !.n = n]
<1>5. client' = [client EXCEPT ![c] = k]
  BY <1>1, <1>3
<1>6. k \in ClientRecord
  <2>1. n \in 0..(MaxRevision + MaxVersion)
    BY <1>4, Constants DEF Versions
  <2>2. Idle \in ClientRecord
    BY Constants DEF Idle, ClientRecord
  <2> QED BY <2>1, <2>2, <1>2 DEF ClientRecord
<1>7. CallerIsPlaced(k)
  BY <1>2, <1>4 DEF CallerIsPlaced, Idle
<1>8. client' \in [Clients -> ClientRecord] /\ UNCHANGED <<mode, mem, files, answers, executed>>
  BY <1>5, <1>6 DEF IInv, TypeOK, ResolveAlias
<1>9. Callers'
  <2> SUFFICES ASSUME NEW d \in Clients PROVE CallerIsPlaced(client[d])'
    BY DEF Callers
  <2>1. CallerIsPlaced(client'[d])
    BY <1>5, <1>7 DEF IInv, TypeOK, Callers
  <2> QED BY <1>8, <2>1 DEF CallerIsPlaced, files
<1> QED BY <1>8, <1>9, CallersMove

\* A call that ends without changing a flow.
LEMMA CallEnds ==
  ASSUME IInv, NEW c \in Clients, client' = [client EXCEPT ![c] = Idle],
         UNCHANGED <<mode, mem, files, answers>>
  PROVE  Callers' /\ client' \in [Clients -> ClientRecord]
<1>1. client' \in [Clients -> ClientRecord] /\ \A d \in Clients : client'[d] \in {client[d], Idle}
  BY IdleIsACall DEF IInv, TypeOK
<1>2. \A g \in Flows : mem[g] # None => mem[g].rev \in Nat
  BY Constants DEF IInv, TypeOK, FlowMeta, Revisions
<1> QED BY <1>1, <1>2, CallersKeep DEF IInv, files

LEMMA PublishRefusedKeeps ==
  ASSUME IInv, NEW c \in Clients, PublishRefused(c)
  PROVE  IInv'
BY CallEnds, CallersMove DEF PublishRefused

LEMMA GetVersionKeeps ==
  ASSUME IInv, NEW c \in Clients, GetVersion(c)
  PROVE  IInv'
<1> DEFINE file == ver[client[c].flow][client[c].n]
           e == [flow |-> client[c].flow, version |-> client[c].n, body |-> file.body]
<1>1. /\ client' = [client EXCEPT ![c] = Idle] /\ UNCHANGED <<mode, mem, files, answers>>
      /\ executed' = IF file # None /\ Intact(file) THEN executed \cup {e} ELSE executed
      /\ client[c].flow \in Flows /\ client[c].n \in Versions
  BY DEF GetVersion, IInv, Callers, CallerIsPlaced
<1>2. ASSUME file # None, Intact(file)
      PROVE  /\ e \in [flow : Flows, version : Versions, body : Bodies]
             /\ ver[e.flow][e.version] # None /\ ver[e.flow][e.version].sum = e.body
  BY <1>1, <1>2 DEF IInv, TypeOK, FlowVersion, Intact
<1>3. Callers' /\ client' \in [Clients -> ClientRecord]
  BY <1>1, CallEnds
<1> HIDE DEF e
<1> QED BY <1>1, <1>2, <1>3, CallersMove

LEMMA ReopenKeeps ==
  ASSUME IInv, Reopen
  PROVE  IInv'
<1>1. mode = "down" /\ UNCHANGED <<files, client, answers, executed>>
  BY DEF Reopen
<1>2. \A f \in Flows : mem[f] = None
  BY <1>1 DEF IInv, Store
<1>3. \A c \in Clients : client[c].pc = "idle"
  BY <1>2 DEF IInv, Callers, CallerIsPlaced
<1>4. Callers'
  BY <1>1, <1>3 DEF Callers, CallerIsPlaced, IInv, TypeOK, ClientRecord
<1>5. Answered' /\ Executions'
  BY <1>1 DEF IInv, Answered, Executions, files, answers
<1>6. CASE Readable /\ mode' = "up" /\ mem' = meta
  <2>1. TypeOK'
    BY <1>1, <1>6 DEF IInv, TypeOK, files, answers
  <2>2. \A f \in Flows : meta[f] # None => Later(meta[f], meta[f])
    BY Constants DEF IInv, TypeOK, Later, FlowMeta, Revisions
  <2>3. Store'
    BY <1>1, <1>6, <2>2 DEF IInv, Store, files
  <2> QED BY <1>4, <1>5, <2>1, <2>3 DEF IInv
<1>7. CASE ~Readable /\ mode' = "broken" /\ UNCHANGED mem
  <2>1. TypeOK'
    BY <1>1, <1>7 DEF IInv, TypeOK, files, answers
  <2>2. \E f \in dir : meta[f] = None
    <3>1. dir \subseteq Flows
      BY DEF IInv, TypeOK
    <3> QED BY <1>7, <3>1 DEF IInv, Store, Readable
  <2>3. Store'
    BY <1>1, <1>2, <1>7, <2>2 DEF IInv, Store, files
  <2> QED BY <1>4, <1>5, <2>1, <2>3 DEF IInv
<1> QED BY <1>6, <1>7 DEF Reopen

LEMMA DamageKeeps ==
  ASSUME IInv, NEW f \in Flows, NEW v \in Versions, NEW b \in Bodies, Damage(f, v, b)
  PROVE  IInv'
<1> DEFINE file == [body |-> b, sum |-> ver[f][v].sum]
<1>1. /\ ver' = [ver EXCEPT ![f] = [ver[f] EXCEPT ![v] = file]] /\ ver[f][v] # None
      /\ UNCHANGED <<mode, mem, dir, draft, meta, client, answers, executed>>
  BY DEF Damage
<1>2. file \in FlowVersion /\ file # None /\ file.sum = ver[f][v].sum
  <2>1. file \in FlowVersion
    BY <1>1 DEF IInv, TypeOK, FlowVersion
  <2> QED BY <2>1, Constants
<1> HIDE DEF file
<1>3. /\ ver' \in [Flows -> [Versions -> FlowVersion \cup {None}]]
      /\ \A g \in Flows, w \in Versions :
           ver[g][w] # None => ver'[g][w] # None /\ ver'[g][w].sum = ver[g][w].sum
  BY <1>1, <1>2 DEF IInv, TypeOK
<1>4. TypeOK'
  BY <1>1, <1>3 DEF IInv, TypeOK, answers
<1>5. Executions'
  <2>1. \A e \in executed : e.flow \in Flows /\ e.version \in Versions
    BY DEF IInv, TypeOK
  <2> QED BY <1>1, <1>3, <2>1 DEF IInv, Executions
<1>6. Store' /\ Callers' /\ Answered'
  BY <1>1 DEF IInv, Store, Callers, CallerIsPlaced, Answered, answers
<1> QED BY <1>4, <1>5, <1>6 DEF IInv

LEMMA StepHolds == IInv /\ [Next]_vars => IInv'
<1> SUFFICES ASSUME IInv, [Next]_vars PROVE IInv'
  OBVIOUS
<1>1. CASE UNCHANGED vars
  <2>1. UNCHANGED <<mode, mem, files, answers>> /\ UNCHANGED <<client, executed>>
    BY <1>1 DEF vars
  <2>2. Callers' /\ client' \in [Clients -> ClientRecord]
    BY <2>1 DEF IInv, TypeOK, Callers, CallerIsPlaced, files
  <2> QED BY <2>1, <2>2, CallersMove
<1> QED
  BY <1>1, CreateKeeps, UpdateDraftKeeps, PublishKeeps, SetStatusKeeps, GetDraftKeeps,
     ResolveAliasKeeps, PublishRefusedKeeps, GetVersionKeeps, ReopenKeeps, DamageKeeps
  DEF Next, CallStep

-----------------------------------------------------------------------------
(* What was answered as published is what a run of that version executes: no *)
(* step takes a version file away or changes what its checksum says.         *)

Releases ==
  \A p \in published : ver[p.flow][p.version] # None /\ ver[p.flow][p.version].sum = p.body

\* A step leaves the answers as they are, or it is one that answers.
LEMMA PublishOutcome ==
  ASSUME IInv, NEW c \in Clients, Publish(c)
  PROVE  LET f == client[c].flow
             v == mem[f].latest + 1
             b == draft[f].body IN
         /\ client[c].pc = "validated" /\ f \in Flows /\ mem[f] # None
         /\ mem[f].status # "retired"
         /\ v \in Versions /\ b \in Bodies /\ ver[f][v] = None
         /\ UNCHANGED executed
         /\ ver' \in {ver, [ver EXCEPT ![f] = [ver[f] EXCEPT ![v] = [body |-> b, sum |-> b]]]}
         /\ \/ /\ client' = [client EXCEPT ![c] = Idle] /\ UNCHANGED mode
               /\ published' = published \cup {[flow |-> f, version |-> v, body |-> b]}
               /\ ver' = [ver EXCEPT ![f] = [ver[f] EXCEPT ![v] = [body |-> b, sum |-> b]]]
               /\ UNCHANGED <<accepted, retired>>
            \/ client' = [client EXCEPT ![c] = Idle] /\ UNCHANGED <<mode, answers>>
            \/ Dies
<1> DEFINE f == client[c].flow
           v == mem[f].latest + 1
           b == draft[f].body
<1>1. client[c].pc = "validated" /\ f \in Flows /\ mem[f] # None /\ mem[f].status # "retired"
  BY DEF Publish, IInv, Callers, CallerIsPlaced
<1>2. v \in Versions /\ ver[f][v] = None
  BY <1>1, ReleasedIsAMeta DEF Publish, VersionFree, IInv
<1>3. b \in Bodies
  BY <1>1 DEF IInv, Store, TypeOK, Draft
<1>4. \A n \in 0..2 : PublishWrites(f, n) =>
        /\ ver' = IF n >= 1
                  THEN [ver EXCEPT ![f] = [ver[f] EXCEPT ![v] = [body |-> b, sum |-> b]]] ELSE ver
        /\ UNCHANGED executed
  BY DEF PublishWrites
<1>5. \/ /\ PublishWrites(f, 2) /\ client' = [client EXCEPT ![c] = Idle]
         /\ published' = published \cup {[flow |-> f, version |-> v, body |-> b]}
         /\ UNCHANGED <<mode, accepted, retired>>
      \/ \E n \in 0..2 :
           PublishWrites(f, n) /\ (Dies \/ (client' = [client EXCEPT ![c] = Idle] /\ Fails))
  BY DEF Publish
<1> HIDE DEF f, v, b
<1>6. CASE /\ PublishWrites(f, 2) /\ client' = [client EXCEPT ![c] = Idle]
           /\ published' = published \cup {[flow |-> f, version |-> v, body |-> b]}
           /\ UNCHANGED <<mode, accepted, retired>>
  BY <1>1, <1>2, <1>3, <1>4, <1>6 DEF f, v, b
<1>7. ASSUME NEW n \in 0..2, PublishWrites(f, n),
             Dies \/ (client' = [client EXCEPT ![c] = Idle] /\ Fails)
      PROVE  /\ UNCHANGED executed
             /\ ver' \in {ver, [ver EXCEPT ![f] = [ver[f] EXCEPT ![v] = [body |-> b, sum |-> b]]]}
             /\ Dies \/ (client' = [client EXCEPT ![c] = Idle] /\ UNCHANGED <<mode, answers>>)
  BY <1>4, <1>7 DEF Fails
<1> QED BY <1>1, <1>2, <1>3, <1>5, <1>6, <1>7 DEF f, v, b

\* No step empties a version file or changes its checksum.
LEMMA FilesStay ==
  ASSUME IInv, [Next]_vars, NEW g \in Flows, NEW w \in Versions, ver[g][w] # None
  PROVE  ver'[g][w] # None /\ ver'[g][w].sum = ver[g][w].sum
<1>0. ver \in [Flows -> [Versions -> FlowVersion \cup {None}]]
  BY DEF IInv, TypeOK
<1>1. CASE UNCHANGED ver
  BY <1>1
<1>2. ASSUME NEW c \in Clients, Publish(c)
      PROVE  ver'[g][w] = ver[g][w]
  <2>1. PICK f \in Flows, v \in Versions :
          /\ ver[f][v] = None
          /\ \E file : ver' \in {ver, [ver EXCEPT ![f] = [ver[f] EXCEPT ![v] = file]]}
    BY <1>2, PublishOutcome
  <2>2. PICK file : ver' \in {ver, [ver EXCEPT ![f] = [ver[f] EXCEPT ![v] = file]]}
    BY <2>1
  <2> QED BY <1>0, <2>1, <2>2
<1>3. ASSUME NEW f \in Flows, NEW v \in Versions, NEW b \in Bodies, Damage(f, v, b)
      PROVE  ver'[g][w] # None /\ ver'[g][w].sum = ver[g][w].sum
  <2>1. ver' = [ver EXCEPT ![f] = [ver[f] EXCEPT ![v] = [body |-> b, sum |-> ver[f][v].sum]]]
        /\ ver[f][v] # None
    BY <1>3 DEF Damage
  <2>2. [body |-> b, sum |-> ver[f][v].sum] # None
    BY <1>0, <2>1, Constants DEF FlowVersion
  <2> QED BY <1>0, <2>1, <2>2
<1>4. /\ \A f \in Flows, a \in Aliases, b \in Bodies : Create(f, a, b) => ver' = ver
      /\ \A f \in Flows, expect \in Revisions, b \in Bodies : UpdateDraft(f, expect, b) => ver' = ver
  BY DEF Create, CreateWrites, UpdateDraft, DraftWrites
<1>5. /\ \A c \in Clients, f \in Flows : GetDraft(c, f) => ver' = ver
      /\ \A c \in Clients : PublishRefused(c) \/ GetVersion(c) => ver' = ver
      /\ \A c \in Clients, a \in Aliases, asked \in {0} \cup Versions :
           ResolveAlias(c, a, asked) => ver' = ver
      /\ Reopen => ver' = ver
  BY DEF GetDraft, PublishRefused, GetVersion, ResolveAlias, Reopen, files
<1>6. \A f \in Flows, status \in FlowStatus : SetStatus(f, status) => ver' = ver
  BY DEF SetStatus, StatusWrites
<1>7. CASE Next
  BY <1>1, <1>2, <1>3, <1>4, <1>5, <1>6, <1>7 DEF Next, CallStep
<1> QED BY <1>1, <1>7 DEF vars, files

\* Only Publish answers a version, and the file is there when it does.
LEMMA ReleasesKeep ==
  ASSUME IInv, Releases, [Next]_vars
  PROVE  Releases'
<1>1. \A p \in published : p.flow \in Flows /\ p.version \in Versions
  BY DEF IInv, TypeOK
<1>2. \A p \in published : ver'[p.flow][p.version] # None /\ ver'[p.flow][p.version].sum = p.body
  BY <1>1, FilesStay DEF Releases
<1>3. ASSUME NEW c \in Clients, Publish(c), ~UNCHANGED published
      PROVE  Releases'
  <2> DEFINE f == client[c].flow
             v == mem[f].latest + 1
             b == draft[f].body
             file == [body |-> b, sum |-> b]
  <2>1. /\ f \in Flows /\ v \in Versions /\ b \in Bodies
        /\ published' = published \cup {[flow |-> f, version |-> v, body |-> b]}
        /\ ver' = [ver EXCEPT ![f] = [ver[f] EXCEPT ![v] = file]]
    <3>1. Dies \/ UNCHANGED answers => UNCHANGED published
      BY DEF Dies, answers
    <3>2. /\ f \in Flows /\ v \in Versions /\ b \in Bodies
          /\ \/ /\ published' = published \cup {[flow |-> f, version |-> v, body |-> b]}
                /\ ver' = [ver EXCEPT ![f] = [ver[f] EXCEPT ![v] = file]]
             \/ UNCHANGED answers
             \/ Dies
      BY <1>3, PublishOutcome
    <3> HIDE DEF f, v, b, file
    <3> QED BY <1>3, <3>1, <3>2
  <2>2. file # None /\ file.sum = b
    BY <2>1, Constants DEF FlowVersion
  <2>3. ver'[f][v] = file
    BY <2>1 DEF IInv, TypeOK
  <2> HIDE DEF f, v, b, file
  <2> QED BY <1>2, <2>1, <2>2, <2>3 DEF Releases
<1>4. CASE UNCHANGED published
  BY <1>2, <1>4 DEF Releases
<1>5. CASE Next
  BY <1>3, <1>4, <1>5, DeathIsTyped
     DEF Next, CallStep, Create, UpdateDraft, GetDraft, PublishRefused, SetStatus,
         ResolveAlias, GetVersion, Reopen, Damage, Fails, answers
<1> QED BY <1>4, <1>5 DEF vars, answers

\* No step takes a draft away.
LEMMA DraftsStay ==
  ASSUME IInv, [Next]_vars, NEW g \in Flows, draft[g] # None
  PROVE  draft'[g] # None
<1>0. draft \in [Flows -> Draft \cup {None}]
  BY DEF IInv, TypeOK
<1>1. CASE UNCHANGED draft
  BY <1>1
<1>2. ASSUME NEW f \in Flows, NEW a \in Aliases, NEW b \in Bodies, Create(f, a, b)
      PROVE  draft'[g] # None
  <2>1. [rev |-> 1, body |-> b] # None
    BY Constants DEF Draft, Revisions
  <2>2. draft' \in {draft, [draft EXCEPT ![f] = [rev |-> 1, body |-> b]]}
    BY <1>2 DEF Create, CreateWrites
  <2> QED BY <1>0, <2>1, <2>2
<1>3. ASSUME NEW f \in Flows, NEW expect \in Revisions, NEW b \in Bodies, UpdateDraft(f, expect, b)
      PROVE  draft'[g] # None
  <2>1. [rev |-> expect + 1, body |-> b] # None
    <3>1. expect + 1 \in Revisions
      BY <1>3, Constants DEF UpdateDraft, Revisions
    <3> QED BY <3>1, Constants DEF Draft
  <2>2. draft' \in {draft, [draft EXCEPT ![f] = [rev |-> expect + 1, body |-> b]]}
    BY <1>3 DEF UpdateDraft, DraftWrites
  <2> QED BY <1>0, <2>1, <2>2
<1>4. CASE Next
  <2>1. ASSUME NEW c \in Clients, Publish(c)
        PROVE  UNCHANGED draft
    BY <2>1 DEF Publish, PublishWrites
  <2>2. ASSUME NEW f \in Flows, NEW status \in FlowStatus, SetStatus(f, status)
        PROVE  UNCHANGED draft
    BY <2>2 DEF SetStatus, StatusWrites
  <2> QED BY <1>1, <1>2, <1>3, <1>4, <2>1, <2>2
      DEF Next, CallStep, GetDraft, PublishRefused, GetVersion, ResolveAlias, Reopen, Damage, files
<1> QED BY <1>1, <1>4 DEF vars, files

-----------------------------------------------------------------------------
(***************************************************************************)
(* FlowReload: the store before and the newest                             *)
(***************************************************************************)

\* The memory and the calls of the store before; a slot holds one call.
LateInv ==
  /\ old \in [Flows -> FlowMeta \cup {None}]
  /\ late \in [Clients -> ClientRecord]
  /\ \A f \in Flows : old[f] # None => draft[f] # None
  /\ \A c \in Clients :
       /\ late[c].pc # "idle" => late[c].flow \in Flows /\ old[late[c].flow] # None
       /\ late[c].pc = "resolved" => late[c].n \in Versions
       /\ client[c].pc = "idle" \/ late[c].pc = "idle"
  /\ mode = "down" => \A f \in Flows : old[f] = None

\* As long as the store before is not used where only the newest may be, everything
\* that holds of one store holds of the newest.
ReloadIInv ==
  /\ crossed \in BOOLEAN
  /\ ~crossed => IInv /\ Releases /\ LateInv

LEMMA ReloadInitHolds == ReloadInit => ReloadIInv
<1> SUFFICES ASSUME ReloadInit PROVE ReloadIInv
  OBVIOUS
<1>1. IInv
  BY InitHolds DEF ReloadInit
<1>2. Releases
  BY DEF ReloadInit, Init, Releases
<1>3. LateInv
  BY IdleIsACall DEF ReloadInit, Init, NoMetas, NoCalls, LateInv
<1> QED BY <1>1, <1>2, <1>3 DEF ReloadInit, ReloadIInv

\* What the store before makes of a meta of its memory.
LEMMA OldRevised ==
  ASSUME NEW m \in FlowMeta, m.rev < MaxRevision
  PROVE  [m EXCEPT !.rev = m.rev + 1] \in FlowMeta
BY Constants DEF FlowMeta, Revisions

LEMMA OldReleased ==
  ASSUME NEW m \in FlowMeta, m.latest < MaxVersion
  PROVE  [m EXCEPT !.latest = @ + 1, !.status = "published"] \in FlowMeta
<1> DEFINE t == [m EXCEPT !.latest = @ + 1]
<1>1. t \in FlowMeta
  BY Constants DEF FlowMeta
<1>2. [m EXCEPT !.latest = @ + 1, !.status = "published"] = [t EXCEPT !.status = "published"]
  OBVIOUS
<1> HIDE DEF t
<1> QED BY <1>1, <1>2 DEF FlowMeta, FlowStatus

-----------------------------------------------------------------------------
(* What a step of the store before does when it does not cross *)

\* The process dies.
Gone ==
  /\ mode' = "down" /\ old' = NoMetas /\ late' = NoCalls
  /\ UNCHANGED executed

\* The memory of the store before changes; nothing is written, answered or executed,
\* and no call is bound.
Quiet ==
  /\ mode' = mode
  /\ old' \in [Flows -> FlowMeta \cup {None}]
  /\ \A f \in Flows : old[f] = None <=> old'[f] = None
  /\ UNCHANGED executed
  /\ late' \in [Clients -> ClientRecord]
  /\ \A c \in Clients :
       \/ late'[c] = late[c]
       \/ late[c].pc = "validated" /\ late'[c].pc = "idle"
       \/ /\ late[c].pc = "idle" /\ late'[c].pc = "validated"
          /\ late'[c].flow \in Flows /\ old[late'[c].flow] # None

\* A call is bound to a version, as the newest store would bind it.
Binds(c, f, n) ==
  /\ late[c].pc = "idle" /\ client'[c].pc = "idle"
  /\ mem[f] # None /\ mem[f].status = "published" /\ old[f] = mem[f]
  /\ late' = [late EXCEPT ![c] = [Idle EXCEPT !.pc = "resolved", !.flow = f, !.n = n]]
  /\ UNCHANGED <<mode, old, executed>>

LateOutcome ==
  \/ Gone
  \/ Quiet
  \/ \E c \in Clients, f \in Flows, n \in Versions : Binds(c, f, n)
  \/ \E c \in Clients : Old!GetVersion(c)

LEMMA OldDeath == ASSUME Old!Dies, UNCHANGED executed PROVE Gone
BY DEF Old!Dies, Gone, NoMetas, NoCalls, Idle, Old!Idle

\* The memory of a flow becomes m and no call moves.
LEMMA OldRewrites ==
  ASSUME LateInv, NEW f \in Flows, old[f] # None, NEW m \in FlowMeta,
         mode' = mode, UNCHANGED executed,
         old' \in {old, [old EXCEPT ![f] = m]},
         \/ late' = late
         \/ \E c \in Clients : late[c].pc = "validated" /\ late' = [late EXCEPT ![c] = Idle]
  PROVE  Quiet
<1>1. m # None
  BY Constants
<1>2. /\ old' \in [Flows -> FlowMeta \cup {None}]
      /\ \A g \in Flows : old[g] = None <=> old'[g] = None
  BY <1>1 DEF LateInv
<1>3. /\ late' \in [Clients -> ClientRecord]
      /\ \A c \in Clients : late'[c] = late[c] \/ (late[c].pc = "validated" /\ late'[c].pc = "idle")
  BY IdleIsACall DEF LateInv
<1> QED BY <1>2, <1>3 DEF Quiet

LEMMA LateCreate ==
  ASSUME LateInv, NEW f \in Flows, NEW a \in Aliases, NEW b \in Bodies, Old!Create(f, a, b),
         UNCHANGED files
  PROVE  LateOutcome
<1>1. \A n \in 0..3 : Old!CreateWrites(f, a, b, n) => n = 0 /\ UNCHANGED executed
  BY DEF Old!Create, Old!CreateWrites, files
<1>2. CASE \E n \in 0..3 : Old!CreateWrites(f, a, b, n) /\ Old!Dies
  BY <1>1, <1>2, OldDeath DEF LateOutcome
<1>3. CASE \E n \in 0..2 : Old!CreateWrites(f, a, b, n) /\ Old!Fails /\ UNCHANGED <<old, late>>
  <2>1. Quiet
    BY <1>1, <1>3 DEF Old!Fails, Quiet, LateInv
  <2> QED BY <2>1 DEF LateOutcome
<1> QED BY <1>1, <1>2, <1>3 DEF Old!Create

LEMMA LateUpdateDraft ==
  ASSUME LateInv, NEW f \in Flows, NEW expect \in Old!Revisions, NEW b \in Bodies,
         Old!UpdateDraft(f, expect, b)
  PROVE  LateOutcome
<1> DEFINE m == [old[f] EXCEPT !.rev = old[f].rev + 1]
<1>1. /\ old[f] # None /\ old[f].rev = expect /\ expect < MaxRevision
      /\ \A n \in 0..2 : Old!DraftWrites(f, expect, b, n) => UNCHANGED executed
      /\ Old!Revised(f, expect) = m
  BY DEF Old!UpdateDraft, Old!Registered, Old!RevisionMatches, Old!DraftWrites, Old!Revised
<1>2. m \in FlowMeta
  BY <1>1, OldRevised DEF LateInv
<1>3. \/ \E n \in 0..2 : Old!DraftWrites(f, expect, b, n) /\ Old!Dies
      \/ /\ UNCHANGED <<mode, late, executed>>
         /\ old' \in {old, [old EXCEPT ![f] = m]}
  BY <1>1 DEF Old!UpdateDraft, Old!Fails
<1> HIDE DEF m
<1>4. CASE UNCHANGED <<mode, late, executed>> /\ old' \in {old, [old EXCEPT ![f] = m]}
  BY <1>1, <1>2, <1>4, OldRewrites DEF LateOutcome
<1> QED BY <1>1, <1>3, <1>4, OldDeath DEF LateOutcome

LEMMA LatePublish ==
  ASSUME LateInv, NEW c \in Clients, Old!Publish(c)
  PROVE  LateOutcome
<1> DEFINE f == late[c].flow
           m == [old[f] EXCEPT !.latest = @ + 1, !.status = "published"]
<1>1. /\ late[c].pc = "validated" /\ f \in Flows /\ old[f] # None /\ old[f].latest < MaxVersion
      /\ \A n \in 0..2 : Old!PublishWrites(f, n) => UNCHANGED executed
      /\ Old!Released(f) = m
  BY DEF Old!Publish, Old!PublishWrites, Old!Released, LateInv
<1>2. m \in FlowMeta
  BY <1>1, OldReleased DEF LateInv
<1>3. \/ \E n \in 0..2 : Old!PublishWrites(f, n) /\ Old!Dies
      \/ /\ UNCHANGED <<mode, executed>>
         /\ old' \in {old, [old EXCEPT ![f] = m]}
         /\ late' = [late EXCEPT ![c] = Idle]
  <2>1. Old!Idle = Idle
    BY DEF Idle, Old!Idle
  <2> QED BY <1>1, <2>1 DEF Old!Publish, Old!Fails
<1> HIDE DEF f, m
<1>4. CASE /\ UNCHANGED <<mode, executed>> /\ old' \in {old, [old EXCEPT ![f] = m]}
           /\ late' = [late EXCEPT ![c] = Idle]
  BY <1>1, <1>2, <1>4, OldRewrites DEF LateOutcome
<1> QED BY <1>1, <1>3, <1>4, OldDeath DEF LateOutcome

LEMMA LateSetStatus ==
  ASSUME LateInv, NEW f \in Flows, NEW status \in Old!FlowStatus, Old!SetStatus(f, status)
  PROVE  LateOutcome
<1> DEFINE m == [old[f] EXCEPT !.status = status]
<1>1. /\ old[f] # None
      /\ \A n \in 0..1 : Old!StatusWrites(f, status, n) => UNCHANGED executed
  BY DEF Old!SetStatus, Old!Registered, Old!StatusWrites
<1>2. m \in FlowMeta
  BY <1>1 DEF LateInv, FlowMeta, FlowStatus, Old!FlowStatus
<1>3. \/ \E n \in 0..1 : Old!StatusWrites(f, status, n) /\ Old!Dies
      \/ UNCHANGED <<mode, late, executed>> /\ old' \in {old, [old EXCEPT ![f] = m]}
  <2>1. [old EXCEPT ![f].status = status] = [old EXCEPT ![f] = m]
    BY DEF LateInv
  <2> QED BY <1>1, <2>1 DEF Old!SetStatus, Old!Fails
<1> HIDE DEF m
<1>4. CASE UNCHANGED <<mode, late, executed>> /\ old' \in {old, [old EXCEPT ![f] = m]}
  BY <1>1, <1>2, <1>4, OldRewrites DEF LateOutcome
<1> QED BY <1>1, <1>3, <1>4, OldDeath DEF LateOutcome

LEMMA LateGetDraft ==
  ASSUME IInv, LateInv, NEW c \in Clients, NEW f \in Flows, Old!GetDraft(c, f)
  PROVE  LateOutcome
<1> DEFINE k == [pc |-> "validated", flow |-> f, n |-> draft[f].rev,
                 seen |-> IF draft[f].rev = old[f].rev THEN draft[f].body ELSE None]
<1>1. /\ late' = [late EXCEPT ![c] = k] /\ UNCHANGED <<mode, old, executed>>
      /\ old[f] # None /\ late[c].pc = "idle"
  BY DEF Old!GetDraft, Old!Registered
<1>2. draft[f] # None /\ draft[f].rev \in Revisions /\ draft[f].body \in Bodies
  BY <1>1 DEF LateInv, IInv, TypeOK, Draft
<1>3. k \in ClientRecord /\ k.pc = "validated" /\ k.flow = f
  BY <1>2, Constants DEF ClientRecord, Revisions
<1> HIDE DEF k
<1>4. Quiet
  BY <1>1, <1>3 DEF Quiet, LateInv
<1> QED BY <1>4 DEF LateOutcome

LEMMA LatePublishRefused ==
  ASSUME LateInv, NEW c \in Clients, Old!PublishRefused(c)
  PROVE  LateOutcome
<1>1. /\ late' = [late EXCEPT ![c] = Idle] /\ UNCHANGED <<mode, old, executed>>
      /\ late[c].pc = "validated"
  BY DEF Old!PublishRefused, Idle, Old!Idle
<1>2. Quiet
  BY <1>1, IdleIsACall DEF Quiet, LateInv
<1> QED BY <1>2 DEF LateOutcome

LEMMA LateResolveAlias ==
  ASSUME LateInv, OneCallEach, ~ \E c \in Clients : BoundByOld(c),
         NEW c \in Clients, NEW a \in Aliases, NEW asked \in {0} \cup Old!Versions,
         Old!ResolveAlias(c, a, asked)
  PROVE  LateOutcome
<1>0. PICK f \in Flows :
        /\ old[f] # None /\ old[f].status = "published" /\ old[f].latest > 0
        /\ late' = [late EXCEPT ![c] =
             [Old!Idle EXCEPT !.pc = "resolved", !.flow = f,
                              !.n = IF asked = 0 THEN old[f].latest ELSE asked]]
  BY DEF Old!ResolveAlias, Old!Owners, Old!Registered
<1>n. PICK n : n = IF asked = 0 THEN old[f].latest ELSE asked
  OBVIOUS
<1> DEFINE k == [Idle EXCEPT !.pc = "resolved", !.flow = f, !.n = n]
<1>1. late[c].pc = "idle" /\ UNCHANGED <<mode, old, executed>> /\ late' = [late EXCEPT ![c] = k]
  BY <1>0, <1>n DEF Old!ResolveAlias, Idle, Old!Idle
<1>2. n \in Versions
  <2>1. old[f] \in FlowMeta
    BY <1>0 DEF LateInv
  <2> QED BY <1>0, <1>n, <2>1, Constants DEF FlowMeta, Versions, Old!Versions
<1>3. k.pc = "resolved" /\ k.flow = f
  BY DEF Idle
<1> HIDE DEF k
<1>4. late'[c] = k
  BY <1>1 DEF LateInv
<1>5. old[f] = mem[f]
  BY <1>1, <1>3, <1>4 DEF BoundByOld
<1>6. client'[c].pc = "idle"
  BY <1>3, <1>4 DEF OneCallEach
<1>7. Binds(c, f, n)
  BY <1>0, <1>1, <1>5, <1>6 DEF Binds, k
<1> QED BY <1>2, <1>7 DEF LateOutcome

LEMMA LateStepOutcome ==
  ASSUME IInv, LateInv, LateStep, ~crossed'
  PROVE  LateOutcome /\ UNCHANGED <<files, answers>>
<1>1. UNCHANGED files /\ UNCHANGED answers /\ (~ \E c \in Clients : BoundByOld(c)) /\ OneCallEach
  BY DEF LateStep, Crosses
<1>2. Old!CallStep
  BY DEF LateStep
<1> QED
  BY <1>1, <1>2, LateCreate, LateUpdateDraft, LatePublish, LateSetStatus, LateGetDraft,
     LatePublishRefused, LateResolveAlias DEF Old!CallStep, LateOutcome

\* A process that is down has no store before.
LEMMA LateIsUp ==
  ASSUME LateInv, LateStep
  PROVE  mode # "down"
<1> SUFFICES ASSUME mode = "down" PROVE FALSE
  OBVIOUS
<1>1. /\ \A f \in Flows : old[f] = None
      /\ \A c \in Clients : late[c].pc = "idle"
  BY DEF LateInv
<1>2. \A f \in Flows : f \notin Old!Registered
  BY <1>1 DEF Old!Registered
<1>3. Old!CallStep
  BY DEF LateStep
<1>4. ASSUME NEW c \in Clients
      PROVE  ~Old!Publish(c) /\ ~Old!PublishRefused(c) /\ ~Old!GetVersion(c)
  BY <1>1 DEF Old!Publish, Old!PublishRefused, Old!GetVersion
<1>5. ASSUME NEW f \in Flows
      PROVE  /\ \A a \in Aliases, b \in Bodies : ~Old!Create(f, a, b)
             /\ \A expect \in Old!Revisions, b \in Bodies : ~Old!UpdateDraft(f, expect, b)
             /\ \A c \in Clients : ~Old!GetDraft(c, f)
             /\ \A status \in Old!FlowStatus : ~Old!SetStatus(f, status)
  BY <1>2 DEF Old!Create, Old!UpdateDraft, Old!GetDraft, Old!SetStatus
<1>6. ASSUME NEW c \in Clients, NEW a \in Aliases, NEW asked \in {0} \cup Old!Versions
      PROVE  ~Old!ResolveAlias(c, a, asked)
  <2>1. Old!Owners(a) = {}
    BY <1>2 DEF Old!Owners, Old!Registered
  <2> QED BY <2>1 DEF Old!ResolveAlias
<1> QED BY <1>3, <1>4, <1>5, <1>6 DEF Old!CallStep

-----------------------------------------------------------------------------
(* The steps of the two stores *)

\* The process dies, whichever store the step is on.
LEMMA DeathKeeps ==
  ASSUME IInv, Releases, LateInv, mode' = "down", mem' = NoMetas, client' = NoCalls,
         old' = NoMetas, late' = NoCalls, UNCHANGED <<files, answers, executed>>
  PROVE  IInv' /\ Releases' /\ LateInv'
<1>1. TypeOK'
  BY NobodyCalls DEF IInv, TypeOK, NoMetas, NoCalls, files, answers
<1>2. Store' /\ Answered' /\ Executions' /\ Releases'
  BY DEF IInv, Store, Answered, Executions, Releases, NoMetas, files, answers
<1>3. Callers'
  BY NobodyCalls DEF NoCalls
<1>4. LateInv'
  BY IdleIsACall DEF LateInv, NoMetas, NoCalls
<1> QED BY <1>1, <1>2, <1>3, <1>4 DEF IInv

LEMMA LateStepKeeps ==
  ASSUME IInv, Releases, LateInv, LateStep, ~crossed'
  PROVE  IInv' /\ Releases' /\ LateInv'
<1>1. LateOutcome /\ UNCHANGED <<files, answers>> /\ mode # "down" /\ OneCallEach
      /\ IF mode' = "down" THEN mem' = NoMetas /\ client' = NoCalls ELSE UNCHANGED <<mem, client>>
  BY LateStepOutcome, LateIsUp DEF LateStep
<1>2. CASE Gone
  BY <1>1, <1>2, DeathKeeps DEF Gone
<1>3. ASSUME UNCHANGED <<mode, mem, client>>,
             \A e \in executed' : \/ e \in executed
                                  \/ /\ e \in [flow : Flows, version : Versions, body : Bodies]
                                     /\ ver[e.flow][e.version] # None
                                     /\ ver[e.flow][e.version].sum = e.body
      PROVE  IInv' /\ Releases'
  <2>1. Callers' /\ client' \in [Clients -> ClientRecord]
    BY <1>1, <1>3 DEF IInv, TypeOK, Callers, CallerIsPlaced, files
  <2>2. Releases'
    BY <1>1 DEF Releases, files, answers
  <2> QED BY <1>1, <1>3, <2>1, <2>2, CallersMove
<1>4. CASE Quiet
  <2>1. UNCHANGED <<mode, mem, client, executed>>
    BY <1>1, <1>4 DEF Quiet
  <2>2. \A c \in Clients :
          /\ late'[c].pc # "idle" => late'[c].flow \in Flows /\ old'[late'[c].flow] # None
          /\ late'[c].pc = "resolved" => late'[c].n \in Versions
    BY <1>4 DEF Quiet, LateInv
  <2>3. LateInv'
    BY <1>1, <1>4, <2>1, <2>2 DEF Quiet, LateInv, OneCallEach, files
  <2> QED BY <1>3, <2>1, <2>3
<1>5. ASSUME NEW c \in Clients, NEW f \in Flows, NEW n \in Versions, Binds(c, f, n)
      PROVE  IInv' /\ Releases' /\ LateInv'
  <2> DEFINE k == [Idle EXCEPT !.pc = "resolved", !.flow = f, !.n = n]
  <2>1. UNCHANGED <<mode, mem, client, old, executed>> /\ late' = [late EXCEPT ![c] = k]
    BY <1>1, <1>5 DEF Binds
  <2>2. k \in ClientRecord /\ k.pc = "resolved" /\ k.flow = f /\ k.n = n
    <3>1. n \in 0..(MaxRevision + MaxVersion)
      BY Constants DEF Versions
    <3>2. Idle \in ClientRecord
      BY IdleIsACall
    <3> QED BY <3>1, <3>2 DEF ClientRecord, Idle
  <2> HIDE DEF k
  <2>3. old[f] # None
    BY <1>5 DEF Binds
  <2>4. LateInv'
    BY <1>1, <2>1, <2>2, <2>3 DEF LateInv, OneCallEach, files
  <2> QED BY <1>3, <2>1, <2>4
<1>6. ASSUME NEW c \in Clients, Old!GetVersion(c)
      PROVE  IInv' /\ Releases' /\ LateInv'
  <2> DEFINE file == ver[late[c].flow][late[c].n]
             e == [flow |-> late[c].flow, version |-> late[c].n, body |-> file.body]
  <2>1. /\ late[c].pc = "resolved" /\ late' = [late EXCEPT ![c] = Idle] /\ UNCHANGED <<mode, old>>
        /\ executed' = IF file # None /\ Intact(file) THEN executed \cup {e} ELSE executed
        /\ late[c].flow \in Flows /\ late[c].n \in Versions
    BY <1>6 DEF Old!GetVersion, Idle, Old!Idle, Intact, Old!Intact, LateInv
  <2>2. ASSUME file # None, Intact(file)
        PROVE  /\ e \in [flow : Flows, version : Versions, body : Bodies]
               /\ ver[e.flow][e.version] # None /\ ver[e.flow][e.version].sum = e.body
    BY <2>1, <2>2 DEF IInv, TypeOK, FlowVersion, Intact
  <2> HIDE DEF e
  <2>3. UNCHANGED <<mem, client>>
    BY <1>1, <2>1
  <2>4. LateInv'
    BY <1>1, <2>1, <2>3, IdleIsACall DEF LateInv, files
  <2> QED BY <1>3, <2>1, <2>2, <2>3, <2>4
<1> QED BY <1>1, <1>2, <1>4, <1>5, <1>6 DEF LateOutcome

LEMMA NewestStepKeeps ==
  ASSUME IInv, Releases, LateInv, NewestStep
  PROVE  IInv' /\ Releases' /\ LateInv'
<1>1. Next /\ OneCallEach
      /\ IF mode' = "down" THEN old' = NoMetas /\ late' = NoCalls ELSE UNCHANGED <<old, late>>
  BY DEF NewestStep
<1>2. IInv' /\ Releases'
  BY <1>1, StepHolds, ReleasesKeep
<1>3. \A f \in Flows : draft[f] # None => draft'[f] # None
  BY <1>1, DraftsStay
<1>4. LateInv'
  <2>1. CASE mode' = "down"
    BY <1>1, <2>1, IdleIsACall DEF LateInv, NoMetas, NoCalls
  <2>2. CASE mode' # "down"
    BY <1>1, <1>3, <2>2 DEF LateInv, OneCallEach
  <2> QED BY <2>1, <2>2
<1> QED BY <1>2, <1>4

LEMMA ReloadKeeps ==
  ASSUME IInv, Releases, LateInv, Reload
  PROVE  IInv' /\ Releases' /\ LateInv'
<1>1. /\ mode = "up" /\ old' = mem /\ late' = client /\ client' = NoCalls
      /\ UNCHANGED <<files, answers, executed>>
      /\ \/ Readable /\ mem' = meta /\ UNCHANGED mode
         \/ ~Readable /\ mem' = NoMetas /\ mode' = "broken"
  BY DEF Reload
<1>2. Callers' /\ client' \in [Clients -> ClientRecord]
  BY <1>1, NobodyCalls DEF NoCalls
<1>3. Answered' /\ Executions' /\ Releases'
  BY <1>1 DEF IInv, Answered, Executions, Releases, files, answers
<1>4. TypeOK'
  <2>1. mem' \in [Flows -> FlowMeta \cup {None}] /\ mode' \in {"up", "down", "broken"}
    BY <1>1 DEF IInv, TypeOK, NoMetas
  <2> QED BY <1>1, <1>2, <2>1 DEF IInv, TypeOK, files, answers
<1>5. Store'
  <2>1. CASE Readable /\ mem' = meta /\ UNCHANGED mode
    <3>1. \A f \in Flows : meta[f] # None => Later(meta[f], meta[f])
      BY Constants DEF IInv, TypeOK, Later, FlowMeta, Revisions
    <3> QED BY <1>1, <2>1, <3>1 DEF IInv, Store, files
  <2>2. CASE ~Readable /\ mem' = NoMetas /\ mode' = "broken"
    <3>1. \E f \in dir : meta[f] = None
      <4>1. dir \subseteq Flows
        BY DEF IInv, TypeOK
      <4> QED BY <2>2, <4>1 DEF IInv, Store, Readable
    <3> QED BY <1>1, <2>2, <3>1 DEF IInv, Store, NoMetas, files
  <2> QED BY <1>1, <2>1, <2>2
<1>6. LateInv'
  <2>1. /\ mem \in [Flows -> FlowMeta \cup {None}] /\ client \in [Clients -> ClientRecord]
        /\ \A f \in Flows : mem[f] # None => draft[f] # None
    BY DEF IInv, TypeOK, Store
  <2>2. \A c \in Clients : client'[c].pc = "idle"
    BY <1>1, IdleIsACall DEF NoCalls
  <2>3. mode' # "down"
    BY <1>1
  <2> QED BY <1>1, <2>1, <2>2, <2>3 DEF LateInv, IInv, Callers, CallerIsPlaced, files
<1> QED BY <1>2, <1>3, <1>4, <1>5, <1>6 DEF IInv

LEMMA ReloadStepHolds == ReloadIInv /\ [ReloadNext]_reloadVars => ReloadIInv'
<1> SUFFICES ASSUME ReloadIInv, [ReloadNext]_reloadVars PROVE ReloadIInv'
  OBVIOUS
<1>1. CASE UNCHANGED reloadVars
  <2>1. /\ UNCHANGED vars /\ UNCHANGED <<old, late, crossed>>
        /\ UNCHANGED <<mode, draft, client, published, ver>>
    BY <1>1 DEF reloadVars, vars, files, answers
  <2>2. IInv => IInv'
    BY <2>1, StepHolds
  <2>3. Releases => Releases'
    BY <2>1 DEF Releases
  <2>4. LateInv => LateInv'
    BY <2>1 DEF LateInv
  <2> QED BY <2>1, <2>2, <2>3, <2>4 DEF ReloadIInv
<1>2. CASE ReloadNext
  <2>1. ~crossed /\ IInv /\ Releases /\ LateInv
    BY <1>2 DEF ReloadNext, ReloadIInv
  <2>2. crossed' \in BOOLEAN
    <3>1. Crosses \in BOOLEAN
      BY Zenon DEF Crosses
    <3>2. crossed' = crossed \/ crossed' = Crosses
      BY <1>2 DEF ReloadNext, NewestStep, LateStep, Reload
    <3> QED BY <3>1, <3>2 DEF ReloadIInv
  <2> QED BY <1>2, <2>1, <2>2, NewestStepKeeps, LateStepKeeps, ReloadKeeps
      DEF ReloadNext, ReloadIInv
<1> QED BY <1>1, <1>2

\* Every state of every run of the stores satisfies the invariant.
THEOREM Invariance == ReloadSpec => []ReloadIInv
BY ReloadInitHolds, ReloadStepHolds, PTL DEF ReloadSpec

-----------------------------------------------------------------------------
(* The theorems *)

\* As long as the store before is not used where only the newest may be, the metas in
\* memory and every file that a crash or a failed write leaves behind are whole values
\* of their type, or absent (store.go, atomicWrite).
THEOREM TypeCorrect == ReloadSpec => [](~crossed => ReloadTypeOK)
<1>1. ReloadIInv => (~crossed => ReloadTypeOK)
  BY DEF ReloadIInv, IInv, LateInv, ReloadTypeOK
<1> QED BY <1>1, Invariance, PTL

\* Whatever crashes, failed writes, damage and reloads come between, two runs of one
\* version of a flow execute the same definition, the one that was answered if it was
\* answered as published (GetVersion and its checksum, Publish and its refusal of a
\* version file that exists); until the store before writes, answers or binds a run to
\* what the newest has differently.
THEOREM OneContent == ReloadSpec => []OneContentPerVersion
<1>1. ReloadIInv => OneContentPerVersion
  BY DEF ReloadIInv, IInv, Executions, Releases, OneContentPerVersion
<1> QED BY <1>1, Invariance, PTL

\* An accepted draft, a published version and a retirement that were answered survive
\* any number of crashes, failed writes and reloads (CreateFlow, UpdateDraft, Publish,
\* SetStatus, OpenFlowStore), until the store before writes or answers after the newest
\* has read the directory.
THEOREM AnswersSurvive == ReloadSpec => []AnsweredSurvives
<1>1. ASSUME IInv, mode = "up"
      PROVE  /\ \A a \in accepted : mem[a.flow] # None /\ mem[a.flow].rev >= a.rev
             /\ \A p \in published : mem[p.flow].latest >= p.version
             /\ \A f \in retired : mem[f].status = "retired"
  <2>1. /\ \A a \in accepted : a.flow \in Flows /\ a.rev \in Nat
        /\ \A p \in published : p.flow \in Flows /\ p.version \in Nat
        /\ retired \subseteq Flows
    BY <1>1, Constants DEF IInv, TypeOK, Revisions, Versions
  <2>2. \A f \in Flows : meta[f] # None =>
          /\ mem[f] # None /\ Later(mem[f], meta[f])
          /\ meta[f].rev \in Nat /\ meta[f].latest \in Nat
          /\ mem[f].rev \in Nat /\ mem[f].latest \in Nat
    BY <1>1, Constants DEF IInv, Store, TypeOK, FlowMeta, Revisions
  <2> QED BY <1>1, <2>1, <2>2 DEF IInv, Answered, Later
<1>2. ReloadIInv => AnsweredSurvives
  BY <1>1 DEF ReloadIInv, AnsweredSurvives
<1> QED BY <1>2, Invariance, PTL

\* An alias has one owner in memory and on disk, and a store that cannot be opened has a
\* flow that was left half written (CreateFlow, OpenFlowStore), until the store before
\* writes after the newest has read the directory.
THEOREM OneOwner == ReloadSpec => []AliasHasOneOwner
<1>1. ReloadIInv => AliasHasOneOwner
  BY DEF ReloadIInv, IInv, Store, Later, AliasHasOneOwner, Registered
<1> QED BY <1>1, Invariance, PTL

\* What PublishFlow freezes is what it has validated, as long as draft and meta agreed
\* on the revision when it read them and both its sections are those of the newest store.
THEOREM Frozen == ReloadSpec => FrozenAsValidated
<1> DEFINE A == ~crossed' =>
                  \A c \in Clients, p \in published' \ published :
                    client[c].pc = "validated" /\ client'[c].pc = "idle" /\ client[c].seen # None =>
                      p.body = client[c].seen
<1>1. ASSUME IInv, Next, NEW c \in Clients, NEW p \in published' \ published,
             client[c].pc = "validated", client'[c].pc = "idle", client[c].seen # None
      PROVE  p.body = client[c].seen
  <2>1. PICK d \in Clients : Publish(d) /\ published' # published
    <3>1. published' # published
      BY <1>1
    <3> QED BY <1>1, <3>1, DeathIsTyped
        DEF Next, CallStep, answers, Create, UpdateDraft, GetDraft, PublishRefused, GetVersion,
            SetStatus, ResolveAlias, Reopen, Damage, Fails
  <2>2. /\ client' = [client EXCEPT ![d] = Idle]
        /\ published' = published \cup
             {[flow |-> client[d].flow, version |-> mem[client[d].flow].latest + 1,
               body |-> draft[client[d].flow].body]}
        /\ mem[client[d].flow].rev = client[d].n
    BY <2>1 DEF Publish, Fails, Dies, answers, RevisionMatches
  <2>3. c = d
    BY <1>1, <2>2 DEF IInv, TypeOK
  <2>4. CallerIsPlaced(client[c])
    BY <1>1 DEF IInv, Callers
  <2>5. p.body = draft[client[c].flow].body
    BY <1>1, <2>2, <2>3
  <2> QED BY <1>1, <2>2, <2>3, <2>4, <2>5 DEF CallerIsPlaced
<1>2. ReloadIInv /\ [ReloadNext]_reloadVars => [A]_reloadVars
  <2> SUFFICES ASSUME ReloadIInv, ReloadNext, ~crossed' PROVE A
    OBVIOUS
  <2>1. CASE NewestStep
    BY <1>1, <2>1 DEF ReloadNext, ReloadIInv, NewestStep
  <2>2. CASE LateStep \/ Reload
    BY <2>2 DEF LateStep, Crosses, Reload, answers
  <2> QED BY <2>1, <2>2 DEF ReloadNext
<1> QED BY <1>2, Invariance, PTL DEF ReloadSpec, FrozenAsValidated

-----------------------------------------------------------------------------
(* The stores implement FlowContract. *)

\* What is in memory is at least what was answered.
LEMMA MemoryKnows ==
  ASSUME IInv, NEW f \in Flows
  PROVE  /\ mem[f] # None =>
              /\ \A a \in accepted : a.flow = f => a.rev <= mem[f].rev
              /\ \A p \in published : p.flow = f => p.version <= mem[f].latest
              /\ f \in retired => mem[f].status = "retired"
              /\ mem[f].rev \in Nat /\ mem[f].latest \in Nat
         /\ meta[f] = None => f \notin retired /\ \A a \in accepted : a.flow # f
<1>1. /\ \A a \in accepted : a.flow \in Flows /\ a.rev \in Nat
      /\ \A p \in published : p.flow \in Flows /\ p.version \in Nat
  BY Constants DEF IInv, TypeOK, Revisions, Versions
<1>2. ASSUME mem[f] # None
      PROVE  /\ meta[f] # None /\ Later(mem[f], meta[f])
             /\ meta[f].rev \in Nat /\ meta[f].latest \in Nat
             /\ mem[f].rev \in Nat /\ mem[f].latest \in Nat
  BY <1>2, Constants DEF IInv, Store, TypeOK, FlowMeta, Revisions
<1> QED BY <1>1, <1>2 DEF IInv, Answered, Later

\* What the contract sees of a step that it does not see.
Unseen == UNCHANGED <<answers, executed, BoundCalls>>

\* The calls on the store before stay bound as they are.
LateRests ==
  \A c \in Clients : /\ late'[c].pc = "idle" <=> late[c].pc = "idle"
                     /\ Bound(late'[c]) = Bound(late[c])

\* In a step of the newest store they do, unless the process dies.
LateFollows ==
  /\ OneCallEach
  /\ IF mode' = "down" THEN late' = NoCalls ELSE UNCHANGED late

LEMMA LateIsLeft ==
  ASSUME LateInv, LateFollows, UNCHANGED mode
  PROVE  LateRests
<1>1. CASE mode = "down"
  <2>1. \A c \in Clients : late[c].pc = "idle" /\ late'[c].pc = "idle"
    BY <1>1, IdleIsACall DEF LateFollows, LateInv, NoCalls
  <2> QED BY <2>1 DEF LateRests, Bound
<1>2. CASE mode # "down"
  BY <1>2 DEF LateFollows, LateRests
<1> QED BY <1>1, <1>2

\* Calls that are not bound to a version may begin and end.
LEMMA UnboundMoves ==
  ASSUME IInv, LateInv, LateFollows, UNCHANGED mode, NEW c \in Clients, NEW k,
         client' = [client EXCEPT ![c] = k], client[c].pc # "resolved", k.pc # "resolved"
  PROVE  UNCHANGED BoundCalls
<1>1. \A d \in Clients : Bound(client'[d]) = Bound(client[d])
  BY DEF Bound, IInv, TypeOK
<1>2. LateRests
  BY LateIsLeft
<1> QED BY <1>1, <1>2 DEF BoundCalls, LateRests

LEMMA ClientsStay ==
  ASSUME LateInv, LateFollows, UNCHANGED <<mode, client>>
  PROVE  UNCHANGED BoundCalls
<1>1. LateRests
  BY LateIsLeft
<1> QED BY <1>1 DEF BoundCalls, LateRests

\* A crash ends every call and answers nothing.
LEMMA NobodyIsBound ==
  ASSUME client' = NoCalls, late' = NoCalls, UNCHANGED <<answers, executed>>
  PROVE  Contract!Promise
<1>1. BoundCalls' = [c \in Clients |-> None]
  BY IdleIsACall DEF BoundCalls, Bound, NoCalls
<1>2. Contract!Drop(Clients)
  BY <1>1 DEF Contract!Drop, answers
<1> QED BY <1>2 DEF Contract!Promise

LEMMA DeathDrops ==
  ASSUME Dies, LateFollows, UNCHANGED executed
  PROVE  Contract!Promise
BY DeathIsTyped, NobodyIsBound DEF NoCalls, LateFollows

LEMMA CreateRefines ==
  ASSUME IInv, LateInv, LateFollows,
         NEW f \in Flows, NEW a \in Aliases, NEW b \in Bodies, Create(f, a, b)
  PROVE  Contract!Promise \/ Unseen
<1>0. UNCHANGED executed
  BY DEF Create, CreateWrites
<1>1. meta[f] = None
  BY DEF Create, IInv, Store
<1>2. CASE /\ accepted' = accepted \cup {[flow |-> f, rev |-> 1, body |-> b]}
           /\ UNCHANGED <<mode, client, published, retired>>
  <2>1. f \notin retired /\ \A x \in accepted : x.flow # f
    BY <1>1, MemoryKnows
  <2>2. Contract!Accept(f, 1, b)
    BY <1>0, <1>2, <2>1, ClientsStay DEF Contract!Accept
  <2>3. 1 \in Revisions
    BY Constants DEF Revisions
  <2> QED BY <2>2, <2>3 DEF Contract!Promise
<1>3. CASE Fails /\ UNCHANGED client
  BY <1>0, <1>3, ClientsStay DEF Fails, answers, Unseen
<1> QED BY <1>0, <1>2, <1>3, DeathDrops DEF Create

LEMMA UpdateDraftRefines ==
  ASSUME IInv, LateInv, LateFollows,
         NEW f \in Flows, NEW expect \in Revisions, NEW b \in Bodies, UpdateDraft(f, expect, b)
  PROVE  Contract!Promise \/ Unseen
<1>0. UNCHANGED executed
  BY DEF UpdateDraft, DraftWrites
<1>1. mem[f] # None /\ mem[f].status # "retired" /\ mem[f].rev = expect /\ expect + 1 \in Revisions
  <2>1. mem[f] # None /\ mem[f].status # "retired" /\ mem[f].rev = expect /\ expect < MaxRevision
    BY DEF UpdateDraft, Registered, RevisionMatches
  <2> QED BY <2>1, Constants DEF Revisions
<1>2. CASE /\ accepted' = accepted \cup {[flow |-> f, rev |-> expect + 1, body |-> b]}
           /\ UNCHANGED <<mode, client, published, retired>>
  <2>1. f \notin retired /\ \A x \in accepted : x.flow = f => x.rev <= expect
    BY <1>1, MemoryKnows
  <2>2. \A x \in accepted : x.flow = f => x.rev < expect + 1
    BY <2>1, Constants DEF IInv, TypeOK, Revisions
  <2>3. Contract!Accept(f, expect + 1, b)
    BY <1>0, <1>2, <2>1, <2>2, ClientsStay DEF Contract!Accept
  <2> QED BY <1>1, <2>3 DEF Contract!Promise
<1>3. CASE Fails /\ UNCHANGED client
  BY <1>0, <1>3, ClientsStay DEF Fails, answers, Unseen
<1> QED BY <1>0, <1>2, <1>3, DeathDrops DEF UpdateDraft

LEMMA PublishRefines ==
  ASSUME IInv, Releases, LateInv, LateFollows, NEW c \in Clients, Publish(c)
  PROVE  Contract!Promise \/ Unseen
<1> DEFINE f == client[c].flow
           v == mem[f].latest + 1
           b == draft[f].body
<1>1. /\ client[c].pc = "validated" /\ f \in Flows /\ mem[f] # None /\ mem[f].status # "retired"
      /\ v \in Versions /\ b \in Bodies /\ ver[f][v] = None /\ UNCHANGED executed
      /\ \/ /\ client' = [client EXCEPT ![c] = Idle] /\ UNCHANGED mode
            /\ published' = published \cup {[flow |-> f, version |-> v, body |-> b]}
            /\ UNCHANGED <<accepted, retired>>
         \/ client' = [client EXCEPT ![c] = Idle] /\ UNCHANGED <<mode, answers>>
         \/ Dies
  BY PublishOutcome
<1>2. f \notin retired /\ \A p \in published : p.flow = f => p.version < v
  <2>1. f \notin retired /\ mem[f].latest \in Nat
        /\ \A p \in published : p.flow = f => p.version <= mem[f].latest
    BY <1>1, MemoryKnows
  <2> QED BY <2>1, Constants DEF IInv, TypeOK, Versions
<1> HIDE DEF f, v, b
<1>3. CASE client' = [client EXCEPT ![c] = Idle] /\ UNCHANGED mode
  <2>1. UNCHANGED BoundCalls
    BY <1>1, <1>3, UnboundMoves, IdleIsACall
  <2>2. Contract!IsContent(f, v, b)
    BY <1>1 DEF Contract!IsContent, IInv, Executions, Releases
  <2>3. CASE /\ published' = published \cup {[flow |-> f, version |-> v, body |-> b]}
             /\ UNCHANGED <<accepted, retired>>
    <3>1. Contract!Release(f, v, b)
      BY <1>1, <1>2, <2>1, <2>2, <2>3 DEF Contract!Release
    <3> QED BY <1>1, <3>1 DEF Contract!Promise
  <2>4. CASE UNCHANGED answers
    BY <1>1, <2>1, <2>4 DEF Unseen
  <2> QED BY <1>1, <2>3, <2>4, DeathDrops
<1> QED BY <1>1, <1>3, DeathDrops

LEMMA SetStatusRefines ==
  ASSUME LateInv, LateFollows, NEW f \in Flows, NEW status \in FlowStatus, SetStatus(f, status)
  PROVE  Contract!Promise \/ Unseen
<1>0. UNCHANGED executed
  BY DEF SetStatus, StatusWrites
<1>1. CASE /\ retired' = IF status = "retired" THEN retired \cup {f} ELSE retired
           /\ UNCHANGED <<mode, client, accepted, published>>
  <2>1. Contract!Retire(f) \/ Unseen
    BY <1>0, <1>1, ClientsStay DEF Contract!Retire, Unseen, answers
  <2> QED BY <2>1 DEF Contract!Promise
<1>2. CASE Fails /\ UNCHANGED client
  BY <1>0, <1>2, ClientsStay DEF Fails, answers, Unseen
<1> QED BY <1>0, <1>1, <1>2, DeathDrops DEF SetStatus

LEMMA ResolveAliasRefines ==
  ASSUME IInv, LateInv, LateFollows,
         NEW c \in Clients, NEW a \in Aliases, NEW asked \in {0} \cup Versions,
         ResolveAlias(c, a, asked)
  PROVE  Contract!Promise
<1>0. PICK f \in Flows :
        /\ mem[f] # None /\ mem[f].status = "published" /\ mem[f].latest > 0
        /\ client' = [client EXCEPT ![c] =
             [Idle EXCEPT !.pc = "resolved", !.flow = f,
                          !.n = IF asked = 0 THEN mem[f].latest ELSE asked]]
  BY DEF ResolveAlias, Owners, Registered
<1>n. PICK n : n = IF asked = 0 THEN mem[f].latest ELSE asked
  OBVIOUS
<1>1. /\ mem[f] # None /\ mem[f].status = "published" /\ mem[f].latest > 0
      /\ client' = [client EXCEPT ![c] =
           [Idle EXCEPT !.pc = "resolved", !.flow = f, !.n = n]]
  BY <1>0, <1>n
<1>2. client[c].pc = "idle" /\ UNCHANGED <<mode, answers, executed>>
  BY DEF ResolveAlias
<1>3. n \in Versions
  <2>1. mem[f] \in FlowMeta
    BY <1>1 DEF IInv, TypeOK
  <2> QED BY <1>1, <1>n, <2>1, Constants DEF FlowMeta, Versions
<1>4. f \notin retired
  BY <1>1, MemoryKnows
<1>5. /\ BoundCalls[c] = None
      /\ BoundCalls' = [BoundCalls EXCEPT ![c] = [flow |-> f, version |-> n]]
  <2>1. \A d \in Clients :
          Bound(client'[d]) = IF d = c THEN [flow |-> f, version |-> n] ELSE Bound(client[d])
    BY <1>1 DEF Bound, Idle, IInv, TypeOK
  <2>2. LateRests
    BY <1>2, LateIsLeft
  <2>3. client'[c].pc = "resolved"
    BY <1>1 DEF Idle, IInv, TypeOK
  <2>4. late[c].pc = "idle"
    BY <2>2, <2>3 DEF LateFollows, OneCallEach, LateRests
  <2> QED BY <1>2, <2>1, <2>2, <2>4 DEF BoundCalls, Bound, LateRests
<1>6. Contract!Bind(c, f, n)
  BY <1>2, <1>4, <1>5 DEF Contract!Bind, answers
<1> QED BY <1>3, <1>6 DEF Contract!Promise

\* A run of version v of flow f reads its file: it executes what it finds, or ends.
LEMMA ExecutesOrDrops ==
  ASSUME IInv, Releases, NEW c \in Clients, NEW f \in Flows, NEW v \in Versions,
         UNCHANGED answers,
         BoundCalls[c] = [flow |-> f, version |-> v],
         BoundCalls' = [BoundCalls EXCEPT ![c] = None],
         executed' = IF ver[f][v] # None /\ Intact(ver[f][v])
                     THEN executed \cup {[flow |-> f, version |-> v, body |-> ver[f][v].body]}
                     ELSE executed
  PROVE  Contract!Promise
<1> DEFINE file == ver[f][v]
<1>1. file # None => file \in FlowVersion
  BY DEF IInv, TypeOK
<1>2. CASE file # None /\ Intact(file)
  <2>1. Contract!IsContent(f, v, file.body)
    BY <1>2 DEF Contract!IsContent, IInv, Executions, Releases, Intact
  <2>2. BoundCalls[c] # None
    BY Constants DEF FlowCall
  <2>3. Contract!Execute(c, file.body)
    BY <1>2, <2>1, <2>2 DEF Contract!Execute, answers
  <2>4. file.body \in Bodies
    BY <1>1, <1>2 DEF FlowVersion
  <2> QED BY <2>3, <2>4 DEF Contract!Promise
<1>3. CASE ~(file # None /\ Intact(file))
  <2>1. Contract!Drop({c})
    BY <1>3 DEF Contract!Drop, BoundCalls, answers
  <2> QED BY <2>1 DEF Contract!Promise
<1> QED BY <1>2, <1>3

LEMMA GetVersionRefines ==
  ASSUME IInv, Releases, LateInv, LateFollows, NEW c \in Clients, GetVersion(c)
  PROVE  Contract!Promise
<1> DEFINE f == client[c].flow
           v == client[c].n
<1>1. /\ client[c].pc = "resolved" /\ client' = [client EXCEPT ![c] = Idle]
      /\ executed' = IF ver[f][v] # None /\ Intact(ver[f][v])
                     THEN executed \cup {[flow |-> f, version |-> v, body |-> ver[f][v].body]}
                     ELSE executed
      /\ UNCHANGED <<mode, answers>> /\ f \in Flows /\ v \in Versions
  BY DEF GetVersion, IInv, Callers, CallerIsPlaced
<1>2. \A d \in Clients : Bound(client'[d]) = IF d = c THEN None ELSE Bound(client[d])
  BY <1>1, IdleIsACall DEF Bound, IInv, TypeOK
<1>3. LateRests /\ late[c].pc = "idle"
  BY <1>1, LateIsLeft DEF LateInv
<1>4. BoundCalls[c] = [flow |-> f, version |-> v]
  BY <1>1, <1>3 DEF BoundCalls, Bound
<1>5. BoundCalls' = [BoundCalls EXCEPT ![c] = None]
  BY <1>2, <1>3 DEF BoundCalls, LateRests
<1> QED BY <1>1, <1>4, <1>5, ExecutesOrDrops

\* Every step of the newest store is a step of the contract or invisible to it.
LEMMA StoreSimulates ==
  ASSUME IInv, Releases, LateInv, LateFollows, Next
  PROVE  Contract!Promise \/ Unseen
<1>1. ASSUME NEW c \in Clients, NEW f \in Flows, GetDraft(c, f)
      PROVE  Unseen
  <2> DEFINE k == [pc |-> "validated", flow |-> f, n |-> draft[f].rev,
                   seen |-> IF draft[f].rev = mem[f].rev THEN draft[f].body ELSE None]
  <2>1. client[c].pc = "idle" /\ client' = [client EXCEPT ![c] = k]
        /\ UNCHANGED <<mode, answers, executed>>
    BY <1>1 DEF GetDraft
  <2>2. k.pc # "resolved"
    OBVIOUS
  <2> HIDE DEF k
  <2>3. UNCHANGED BoundCalls
    BY <2>1, <2>2, UnboundMoves
  <2> QED BY <2>1, <2>3 DEF Unseen
<1>2. ASSUME NEW c \in Clients, PublishRefused(c)
      PROVE  Unseen
  <2>1. /\ client[c].pc = "validated" /\ client' = [client EXCEPT ![c] = Idle]
        /\ UNCHANGED <<mode, answers, executed>>
    BY <1>2 DEF PublishRefused
  <2>2. UNCHANGED BoundCalls
    BY <2>1, UnboundMoves, IdleIsACall
  <2> QED BY <2>1, <2>2 DEF Unseen
<1>3. CASE Reopen
  <2>1. UNCHANGED <<client, answers, executed>> /\ mode' # "down"
    BY <1>3 DEF Reopen
  <2>2. UNCHANGED BoundCalls
    BY <2>1 DEF LateFollows, BoundCalls
  <2> QED BY <2>1, <2>2 DEF Unseen
<1>4. ASSUME NEW f \in Flows, NEW v \in Versions, NEW b \in Bodies, Damage(f, v, b)
      PROVE  Unseen
  BY <1>4, ClientsStay DEF Damage, Unseen
<1> QED
  BY <1>1, <1>2, <1>3, <1>4, CreateRefines, UpdateDraftRefines, PublishRefines, SetStatusRefines,
     ResolveAliasRefines, GetVersionRefines DEF Next, CallStep

\* A step of the store before that does not cross is one as well.
LEMMA LateSimulates ==
  ASSUME IInv, Releases, LateInv, LateStep, ~crossed'
  PROVE  Contract!Promise \/ Unseen
<1>1. LateOutcome /\ UNCHANGED <<files, answers>> /\ OneCallEach /\ mode # "down"
      /\ IF mode' = "down" THEN mem' = NoMetas /\ client' = NoCalls ELSE UNCHANGED <<mem, client>>
  BY LateStepOutcome, LateIsUp DEF LateStep
<1>2. CASE Gone
  BY <1>1, <1>2, NobodyIsBound DEF Gone
<1>3. CASE Quiet
  <2>1. UNCHANGED <<client, executed>>
    BY <1>1, <1>3 DEF Quiet
  <2>2. \A c \in Clients :
          \/ late'[c] = late[c]
          \/ /\ client[c].pc = "idle"
             /\ late[c].pc # "resolved" /\ late'[c].pc # "resolved"
    <3>1. \A c \in Clients : client[c].pc = "idle" \/ (late[c].pc = "idle" /\ late'[c].pc = "idle")
      BY <1>1, <1>3, <2>1 DEF LateInv, OneCallEach, Quiet
    <3> QED BY <1>3, <3>1 DEF Quiet
  <2>3. UNCHANGED BoundCalls
    BY <2>1, <2>2 DEF BoundCalls, Bound
  <2> QED BY <1>1, <2>1, <2>3 DEF Unseen
<1>4. ASSUME NEW c \in Clients, NEW f \in Flows, NEW n \in Versions, Binds(c, f, n)
      PROVE  Contract!Promise
  <2>1. /\ late[c].pc = "idle" /\ client[c].pc = "idle" /\ UNCHANGED <<client, executed>>
        /\ late' = [late EXCEPT ![c] = [Idle EXCEPT !.pc = "resolved", !.flow = f, !.n = n]]
    BY <1>1, <1>4 DEF Binds
  <2>2. f \notin retired
    BY <1>4, MemoryKnows DEF Binds
  <2>3. /\ BoundCalls[c] = None
        /\ BoundCalls' = [BoundCalls EXCEPT ![c] = [flow |-> f, version |-> n]]
    <3>1. \A d \in Clients :
            late'[d] = IF d = c THEN [Idle EXCEPT !.pc = "resolved", !.flow = f, !.n = n]
                       ELSE late[d]
      BY <2>1 DEF LateInv
    <3>2. BoundCalls'[c] = [flow |-> f, version |-> n]
      BY <3>1 DEF BoundCalls, Bound, Idle
    <3>3. \A d \in Clients : d # c => BoundCalls'[d] = BoundCalls[d]
      BY <2>1, <3>1 DEF BoundCalls, Bound
    <3> QED BY <2>1, <3>2, <3>3 DEF BoundCalls, Bound
  <2>4. Contract!Bind(c, f, n)
    BY <1>1, <2>1, <2>2, <2>3 DEF Contract!Bind, answers
  <2> QED BY <2>4 DEF Contract!Promise
<1>5. ASSUME NEW c \in Clients, Old!GetVersion(c)
      PROVE  Contract!Promise
  <2>1. /\ late[c].pc = "resolved" /\ late' = [late EXCEPT ![c] = Idle]
        /\ executed' = IF /\ ver[late[c].flow][late[c].n] # None
                          /\ Intact(ver[late[c].flow][late[c].n])
                       THEN executed \cup {[flow |-> late[c].flow, version |-> late[c].n,
                                            body |-> ver[late[c].flow][late[c].n].body]}
                       ELSE executed
        /\ UNCHANGED <<mode, client, answers>>
        /\ late[c].flow \in Flows /\ late[c].n \in Versions /\ client[c].pc = "idle"
    BY <1>1, <1>5 DEF Old!GetVersion, Idle, Old!Idle, Intact, Old!Intact, LateInv
  <2>2. BoundCalls[c] = [flow |-> late[c].flow, version |-> late[c].n]
    BY <2>1 DEF BoundCalls, Bound
  <2>3. BoundCalls' = [BoundCalls EXCEPT ![c] = None]
    <3>1. \A d \in Clients : late'[d] = IF d = c THEN Idle ELSE late[d]
      BY <2>1 DEF LateInv
    <3> QED BY <2>1, <3>1, IdleIsACall DEF BoundCalls, Bound
  <2> QED BY <2>1, <2>2, <2>3, ExecutesOrDrops
<1> QED BY <1>1, <1>2, <1>3, <1>4, <1>5 DEF LateOutcome

\* A reload leaves the calls bound as they are.
LEMMA ReloadSimulates ==
  ASSUME IInv, Reload
  PROVE  Unseen
<1>1. late = NoCalls /\ late' = client /\ client' = NoCalls /\ UNCHANGED <<answers, executed>>
  BY DEF Reload
<1>2. \A c \in Clients : Bound(late[c]) = None /\ late[c].pc = "idle" /\ client'[c].pc = "idle"
  BY <1>1, IdleIsACall DEF NoCalls, Bound
<1>3. UNCHANGED BoundCalls
  BY <1>1, <1>2 DEF BoundCalls, Bound
<1> QED BY <1>1, <1>3 DEF Unseen

LEMMA ReloadsSimulate ==
  ReloadIInv /\ [ReloadNext]_reloadVars => [Contract!ContractNext]_(Contract!contractVars)
<1> SUFFICES ASSUME ReloadIInv, [ReloadNext]_reloadVars
             PROVE  [Contract!ContractNext]_(Contract!contractVars)
  OBVIOUS
<1>1. CASE UNCHANGED reloadVars
  BY <1>1 DEF reloadVars, vars, answers, BoundCalls, Contract!contractVars
<1>2. CASE ReloadNext /\ crossed'
  BY <1>2 DEF Contract!ContractNext
<1>3. CASE ReloadNext /\ ~crossed'
  <2>1. ~crossed /\ IInv /\ Releases /\ LateInv
    BY <1>3 DEF ReloadNext, ReloadIInv
  <2>2. NewestStep => LateFollows /\ Next
    BY DEF NewestStep, LateFollows
  <2>3. Contract!Promise \/ Unseen
    BY <1>3, <2>1, <2>2, StoreSimulates, LateSimulates, ReloadSimulates DEF ReloadNext
  <2>4. Unseen => UNCHANGED Contract!contractVars
    <3>1. crossed' = crossed
      BY <1>3, <2>1, ReloadStepHolds DEF ReloadIInv
    <3> QED BY <3>1 DEF Unseen, answers, Contract!contractVars
  <2> QED BY <1>3, <2>3, <2>4 DEF Contract!ContractNext
<1> QED BY <1>1, <1>2, <1>3

\* store.go, service.go: whatever fails, dies, is damaged or reloaded, the answers of the
\* stores keep FlowContract: revisions and versions are answered once and in ascending
\* order, nothing of a flow is answered or bound after its retirement was, and a version
\* has one content; until the store before writes, answers or binds a run to what the
\* newest has differently.
THEOREM RefinesFlowContract == ReloadSpec => ImplementsFlowContract
<1>1. ReloadInit => Contract!ContractInit
  BY DEF ReloadInit, Init, Contract!ContractInit, NoCalls, BoundCalls, Bound, Idle
<1> QED BY <1>1, ReloadsSimulate, Invariance, PTL
        DEF ReloadSpec, ImplementsFlowContract, Contract!ContractSpec
=============================================================================
