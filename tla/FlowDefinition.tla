--------------------------- MODULE FlowDefinition ---------------------------
(***************************************************************************)
(* Flow definitions from validation to rendering (src/platform/workflow:   *)
(* flowdef.go, template.go, and what service.go does with templates): a    *)
(* definition is validated once, when it is published, and its templates   *)
(* are rendered much later, step by step, from what a run has by then.     *)
(*                                                                          *)
(* A template is the set of the variables it refers to: an input (its name),*)
(* the output of a step (its step_id), or run.id. Checks that look at one   *)
(* field only (names, patterns, limits, models and pools of the catalogue,  *)
(* brace syntax) are one flag per step, "fine".                             *)
(*                                                                          *)
(* FlowProofs extends this module and FlowStore: no name is in both.        *)
(***************************************************************************)
EXTENDS Naturals, Sequences, FiniteSets

CONSTANTS
  StepIds,     \* step identifiers
  Inputs,      \* input names
  RunId,       \* the variable run.id
  Definitions  \* the definitions somebody tries to publish

ASSUME DefinitionConstants ==
  /\ StepIds \cap Inputs = {} /\ RunId \notin StepIds \cup Inputs
  /\ \A d \in Definitions :
       /\ d.steps \in Seq([id : StepIds, deps : SUBSET StepIds, fine : BOOLEAN,
                           refs : SUBSET (StepIds \cup Inputs \cup {RunId})])
       /\ d.declared \subseteq Inputs /\ d.required \subseteq Inputs
       /\ d.output \subseteq StepIds \cup Inputs \cup {RunId}

VARIABLES
  def,     \* the definition
  phase,   \* "draft", "rejected", "published", "refused", "running", "done", "failed"
  at,      \* the step of the run that comes next
  bound,   \* the variables that have a value: the keys of vars
  reason   \* why the run failed

definitionVars == <<def, phase, at, bound, reason>>

DefinitionInit ==
  /\ def \in Definitions
  /\ phase = "draft" /\ at = 1 /\ bound = {} /\ reason = "none"

-----------------------------------------------------------------------------
(* Definition.Validate *)

\* seen, as the loop over the steps finds it at step i.
EarlierSteps(d, i) == {d.steps[j].id : j \in 1 .. i - 1}

\* checkRefs: a declared input, the output of a step known and depended on, or
\* run.id.
RefsAllowed(d, refs, known, deps) ==
  refs \subseteq d.declared \cup (known \cap deps) \cup {RunId}

\* The loop over the steps: identifiers are unique, depends_on names earlier
\* steps, so that there is no cycle.
StepIsValid(d, i) ==
  LET s == d.steps[i] known == EarlierSteps(d, i) IN
  /\ s.fine /\ s.id \notin known
  /\ s.deps \subseteq known
  /\ RefsAllowed(d, s.refs, known, s.deps)

Validate(d) ==
  LET all == EarlierSteps(d, Len(d.steps) + 1) IN
  /\ d.steps # <<>> /\ d.declared # {} /\ d.required \subseteq d.declared
  /\ \A i \in DOMAIN d.steps : StepIsValid(d, i)
  /\ RefsAllowed(d, d.output, all, all)

PublishDefinition ==
  /\ phase = "draft"
  /\ phase' = IF Validate(def) THEN "published" ELSE "rejected"
  /\ UNCHANGED <<def, at, bound, reason>>

-----------------------------------------------------------------------------
(* A run of the published definition *)

\* ValidateInputs: nothing required is missing, nothing unknown is given.
ValidateInputs(d, given) == d.required \subseteq given /\ given \subseteq d.declared

\* Only what was given. (mutant)
OnlyGiven(d, given) == {RunId} \cup given

\* execute: run.id, and every declared input, empty if it was not given.
InitialVars(d, given) == {RunId} \cup d.declared \cup given

\* SingleInputName: the input a chat message can stand for, if there is one.
ChatInputs(d) ==
  IF Cardinality(d.required) = 1 THEN {d.required}
  ELSE IF d.required = {} /\ Cardinality(d.declared) = 1 THEN {d.declared} ELSE {}

\* StartRun with inputs of the native API, or with a chat message.
StartRun ==
  /\ phase = "published"
  /\ \E given \in (SUBSET Inputs) \cup ChatInputs(def), tooLong \in BOOLEAN :
       IF ValidateInputs(def, given) /\ ~tooLong
       THEN phase' = "running" /\ bound' = InitialVars(def, given)
       ELSE phase' = "refused" /\ UNCHANGED bound
  /\ UNCHANGED <<def, at, reason>>

\* RenderTemplate: every variable has to have a value.
Renders(refs) == refs \subseteq bound

\* What may end a run at a template and the step it is for.
Failures(refs) ==
  IF Renders(refs) THEN {"too large", "step failed"} ELSE {"undefined reference"}

\* failRun.
Fail(why) == phase' = "failed" /\ reason' = why /\ UNCHANGED <<def, at, bound>>

\* execute, one round of the loop: the prompt is rendered, the step runs, its
\* output becomes a variable. Expanded text may be too long, the step may fail.
RunStep ==
  LET s == def.steps[at] IN
  /\ phase = "running" /\ at <= Len(def.steps)
  /\ \/ \E why \in Failures(s.refs) : Fail(why)
     \/ /\ Renders(s.refs)
        /\ bound' = bound \cup {s.id} /\ at' = at + 1
        /\ UNCHANGED <<def, phase, reason>>

\* execute, the end: the output of the run.
RenderOutput ==
  /\ phase = "running" /\ at = Len(def.steps) + 1
  /\ IF Renders(def.output)
     THEN phase' = "done" /\ UNCHANGED <<def, at, bound, reason>>
     ELSE Fail("undefined reference")

DefinitionNext == PublishDefinition \/ StartRun \/ RunStep \/ RenderOutput

DefinitionSpec == DefinitionInit /\ [][DefinitionNext]_definitionVars

-----------------------------------------------------------------------------
(* Properties *)

DefinitionTypeOK ==
  /\ def \in Definitions
  /\ phase \in {"draft", "rejected", "published", "refused", "running", "done", "failed"}
  /\ at \in 1 .. Len(def.steps) + 1
  /\ bound \subseteq StepIds \cup Inputs \cup {RunId}
  /\ reason \in {"none", "undefined reference", "too large", "step failed"}

\* What Validate has accepted can be rendered: whatever inputs ValidateInputs
\* lets through, no template of a run meets a reference that has no value, at
\* no step and not at the end, after the steps before it have been paid for.
AcceptedFlowsRender == reason # "undefined reference"
=============================================================================
