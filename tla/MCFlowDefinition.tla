-------------------------- MODULE MCFlowDefinition --------------------------
(***************************************************************************)
(* Instances of FlowDefinition for TLC.                                    *)
(***************************************************************************)
EXTENDS FlowDefinition

CONSTANTS s1, s2, s3, i1, i2

ThreeSteps == {s1, s2, s3}
TwoInputs  == {i1, i2}

\* Templates with up to one reference, depends_on with up to two steps.
Refs  == {{}} \cup {{v} : v \in {s1, s2, s3, i1, i2, RunId}}
Deps  == {{}, {s1}, {s2}, {s1, s2}}
Steps == [id : ThreeSteps, deps : Deps, refs : Refs, fine : {TRUE}]

\* The second and third step of a chain of three, that may refer back, forward
\* and to themselves.
Links == [id : {s2, s3}, deps : {{s1}, {s1, s2}}, refs : {{s1}, {s2}, {s3}}, fine : BOOLEAN]
Start == [id |-> s1, deps |-> {}, refs |-> {i1}, fine |-> TRUE]

\* One or two steps of any kind, and chains of three; i2 may be declared and is
\* never required.
SmallDefinitions ==
  [steps : {<<>>} \cup {<<a>> : a \in Steps} \cup {<<a, b>> : a, b \in Steps}
             \cup {<<Start, b, c>> : b, c \in Links},
   declared : {{}, {i1}, TwoInputs}, required : {{}, {i1}}, output : Refs]
=============================================================================
