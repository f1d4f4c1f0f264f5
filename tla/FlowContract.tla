---------------------------- MODULE FlowContract ----------------------------
(***************************************************************************)
(* What the flow store promises to those it answers, whatever is lost,     *)
(* fails or is damaged underneath: a revision and a version are answered   *)
(* once and after all earlier ones, nothing is accepted, published or      *)
(* started of a flow whose retirement was answered, and a version has one  *)
(* content, published or executed.  The promise lapses when two stores are *)
(* in use over the same files.                                             *)
(***************************************************************************)
EXTENDS Naturals

CONSTANTS Flows, Revisions, Versions, Bodies, Clients,
          None   \* no value

VARIABLES
  accepted,    \* drafts that were answered
  published,   \* versions that were answered
  retired,     \* flows whose retirement was answered
  executed,    \* versions that runs have executed
  calls,       \* StartRun calls: the version a call is bound to, or None
  lapsed       \* whether nothing is promised any more

contractVars == <<accepted, published, retired, executed, calls, lapsed>>

ContractInit ==
  /\ accepted = {} /\ published = {} /\ retired = {} /\ executed = {}
  /\ calls = [c \in Clients |-> None]
  /\ lapsed = FALSE

\* Calls end without effect: a file cannot be used, or the process dies.
Drop(gone) ==
  /\ UNCHANGED <<accepted, published, retired, executed>>
  /\ calls' = [c \in Clients |-> IF c \in gone THEN None ELSE calls[c]]

Accept(f, rev, b) ==
  /\ f \notin retired
  /\ \A a \in accepted : a.flow = f => a.rev < rev
  /\ accepted' = accepted \cup {[flow |-> f, rev |-> rev, body |-> b]}
  /\ UNCHANGED <<published, retired, executed, calls>>

\* The content v has had in any run or answer.
IsContent(f, v, b) ==
  \A e \in executed \cup published : e.flow = f /\ e.version = v => e.body = b

Release(f, v, b) ==
  /\ f \notin retired
  /\ \A p \in published : p.flow = f => p.version < v
  /\ IsContent(f, v, b)
  /\ published' = published \cup {[flow |-> f, version |-> v, body |-> b]}
  /\ UNCHANGED <<accepted, retired, executed, calls>>

Retire(f) ==
  /\ retired' = retired \cup {f}
  /\ UNCHANGED <<accepted, published, executed, calls>>

\* A call is bound to a version: the latest, or one that it names.
Bind(c, f, v) ==
  /\ calls[c] = None
  /\ f \notin retired
  /\ calls' = [calls EXCEPT ![c] = [flow |-> f, version |-> v]]
  /\ UNCHANGED <<accepted, published, retired, executed>>

\* A call that is bound executes that version, also when the flow was retired since.
Execute(c, b) ==
  /\ calls[c] # None
  /\ IsContent(calls[c].flow, calls[c].version, b)
  /\ executed' = executed \cup
       {[flow |-> calls[c].flow, version |-> calls[c].version, body |-> b]}
  /\ calls' = [calls EXCEPT ![c] = None]
  /\ UNCHANGED <<accepted, published, retired>>

Promise ==
  \/ \E gone \in SUBSET Clients : Drop(gone)
  \/ \E f \in Flows, rev \in Revisions, b \in Bodies : Accept(f, rev, b)
  \/ \E f \in Flows, v \in Versions, b \in Bodies : Release(f, v, b)
  \/ \E f \in Flows : Retire(f)
  \/ \E c \in Clients, f \in Flows, v \in Versions : Bind(c, f, v)
  \/ \E c \in Clients, b \in Bodies : Execute(c, b)

ContractNext == (Promise /\ ~lapsed') \/ lapsed'

ContractSpec == ContractInit /\ [][ContractNext]_contractVars
=============================================================================
