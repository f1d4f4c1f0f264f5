---------------------------- MODULE RunContract ----------------------------
(***************************************************************************)
(* What the workflow Service promises of its runs, whatever the flow: at   *)
(* most Capacity of them hold a slot, an open run settles once and for all *)
(* in one of the final outcomes, its waiters are told after it settled,    *)
(* and its slot is given back after that.                                  *)
(***************************************************************************)
EXTENDS Integers, FiniteSets

CONSTANTS
  Runs,      \* a finite set of possible runs
  Capacity   \* how many of them may hold a slot

Final == {"COMPLETED", "FAILED", "CANCELLED", "TIMED_OUT"}

VARIABLES
  active,     \* runs that hold a slot
  outcome,    \* "none", "open" or a final outcome
  announced   \* runs whose waiters have been released

contractVars == <<active, outcome, announced>>

ContractInit ==
  /\ active = {}
  /\ outcome = [r \in Runs |-> "none"]
  /\ announced = {}

Admit(r) ==
  /\ outcome[r] = "none" /\ r \notin active
  /\ Cardinality(active) < Capacity
  /\ active' = active \cup {r}
  /\ UNCHANGED <<outcome, announced>>

\* An admitted call is refused after all and leaves no open run.
Abandon(r) ==
  /\ outcome[r] = "none" /\ r \in active
  /\ active' = active \ {r}
  /\ UNCHANGED <<outcome, announced>>

Open(r) ==
  /\ outcome[r] = "none" /\ r \in active
  /\ outcome' = [outcome EXCEPT ![r] = "open"]
  /\ UNCHANGED <<active, announced>>

Settle(r) ==
  /\ outcome[r] = "open"
  /\ \E o \in Final : outcome' = [outcome EXCEPT ![r] = o]
  /\ UNCHANGED <<active, announced>>

Announce(r) ==
  /\ outcome[r] \in Final /\ r \notin announced
  /\ announced' = announced \cup {r}
  /\ UNCHANGED <<active, outcome>>

Release(r) ==
  /\ r \in announced /\ r \in active
  /\ active' = active \ {r}
  /\ UNCHANGED <<outcome, announced>>

ContractNext ==
  \E r \in Runs : Admit(r) \/ Abandon(r) \/ Open(r) \/ Settle(r) \/ Announce(r) \/ Release(r)

ContractSpec == ContractInit /\ [][ContractNext]_contractVars

\* Every run that is opened settles, is announced and returns its slot.
OpenRunsEnd == \A r \in Runs : (outcome[r] = "open") ~> (r \in announced /\ r \notin active)
=============================================================================
