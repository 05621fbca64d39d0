----------------------------- MODULE RunContract -----------------------------
(***************************************************************************)
(* What Runtime Execution promises the Scheduler about the runs it accepts *)
(* and about the nodes they run on, without saying how: a run obtains one  *)
(* lease or none, ends once, and every capacity fact is committed with the *)
(* step it is about.  A node serves one lease at a time, from its grant to *)
(* the reset that follows it.                                              *)
(***************************************************************************)
CONSTANTS
    Runs,      \* Runtime Runs
    NodeOf,    \* the Execution Node the Scheduler chose for each run
    None       \* no run

VARIABLES
    phase,     \* where each run stands
    holder,    \* the run whose lease each node serves
    facts      \* the capacity facts committed so far

contract == <<phase, holder, facts>>

ContractInit ==
    /\ phase = [r \in Runs |-> "Created"]
    /\ holder = [n \in {NodeOf[r] : r \in Runs} |-> None]
    /\ facts = {}

Moves(r, from, to) == phase[r] = from /\ phase' = [phase EXCEPT ![r] = to]

Accept(r) == Moves(r, "Created", "Waiting") /\ UNCHANGED <<holder, facts>>

Grant(r) ==
    /\ holder[NodeOf[r]] = None
    /\ Moves(r, "Waiting", "Leased")
    /\ holder' = [holder EXCEPT ![NodeOf[r]] = r]
    /\ UNCHANGED facts

EndWithoutLease(r) ==
    /\ Moves(r, "Waiting", "Ended")
    /\ facts' = facts \cup {<<"Fenced", r>>, <<"NoLease", r>>}
    /\ UNCHANGED holder

EndLease(r) ==
    /\ Moves(r, "Leased", "Fenced")
    /\ facts' = facts \cup {<<"Fenced", r>>}
    /\ UNCHANGED holder

ResetNode(r) ==
    /\ holder[NodeOf[r]] = r
    /\ Moves(r, "Fenced", "Reset")
    /\ holder' = [holder EXCEPT ![NodeOf[r]] = None]
    /\ facts' = facts \cup {<<"Release", r>>}

ContractNext ==
    \E r \in Runs : Accept(r) \/ Grant(r) \/ EndWithoutLease(r) \/ EndLease(r) \/ ResetNode(r)

ContractSpec == ContractInit /\ [][ContractNext]_contract
=============================================================================
