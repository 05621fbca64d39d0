-------------------------- MODULE DeliveryContract --------------------------
(***************************************************************************)
(* What Task Orchestration's outbox promises its callers, without leases,  *)
(* fences, answers or workers: a committed operation has its downstream    *)
(* effect at most once, never after a newer operation of its scope had     *)
(* its own, and the ledger closes it with a verdict that tells the truth   *)
(* about that effect and is final.                                         *)
(***************************************************************************)
EXTENDS Naturals

CONSTANTS Operations,   \* the operations a decision may commit
          Scope,        \* the scope an operation is ordered in
          Positions     \* the places in that order

VARIABLES position,     \* the order of a committed operation, 0 before
          effect,       \* whether the operation took effect downstream
          verdict       \* what the ledger says of it

vars == <<position, effect, verdict>>

Committed == {o \in Operations : position[o] > 0}

Newer(n, o) == Scope[n] = Scope[o] /\ position[n] > position[o]

Init ==
    /\ position = [o \in Operations |-> 0]
    /\ effect = [o \in Operations |-> FALSE]
    /\ verdict = [o \in Operations |-> "open"]

Commit(o) ==
    /\ position[o] = 0
    /\ \E p \in Positions :
         /\ \A n \in Committed : Scope[n] = Scope[o] => position[n] <= p
         /\ position' = [position EXCEPT ![o] = p]
    /\ UNCHANGED <<effect, verdict>>

\* The downstream component performs an operation nobody has closed.
Perform(o) ==
    /\ o \in Committed
    /\ ~effect[o]
    /\ verdict[o] = "open"
    /\ ~\E n \in Committed : Newer(n, o) /\ effect[n]
    /\ effect' = [effect EXCEPT ![o] = TRUE]
    /\ UNCHANGED <<position, verdict>>

\* The ledger closes a set of operations in one transaction.
Close(closed) ==
    /\ \A o \in closed : verdict[o] = "open" /\ o \in Committed
    /\ \E v \in [closed -> {"done", "dropped", "refused"}] :
         /\ \A o \in closed : /\ v[o] = "done" => effect[o]
                              /\ v[o] = "dropped" => ~effect[o]
         /\ verdict' = [o \in Operations |->
                          IF o \in closed THEN v[o] ELSE verdict[o]]
    /\ UNCHANGED <<position, effect>>

Next ==
    \/ \E o \in Operations : Commit(o) \/ Perform(o)
    \/ \E closed \in SUBSET Committed : Close(closed)

Spec == Init /\ [][Next]_vars
=============================================================================
