------------------------------ MODULE MCOutbox ------------------------------
EXTENDS Outbox

\* An older and a newer operation of one scope.
MCOperations == {1, 2}
MCScopes == {"run", "task"}
MCScope == [o \in MCOperations |-> "run"]
=============================================================================
