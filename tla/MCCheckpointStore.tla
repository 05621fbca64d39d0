------------------------- MODULE MCCheckpointStore --------------------------
EXTENDS CheckpointStore

\* The first two checkpoints declare the same bytes.
MCPayloads == {"slides", "notes"}
MCPayload == [c \in Checkpoints |-> IF c < 3 THEN "slides" ELSE "notes"]
=============================================================================
