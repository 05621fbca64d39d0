--------------------------- MODULE MCTaskExecution ---------------------------
EXTENDS TaskExecution, TLC

\* The main route with its worker phases contracted to two: an agent phase, after
\* which the owner is asked, and publication.  The agent phase bears the name of
\* the one whose retry erases what was published.
MCWorkerStatuses == {"image_acquiring", "publishing"}
MCOnward ==
    "uploaded" :> {"image_acquiring"} @@
    "image_acquiring" :> {"awaiting_anchor_confirm", "publishing"} @@
    "awaiting_anchor_confirm" :> {"realization_deriving"} @@
    "realization_deriving" :> {"awaiting_realization_confirm"} @@
    "awaiting_realization_confirm" :> {"publishing"} @@
    "publishing" :> {"completed"}
=============================================================================
