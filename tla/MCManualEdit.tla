---------------------------- MODULE MCManualEdit ----------------------------
(***************************************************************************)
(* Instances of ManualEdit: the agent's phases are represented by one, the *)
(* others repeat it.                                                       *)
(***************************************************************************)
EXTENDS ManualEdit

FollowingDef ==
    [p \in {"queued", "materializing", "applying_annotations"} |->
        CASE p = "queued" -> "materializing"
          [] p = "materializing" -> "applying_annotations"
          [] p = "applying_annotations" -> "publishing"]
=============================================================================
