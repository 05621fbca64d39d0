----------------------------- MODULE MCAdmission -----------------------------
(* Small instances of Admission: functions a .cfg cannot write down. *)
EXTENDS Admission

\* Two items of two personal workspaces, one worker class.
TwoHomes == [i \in Items |-> i]
OneClass == [i \in Items |-> "agent"]

\* The first item's deadline passes inside the horizon; the others' do not.
EarlyDeadline == [i \in Items |-> IF i = 1 THEN 2 ELSE MaxTime + GrantTTL + 1]
FarDeadlines == [i \in Items |-> MaxTime + GrantTTL + 1]

\* Items 1 and 2 share a workspace, item 3 has one of its own; item 2 is of
\* another worker class.
SharedHome == [i \in Items |-> IF i = 3 THEN 2 ELSE 1]
MixedClass == [i \in Items |-> IF i = 2 THEN "tool" ELSE "agent"]
=============================================================================
