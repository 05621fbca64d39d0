---------------------------- MODULE MCPublication ----------------------------
(* Instances of Publication: a first generation, edits that compete, content    *)
(* shared by two operations.                                                    *)
EXTENDS Publication, TLC

CONSTANTS a, b, c, x, y

\* The first generation has content of its own, the edits share some.
MCContents == (a :> <<x>>) @@ (b :> <<x, y>>) @@ (c :> <<y>>)

=============================================================================
