---------------------------- MODULE CapacityLedger ----------------------------
(***************************************************************************)
(* What the Scheduler promises about capacity, with no tables, claims or   *)
(* clocks: a grant takes a place under each of its counters and one on the *)
(* node when it is issued, and gives each of them back once.  The counters *)
(* come back only when the run it was bound to has ended, the node place   *)
(* only when the node is known to hold nothing of that run; an offer that  *)
(* lapsed unbound passes both on to the grant issued in its stead.         *)
(***************************************************************************)
EXTENDS Integers, FiniteSets

CONSTANTS
    Grant,       \* grants that can be issued
    Counter,     \* logical counters
    CountedBy,   \* the counters of a grant
    Limit,       \* the limit of a counter
    Place        \* places on the node

VARIABLES
    issued,      \* grants issued so far
    counted,     \* grants counted by their counters
    placed,      \* grants with a place on the node
    bound,       \* grants bound to an accepted run
    ended,       \* bound grants whose run has ended
    contained    \* bound grants whose run left nothing on the node

vars == <<issued, counted, placed, bound, ended, contained>>

Init ==
    /\ issued = {} /\ counted = {} /\ placed = {}
    /\ bound = {} /\ ended = {} /\ contained = {}

WithinLimits(holders) ==
    \A c \in Counter : Cardinality({g \in holders : c \in CountedBy[g]}) <= Limit[c]

\* Grant g is issued; the lapsed offers, if any, give up their places to it.
Issue(g, lapsed) ==
    /\ g \notin issued
    /\ lapsed \subseteq (issued \ bound) \cap counted \cap placed
    /\ issued' = issued \cup {g}
    /\ counted' = (counted \ lapsed) \cup {g}
    /\ placed' = (placed \ lapsed) \cup {g}
    /\ WithinLimits(counted')
    /\ Cardinality(placed') <= Place
    /\ UNCHANGED <<bound, ended, contained>>

\* Only a grant that still has its places can be bound.
Bind(g) ==
    /\ g \in (counted \cap placed) \ bound
    /\ bound' = bound \cup {g}
    /\ UNCHANGED <<issued, counted, placed, ended, contained>>

\* The run ends; it may never have had anything on the node.
End(g, nothingPlaced) ==
    /\ g \in bound \ ended
    /\ ended' = ended \cup {g}
    /\ contained' = IF nothingPlaced THEN contained \cup {g} ELSE contained
    /\ UNCHANGED <<issued, counted, placed, bound>>

Contain(g) ==
    /\ g \in ended \ contained
    /\ contained' = contained \cup {g}
    /\ UNCHANGED <<issued, counted, placed, bound, ended>>

Uncount(g) ==
    /\ g \in counted \cap ended
    /\ counted' = counted \ {g}
    /\ UNCHANGED <<issued, placed, bound, ended, contained>>

Vacate(g) ==
    /\ g \in placed \cap contained
    /\ placed' = placed \ {g}
    /\ UNCHANGED <<issued, counted, bound, ended, contained>>

Next ==
    \E g \in Grant :
        \/ \E lapsed \in SUBSET Grant : Issue(g, lapsed)
        \/ Bind(g)
        \/ \E nothingPlaced \in BOOLEAN : End(g, nothingPlaced)
        \/ Contain(g) \/ Uncount(g) \/ Vacate(g)

Spec == Init /\ [][Next]_vars
=============================================================================
