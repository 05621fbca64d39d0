------------------------------ MODULE Scheduler ------------------------------
(***************************************************************************)
(* The Scheduler authority (src/backend/internal/scheduler): its seven     *)
(* PostgreSQL tables, the claim-and-admit transaction, the three functions *)
(* other modules call inside their own transactions (enqueue, runtime      *)
(* acceptance, lease attachment, cancellation), and the three transactions *)
(* that apply Runtime Execution's capacity evidence.                       *)
(*                                                                         *)
(* This module has no next-state relation of its own: the facts Runtime    *)
(* Execution presents are parameters of the operations.  Admission.tla     *)
(* closes it with what Runtime Execution may present.                      *)
(*                                                                         *)
(* A work item is numbered by its place in the order (enqueued_at,         *)
(* work_item_id); the items may be committed in any order.  A grant is     *)
(* identified by its item and generation.  The four counter rows of a      *)
(* grant are always written by one statement and are one entry here.       *)
(*                                                                         *)
(* A definition introduced by "Variant:" is no part of the model.  It is a  *)
(* plausible mistake in the definition after it, kept to show that the     *)
(* properties of Admission.tla notice the difference.                      *)
(***************************************************************************)
EXTENDS Integers, FiniteSets

CONSTANTS
    Items,           \* start work items Task Orchestration may enqueue
    Home,            \* personal_workspace_id of an item, in collation order
    Class,           \* worker class of an item
    Deadline,        \* runtime deadline in the item's canonical payload
    Fits,            \* items of the configured resource class and policy
    Cancellable,     \* items Task Orchestration may enqueue a cancel for
    GlobalLimit, WorkspaceLimit, ClassLimit, ResourceLimit,
    Slots,           \* AvailableRuntimeSlots of the configured node
    GrantTTL,        \* lifetime of an unbound grant
    MaxGeneration,   \* bound: grants made for one item
    MaxTime          \* bound: the clock

ASSUME SchedulerConstants ==
    /\ Items \subseteq Nat \ {0}
    /\ IsFiniteSet(Items)
    /\ Home \in [Items -> Nat \ {0}]
    /\ DOMAIN Class = Items
    /\ Deadline \in [Items -> Nat]
    /\ Fits \subseteq Items
    /\ Cancellable \subseteq Items
    /\ GlobalLimit \in Nat /\ WorkspaceLimit \in Nat
    /\ ClassLimit \in Nat /\ ResourceLimit \in Nat
    /\ Slots \in Nat
    /\ GrantTTL \in Nat \ {0}
    /\ MaxGeneration \in Nat
    /\ MaxTime \in Nat

VARIABLES
    clock,       \* the wall clock authority.now() reads
    item,        \* scheduler_work_items of kind start
    cancel,      \* scheduler_work_items of kind cancel, one per start item
    grant,       \* scheduler_admission_grants
    logical,     \* scheduler_logical_reservations, four rows a grant
    node,        \* scheduler_node_reservations
    physical,    \* scheduler_physical_occupancy
    turn,        \* scheduler_fairness_state.last_personal_workspace_id
    claim        \* the open ClaimAndAdmit transaction

tables == <<item, cancel, grant, logical, node, physical, turn>>
schedulerVars == <<clock, tables, claim>>

Generations == 1..MaxGeneration
Grants == Items \X Generations

ItemStates == {"Absent", "Queued", "Delivering", "Accepted"}
CancelStates == {"Absent", "Queued", "Accepted"}
GrantStates == {"None", "ReservedUnbound", "Bound", "ExpiredUnbound",
                "TerminalNoLease", "Released", "LeaseAttached"}
ReservationStates == {"None", "ReservedUnbound", "Bound", "LeaseAttached",
                      "Released"}

NoClaim == [item |-> 0, now |-> 0]

\* current and last are current_grant_generation and last_grant_generation.
AbsentItem == [state |-> "Absent", current |-> 0, last |-> 0]

\* revision and fence are the bound_runtime_ columns (zero: never bound),
\* leaseBy is lease_acquire_by, terminal is terminal_runtime_revision, which
\* stands for the terminal decision (zero: none recorded).
AbsentGrant == [state |-> "None", expires |-> 0, revision |-> 0, fence |-> 0,
                leaseBy |-> 0, terminal |-> 0]

SchedulerInit ==
    /\ clock = 0
    /\ item = [i \in Items |-> AbsentItem]
    /\ cancel = [i \in Items |-> "Absent"]
    /\ grant = [g \in Grants |-> AbsentGrant]
    /\ logical = [g \in Grants |-> "None"]
    /\ node = [g \in Grants |-> "None"]
    /\ physical = [g \in Grants |-> "None"]
    /\ turn = 0
    /\ claim = NoClaim

Earlier(s, t) == IF s < t THEN s ELSE t

-----------------------------------------------------------------------------
(* Occupancy, as the counting queries see it. *)

Counting == {"ReservedUnbound", "Bound"}

LogicalHolders == {g \in Grants : logical[g] \in Counting}
WorkspaceHolders(w) == {g \in LogicalHolders : Home[g[1]] = w}
ClassHolders(c) == {g \in LogicalHolders : Class[g[1]] = c}
NodeReservations == {g \in Grants : node[g] \in Counting}
Held == {g \in Grants : physical[g] = "Held"}

\* Variant: occupancies left from earlier leases are not counted.
RoomForWithoutHeld(i) ==
    /\ Cardinality(LogicalHolders) < GlobalLimit
    /\ Cardinality(WorkspaceHolders(Home[i])) < WorkspaceLimit
    /\ Cardinality(ClassHolders(Class[i])) < ClassLimit
    /\ Cardinality(LogicalHolders) < ResourceLimit
    /\ Cardinality(NodeReservations) < Slots

\* The ordinary and the selected-node limits a new grant of item i must find
\* room under.  Every admissible item has the configured resource class, so
\* the resource-class counter counts the same rows as the site counter.
RoomFor(i) ==
    /\ Cardinality(LogicalHolders) < GlobalLimit
    /\ Cardinality(WorkspaceHolders(Home[i])) < WorkspaceLimit
    /\ Cardinality(ClassHolders(Class[i])) < ClassLimit
    /\ Cardinality(LogicalHolders) < ResourceLimit
    /\ Cardinality(NodeReservations) + Cardinality(Held) < Slots

-----------------------------------------------------------------------------
(* Task Orchestration's transaction calls scheduler_enqueue_work_item.  A
   repeated call with the same binding inserts nothing. *)

Enqueue(i) ==
    /\ item[i].state = "Absent"
    /\ item' = [item EXCEPT ![i].state = "Queued"]
    /\ UNCHANGED <<clock, cancel, grant, logical, node, physical, turn, claim>>

\* A cancellation is enqueued by a later Task decision than the start it names.
EnqueueCancel(i) ==
    /\ i \in Cancellable
    /\ item[i].state # "Absent"
    /\ cancel[i] = "Absent"
    /\ cancel' = [cancel EXCEPT ![i] = "Queued"]
    /\ UNCHANGED <<clock, item, grant, logical, node, physical, turn, claim>>

-----------------------------------------------------------------------------
(* ClaimAndAdmit is one READ COMMITTED transaction.  It holds the fairness
   row and the candidate's row from ClaimBegin to its end, and uses at its end
   the time and the node fact it read at its beginning.  *)

Delivering == {i \in Items : item[i].state = "Delivering"}

EligibleQueued ==
    {i \in Items : /\ item[i].state = "Queued"
                   /\ Cardinality(WorkspaceHolders(Home[i])) < WorkspaceLimit}

\* ORDER BY (workspace > last ? 0 : 1), workspace, enqueued_at, work_item_id
Lap(i) == IF Home[i] > turn THEN 0 ELSE 1
Precedes(i, j) ==
    \/ Lap(i) < Lap(j)
    \/ Lap(i) = Lap(j) /\ Home[i] < Home[j]
    \/ Lap(i) = Lap(j) /\ Home[i] = Home[j] /\ i < j

\* An item already out for delivery is always taken before a queued one.
Candidate(i) ==
    \/ i \in Delivering /\ \A j \in Delivering : i <= j
    \/ /\ Delivering = {}
       /\ i \in EligibleQueued
       /\ \A j \in EligibleQueued \ {i} : Precedes(i, j)

\* A candidate whose payload names another resource class or execution policy
\* than the configured ones is an integrity conflict, and a node that is not
\* ready ends the claim: both roll back before anything is written.
ClaimBegin(i, nodeReady) ==
    /\ claim = NoClaim
    /\ Candidate(i)
    /\ i \in Fits
    /\ nodeReady
    /\ claim' = [item |-> i, now |-> clock]
    /\ UNCHANGED <<clock, tables>>

CurrentGrant(i) == <<i, item[i].current>>

\* The current grant is unexpired: the same decision is handed out again.
ClaimRedeliver(i) ==
    /\ claim.item = i
    /\ item[i].current > 0
    /\ grant[CurrentGrant(i)].state = "ReservedUnbound"
    /\ grant[CurrentGrant(i)].expires > claim.now
    /\ claim' = NoClaim
    /\ UNCHANGED <<clock, tables>>

\* reserveAdmission, on tables as they stand inside the transaction.
Reserve(i, items, grants, logicals, nodes) ==
    LET generation == items[i].last + 1
        g == <<i, generation>>
    IN  /\ item' = [items EXCEPT ![i] = [state   |-> "Delivering",
                                         current |-> generation,
                                         last    |-> generation]]
        /\ grant' = [grants EXCEPT
                       ![g] = [@ EXCEPT !.state = "ReservedUnbound",
                                        !.expires = Earlier(claim.now + GrantTTL, Deadline[i])]]
        /\ logical' = [logicals EXCEPT ![g] = "ReservedUnbound"]
        /\ node' = [nodes EXCEPT ![g] = "ReservedUnbound"]
        /\ turn' = Home[i]

\* A queued item is granted its first or its next generation.
ClaimAdmit(i) ==
    /\ claim.item = i
    /\ item[i].current = 0
    /\ Deadline[i] > claim.now
    /\ RoomFor(i)
    /\ item[i].last < MaxGeneration
    /\ Reserve(i, item, grant, logical, node)
    /\ claim' = NoClaim
    /\ UNCHANGED <<clock, cancel, physical>>

\* expireUnboundGrant: the grant's rows after its expiry.
Expired(f, g) == [f EXCEPT ![g] = IF @ = "ReservedUnbound" THEN "Released" ELSE @]

\* The room left once the expiring grant g no longer counts.
RoomWithout(i, g) ==
    LET others == LogicalHolders \ {g}
    IN  /\ Cardinality(others) < GlobalLimit
        /\ Cardinality({h \in others : Home[h[1]] = Home[i]}) < WorkspaceLimit
        /\ Cardinality({h \in others : Class[h[1]] = Class[i]}) < ClassLimit
        /\ Cardinality(others) < ResourceLimit
        /\ Cardinality(NodeReservations \ {g}) + Cardinality(Held) < Slots

\* The current grant has expired.  It is expired and the item is admitted
\* again in the same transaction, or, when the deadline has passed or a limit
\* is reached, the whole transaction rolls back.
ClaimReadmit(i) ==
    LET g == CurrentGrant(i)
    IN  /\ claim.item = i
        /\ item[i].current > 0
        /\ grant[g].state = "ReservedUnbound"
        /\ grant[g].expires <= claim.now
        /\ Deadline[i] > claim.now
        /\ RoomWithout(i, g)
        /\ item[i].last < MaxGeneration
        /\ Reserve(i, item,
                   [grant EXCEPT ![g].state = "ExpiredUnbound"],
                   Expired(logical, g), Expired(node, g))
        /\ claim' = NoClaim
        /\ UNCHANGED <<clock, cancel, physical>>

\* Every other end of the transaction, a refusal, an error or a lost
\* connection, rolls it back.
ClaimRollback ==
    /\ claim # NoClaim
    /\ claim' = NoClaim
    /\ UNCHANGED <<clock, tables>>

\* ClaimCancellation reads the oldest queued cancellation and retains nothing.
OldestCancel(i) ==
    /\ cancel[i] = "Queued"
    /\ \A j \in Items : cancel[j] = "Queued" => i <= j

-----------------------------------------------------------------------------
(* The functions Runtime Execution calls inside its own transactions.  Each
   raises, and so rolls the caller back, unless its guard holds. *)

\* Variant: a start that presents a superseded grant is accepted with it.
AcceptSuperseded(g, r, f, t) ==
    LET i == g[1]
    IN  /\ claim.item # i
        /\ item[i].state = "Delivering"
        /\ grant[g].state \in {"ReservedUnbound", "ExpiredUnbound"}
        /\ grant' = [grant EXCEPT
                       ![g] = [@ EXCEPT !.state = "Bound", !.revision = r, !.fence = f,
                                        !.leaseBy = Deadline[i]]]
        /\ item' = [item EXCEPT ![i].state = "Accepted"]
        /\ logical' = [logical EXCEPT ![g] = "Bound"]
        /\ node' = [node EXCEPT ![g] = "Bound"]
        /\ UNCHANGED <<clock, cancel, physical, turn, claim>>

\* scheduler_accept_runtime_start: runtime revision r and fence f are bound at
\* time t, which the caller read before it waited for the row locks.
AcceptRuntimeStart(g, r, f, t) ==
    LET i == g[1]
    IN  /\ claim.item # i
        /\ item[i].state = "Delivering"
        /\ item[i].current = g[2]
        /\ grant[g].state = "ReservedUnbound"
        /\ grant[g].expires > t
        /\ Deadline[i] > t
        /\ grant' = [grant EXCEPT
                       ![g] = [@ EXCEPT !.state = "Bound", !.revision = r, !.fence = f,
                                        !.leaseBy = Earlier(grant[g].expires, Deadline[i])]]
        /\ item' = [item EXCEPT ![i].state = "Accepted"]
        /\ logical' = [logical EXCEPT ![g] = IF @ = "ReservedUnbound" THEN "Bound" ELSE @]
        /\ node' = [node EXCEPT ![g] = IF @ = "ReservedUnbound" THEN "Bound" ELSE @]
        /\ UNCHANGED <<clock, cancel, physical, turn, claim>>

\* scheduler_attach_runtime_lease.  The function's replay branch, for a grant
\* already LeaseAttached, returns without writing anything.
AttachRuntimeLease(g, r, f, t) ==
    /\ grant[g].state = "Bound"
    /\ grant[g].revision < r
    /\ grant[g].fence = f
    /\ grant[g].leaseBy > t
    /\ node[g] = "Bound"
    /\ grant' = [grant EXCEPT ![g].state = "LeaseAttached"]
    /\ node' = [node EXCEPT ![g] = "LeaseAttached"]
    /\ physical' = [physical EXCEPT ![g] = "Held"]
    /\ UNCHANGED <<clock, item, cancel, logical, turn, claim>>

\* scheduler_accept_runtime_cancel: what it does to the cancel work item.
AcceptRuntimeCancel(i) ==
    /\ cancel[i] = "Queued"
    /\ cancel' = [cancel EXCEPT ![i] = "Accepted"]

-----------------------------------------------------------------------------
(* Applying Runtime Execution's capacity evidence.  Evidence e names a grant;
   exact says that every identity and digest in it, the start operation and
   its digest first of all, is the one the Scheduler retained. *)

\* lockAndValidateTerminalEvidence
TerminalEvidenceMatches(e) ==
    /\ e.exact
    /\ grant[e.grant].revision > 0
    /\ e.revision > grant[e.grant].revision
    /\ e.fence = grant[e.grant].fence + 1
    /\ grant[e.grant].terminal \in {0, e.revision}

\* Variant: the fenced fact gives the occupancy back as well.
FencedFreesOccupancy(e) ==
    LET g == e.grant
    IN  /\ TerminalEvidenceMatches(e)
        /\ grant[g].state \in {"Bound", "LeaseAttached", "TerminalNoLease", "Released"}
        /\ logical' = [logical EXCEPT ![g] = "Released"]
        /\ physical' = [physical EXCEPT ![g] = IF @ = "Held" THEN "Released" ELSE @]
        /\ grant' = [grant EXCEPT ![g] = [@ EXCEPT !.terminal = e.revision]]
        /\ UNCHANGED <<clock, item, cancel, node, turn, claim>>

\* Variant: the fenced fact is expected before the no-lease fact.
FencedComesFirst(e) ==
    LET g == e.grant
    IN  /\ TerminalEvidenceMatches(e)
        /\ grant[g].state \in {"Bound", "LeaseAttached"}
        /\ logical' = [logical EXCEPT ![g] = "Released"]
        /\ grant' = [grant EXCEPT ![g] = [@ EXCEPT !.terminal = e.revision]]
        /\ UNCHANGED <<clock, item, cancel, node, physical, turn, claim>>

ApplyRuntimeFencedOrTerminal(e) ==
    LET g == e.grant
    IN  /\ TerminalEvidenceMatches(e)
        /\ grant[g].state \in {"Bound", "LeaseAttached", "TerminalNoLease", "Released"}
        /\ logical' = [logical EXCEPT ![g] = IF @ = "Bound" THEN "Released" ELSE @]
        /\ grant' = [grant EXCEPT
                       ![g] = [@ EXCEPT !.state = IF /\ node[g] = "Released"
                                                     /\ grant[g].state \in {"Bound", "TerminalNoLease"}
                                                  THEN "Released" ELSE grant[g].state,
                                        !.terminal = e.revision]]
        /\ UNCHANGED <<clock, item, cancel, node, physical, turn, claim>>

\* Variant: the no-lease fact does not look at the counters.
NoLeaseIgnoresCounters(e) ==
    LET g == e.grant
    IN  /\ TerminalEvidenceMatches(e)
        /\ grant[g].state \in {"Bound", "TerminalNoLease", "Released"}
        /\ node' = [node EXCEPT ![g] = "Released"]
        /\ grant' = [grant EXCEPT
                       ![g] = [@ EXCEPT !.state = "TerminalNoLease", !.terminal = e.revision]]
        /\ UNCHANGED <<clock, item, cancel, logical, physical, turn, claim>>

ApplyNoLeasePhysicalDisposition(e) ==
    LET g == e.grant
    IN  /\ TerminalEvidenceMatches(e)
        /\ grant[g].state \in {"Bound", "TerminalNoLease", "Released"}
        /\ node[g] \in {"Bound", "Released"}
        /\ node' = [node EXCEPT ![g] = "Released"]
        /\ grant' = [grant EXCEPT
                       ![g] = [@ EXCEPT !.state = IF logical[g] = "Released"
                                                  THEN "Released" ELSE "TerminalNoLease",
                                        !.terminal = e.revision]]
        /\ UNCHANGED <<clock, item, cancel, logical, physical, turn, claim>>

\* Variant: the node row is given back and the occupancy forgotten.
ReleaseKeepsOccupancy(e) ==
    LET g == e.grant
    IN  /\ e.exact
        /\ physical[g] = "Held"
        /\ node[g] = "LeaseAttached"
        /\ node' = [node EXCEPT ![g] = "Released"]
        /\ UNCHANGED <<clock, item, cancel, grant, logical, physical, turn, claim>>

\* A row already Released answers without writing.
ApplyPhysicalCapacityReleaseReady(e) ==
    LET g == e.grant
    IN  /\ e.exact
        /\ physical[g] = "Held"
        /\ node[g] = "LeaseAttached"
        /\ grant[g].state = "LeaseAttached"
        /\ physical' = [physical EXCEPT ![g] = "Released"]
        /\ node' = [node EXCEPT ![g] = "Released"]
        /\ grant' = [grant EXCEPT
                       ![g].state = IF logical[g] = "Released"
                                    THEN "Released" ELSE "LeaseAttached"]
        /\ UNCHANGED <<clock, item, cancel, logical, turn, claim>>

-----------------------------------------------------------------------------
Tick ==
    /\ clock < MaxTime
    /\ clock' = clock + 1
    /\ UNCHANGED <<tables, claim>>

SchedulerTypeOK ==
    /\ clock \in Nat
    /\ item \in [Items -> [state : ItemStates, current : 0..MaxGeneration,
                           last : 0..MaxGeneration]]
    /\ cancel \in [Items -> CancelStates]
    /\ grant \in [Grants -> [state : GrantStates, expires : Nat, revision : Nat,
                             fence : Nat, leaseBy : Nat, terminal : Nat]]
    /\ logical \in [Grants -> ReservationStates]
    /\ node \in [Grants -> ReservationStates]
    /\ physical \in [Grants -> {"None", "Held", "Released"}]
    /\ turn \in Nat
    /\ claim \in [item : Items \cup {0}, now : Nat]
=============================================================================
