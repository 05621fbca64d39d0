------------------------------ MODULE Admission ------------------------------
(***************************************************************************)
(* The Scheduler closed with the facts Runtime Execution (C03) may present *)
(* to it.  C03 is reduced to its contract: a run is accepted with one      *)
(* grant, may advance its revision, may commit one lease, ends with or     *)
(* without that lease, and resets the sandbox of an ended lease.  What it  *)
(* commits about capacity is a set of evidence that is never withdrawn and *)
(* that a deliverer may apply late, repeatedly, in any order, or never.    *)
(***************************************************************************)
EXTENDS Scheduler

CONSTANTS
    Exactness,     \* whether evidence carries the retained start binding
    MaxRevision,   \* bound: runtime revisions of one run
    MaxFaults      \* bound: node quarantines

ASSUME AdmissionConstants ==
    /\ Exactness \subseteq BOOLEAN
    /\ MaxRevision \in Nat
    /\ MaxFaults \in Nat

VARIABLES
    run,         \* the Runtime Run of each start item, as C03 retains it
    evidence,    \* C03's committed capacity evidence
    nodeReady,   \* C03's node fact: ready, unoccupied, contained and reset
    faults,      \* node quarantines so far
    offered      \* cancellations ClaimCancellation has handed to a deliverer

contractVars == <<run, evidence, nodeReady, faults, offered>>
vars == <<schedulerVars, contractVars>>

Phases == {"Created", "Waiting", "Leased", "Fenced", "Ended", "Reset"}
Live == {"Waiting", "Leased"}

\* The start command expects revision 1 and fence 1 and is accepted at 2 and 2.
CreatedRun == [phase |-> "Created", generation |-> 0, revision |-> 1, fence |-> 1]

Evidence(kind, g, exact, revision, fence) ==
    [kind |-> kind, grant |-> g, exact |-> exact, revision |-> revision,
     fence |-> fence]

RunGrant(i) == <<i, run[i].generation>>

Init ==
    /\ SchedulerInit
    /\ run = [i \in Items |-> CreatedRun]
    /\ evidence = {}
    /\ nodeReady = TRUE
    /\ faults = 0
    /\ offered = {}

-----------------------------------------------------------------------------
(* The Scheduler's own steps. *)

EnqueueStart(i) == Enqueue(i) /\ UNCHANGED contractVars
EnqueueCancellation(i) == EnqueueCancel(i) /\ UNCHANGED contractVars
BeginClaim(i) == ClaimBegin(i, nodeReady) /\ UNCHANGED contractVars
Redeliver(i) == ClaimRedeliver(i) /\ UNCHANGED contractVars
Admit(i) == ClaimAdmit(i) /\ UNCHANGED contractVars
Readmit(i) == ClaimReadmit(i) /\ UNCHANGED contractVars
RollbackClaim == ClaimRollback /\ UNCHANGED contractVars
AdvanceClock == Tick /\ UNCHANGED contractVars

ClaimCancellation(i) ==
    /\ OldestCancel(i)
    /\ offered' = offered \cup {i}
    /\ UNCHANGED <<schedulerVars, run, evidence, nodeReady, faults>>

ApplyFenced(e) ==
    /\ e.kind = "Fenced"
    /\ ApplyRuntimeFencedOrTerminal(e)
    /\ UNCHANGED contractVars

ApplyNoLease(e) ==
    /\ e.kind = "NoLease"
    /\ ApplyNoLeasePhysicalDisposition(e)
    /\ UNCHANGED contractVars

ApplyRelease(e) ==
    /\ e.kind = "Release"
    /\ ApplyPhysicalCapacityReleaseReady(e)
    /\ UNCHANGED contractVars

-----------------------------------------------------------------------------
(* C03's steps.  Those that call a Scheduler function are one transaction. *)

\* authority.now() is read before the transaction waits for the Scheduler's
\* row locks, so the time it presents may lie one unit back.
RecentTimes == {t \in {clock - 1, clock} : t >= 0}

\* A deliverer presents any grant that was ever issued for the item; once a
\* start is accepted, C03 answers from what it retained and calls no one.
StartRun(i, n, t) ==
    /\ run[i].phase = "Created"
    /\ AcceptRuntimeStart(<<i, n>>, 2, 2, t)
    /\ run' = [run EXCEPT ![i] = [phase |-> "Waiting", generation |-> n,
                                  revision |-> 2, fence |-> 2]]
    /\ UNCHANGED <<evidence, nodeReady, faults, offered>>

\* A reconciliation record, a prerequisite, a renewal or a worker observation.
ReviseRun(i) ==
    /\ run[i].phase \in Live
    /\ run[i].revision < MaxRevision
    /\ run' = [run EXCEPT ![i].revision = @ + 1]
    /\ UNCHANGED <<schedulerVars, evidence, nodeReady, faults, offered>>

CommitLease(i, t) ==
    /\ run[i].phase = "Waiting"
    /\ run[i].revision < MaxRevision
    /\ nodeReady
    /\ AttachRuntimeLease(RunGrant(i), run[i].revision + 1, run[i].fence, t)
    /\ run' = [run EXCEPT ![i].phase = "Leased", ![i].revision = @ + 1]
    /\ nodeReady' = FALSE
    /\ UNCHANGED <<evidence, faults, offered>>

\* A terminal decision moves the runtime fence and commits the fenced fact,
\* and, when no lease was ever committed, the no-lease fact with it.
Finished(i) ==
    [run[i] EXCEPT !.phase = IF @ = "Leased" THEN "Fenced" ELSE "Ended",
                   !.revision = @ + 1, !.fence = @ + 1]

TerminalEvidence(i, exact) ==
    {Evidence(kind, RunGrant(i), exact, run[i].revision + 1, run[i].fence + 1) :
        kind \in IF run[i].phase = "Leased" THEN {"Fenced"} ELSE {"Fenced", "NoLease"}}

\* Rejection or deadline before a lease; completion, failure, loss, expiry or
\* revocation after it.
FinishRun(i, exact) ==
    /\ run[i].phase \in Live
    /\ run' = [run EXCEPT ![i] = Finished(i)]
    /\ evidence' = evidence \cup TerminalEvidence(i, exact)
    /\ UNCHANGED <<schedulerVars, nodeReady, faults, offered>>

\* The canonical cancel command Task Orchestration composed expects the
\* revision the start was accepted at, so C03 refuses it as soon as the run
\* has a later one.
ExecuteCancel(i, exact) ==
    /\ i \in offered
    /\ run[i].phase \in Live
    /\ run[i].revision = 2
    /\ AcceptRuntimeCancel(i)
    /\ run' = [run EXCEPT ![i] = Finished(i)]
    /\ evidence' = evidence \cup TerminalEvidence(i, exact)
    /\ UNCHANGED <<clock, item, grant, logical, node, physical, turn, claim,
                   nodeReady, faults, offered>>

\* Containment and reset of the sandbox of an ended lease are confirmed.
ResetSandbox(i, exact) ==
    /\ run[i].phase = "Fenced"
    /\ run' = [run EXCEPT ![i].phase = "Reset"]
    /\ evidence' = evidence \cup
         {Evidence("Release", RunGrant(i), exact, run[i].revision, run[i].fence)}
    /\ UNCHANGED <<schedulerVars, nodeReady, faults, offered>>

\* The node is attested ready again once no sandbox occupies it.
AttestNode ==
    /\ ~ nodeReady
    /\ \A i \in Items : run[i].phase \notin {"Leased", "Fenced"}
    /\ nodeReady' = TRUE
    /\ UNCHANGED <<schedulerVars, run, evidence, faults, offered>>

QuarantineNode ==
    /\ nodeReady
    /\ faults < MaxFaults
    /\ nodeReady' = FALSE
    /\ faults' = faults + 1
    /\ UNCHANGED <<schedulerVars, run, evidence, offered>>

-----------------------------------------------------------------------------
ClaimStep ==
    \/ \E i \in Items : BeginClaim(i) \/ Redeliver(i) \/ Admit(i) \/ Readmit(i)
    \/ RollbackClaim

CancelStep ==
    \/ \E i \in Items : EnqueueCancellation(i) \/ ClaimCancellation(i)
    \/ \E i \in Items, exact \in Exactness : ExecuteCancel(i, exact)

RunStep ==
    \/ \E i \in Items, n \in Generations, t \in RecentTimes : StartRun(i, n, t)
    \/ \E i \in Items : ReviseRun(i)
    \/ \E i \in Items, t \in RecentTimes : CommitLease(i, t)
    \/ \E i \in Items, exact \in Exactness :
          FinishRun(i, exact) \/ ResetSandbox(i, exact)

EvidenceStep == \E e \in evidence : ApplyFenced(e) \/ ApplyNoLease(e) \/ ApplyRelease(e)

NodeStep == AttestNode \/ QuarantineNode

Next ==
    \/ \E i \in Items : EnqueueStart(i)
    \/ ClaimStep
    \/ CancelStep
    \/ RunStep
    \/ EvidenceStep
    \/ NodeStep
    \/ AdvanceClock

Spec == Init /\ [][Next]_vars

-----------------------------------------------------------------------------
(* Safety *)

TypeOK ==
    /\ SchedulerTypeOK
    /\ run \in [Items -> [phase : Phases, generation : 0..MaxGeneration,
                          revision : Nat, fence : Nat]]
    /\ evidence \subseteq [kind : {"Fenced", "NoLease", "Release"}, grant : Grants,
                           exact : BOOLEAN, revision : Nat, fence : Nat]
    /\ nodeReady \in BOOLEAN
    /\ faults \in 0..MaxFaults
    /\ offered \subseteq Items

\* The selected-node reservations and the occupancies still held never exceed
\* the node's slots, although the three transactions that free them and the
\* one that takes them count and write different tables.
NodeNeverOversubscribed ==
    Cardinality(NodeReservations) + Cardinality(Held) <= Slots

\* No counter is ever over its limit: site, personal workspace, worker class
\* and resource class, counting a grant from its reservation on.
CountersWithinLimits ==
    /\ Cardinality(LogicalHolders) <= GlobalLimit
    /\ Cardinality(LogicalHolders) <= ResourceLimit
    /\ \A i \in Items :
          /\ Cardinality(WorkspaceHolders(Home[i])) <= WorkspaceLimit
          /\ Cardinality(ClassHolders(Class[i])) <= ClassLimit

\* At most one grant of the whole site is out for delivery, and it is the
\* current grant of the one item that is Delivering: what ClaimAndAdmit relies
\* on when it takes a delivering item before any queued one.
OneOutstandingOffer ==
    /\ \A g \in Grants : grant[g].state = "ReservedUnbound" =>
          item[g[1]].state = "Delivering" /\ item[g[1]].current = g[2]
    /\ \A i \in Items : item[i].state = "Delivering" =>
          /\ item[i].current > 0
          /\ grant[CurrentGrant(i)].state = "ReservedUnbound"
    /\ \A i, j \in Delivering : i = j

\* A start is bound to one generation for ever: however often its item was
\* re-admitted, the Scheduler's bound grant is the one C03 accepted the run
\* with, and no other grant of the item was ever bound.
StartBoundOnce ==
    \A g \in Grants : LET i == g[1] IN
        /\ grant[g].revision > 0 => /\ item[i].state = "Accepted"
                                    /\ item[i].current = g[2]
                                    /\ run[i].generation = g[2]
        /\ run[i].phase # "Created" /\ run[i].generation = g[2] =>
              grant[g].revision = 2 /\ grant[g].fence = 2

\* Nothing frees a run's capacity early.  Its four counters stay taken until
\* C03 has fenced or ended it; the node reservation until it ended without a
\* lease; the physical occupancy until the sandbox was reset.
CapacityHeldForRun ==
    \A i \in Items : LET g == RunGrant(i) IN
        /\ run[i].phase \in Live => logical[g] = "Bound"
        /\ run[i].phase = "Waiting" => node[g] = "Bound"
        /\ run[i].phase \in {"Leased", "Fenced"} => physical[g] = "Held"
        /\ run[i].phase = "Ended" => physical[g] = "None"

\* What Inspect and every state-guarded UPDATE rely on: a grant's state says
\* which states its counter rows, its node row and its occupancy may be in.
RowsAgree ==
    \A g \in Grants : LET s == grant[g].state IN
        /\ s = "None" => <<logical[g], node[g], physical[g]>> = <<"None", "None", "None">>
        /\ s = "ReservedUnbound" =>
              <<logical[g], node[g], physical[g]>> = <<"ReservedUnbound", "ReservedUnbound", "None">>
        /\ s = "ExpiredUnbound" =>
              <<logical[g], node[g], physical[g]>> = <<"Released", "Released", "None">>
        /\ s = "Bound" => /\ logical[g] \in {"Bound", "Released"}
                          /\ node[g] = "Bound" /\ physical[g] = "None"
        /\ s = "TerminalNoLease" =>
              <<logical[g], node[g], physical[g]>> = <<"Bound", "Released", "None">>
        /\ s = "LeaseAttached" =>
              /\ logical[g] \in {"Bound", "Released"}
              /\ <<node[g], physical[g]>> \in {<<"LeaseAttached", "Held">>,
                                               <<"Released", "Released">>}
        /\ s = "Released" => /\ logical[g] = "Released" /\ node[g] = "Released"
                             /\ physical[g] \in {"None", "Released"}

\* The rows are well formed and agree with each other, whichever of the
\* transactions of capacity.go and postgres.go wrote them last.
AdmissionInvariant == TypeOK /\ RowsAgree

\* The limits of claim-and-admit: neither the node's slots nor any counter is
\* over-reserved, although admission, binding, expiry and the two releases
\* count and free in transactions of their own.
LimitsKept == NodeNeverOversubscribed /\ CountersWithinLimits

-----------------------------------------------------------------------------
(* The inductive invariant: the safety invariants above and what they rest on. *)

\* An item has had no grant until it is delivered, and then its current grant
\* is its last: no committed state shows an expired grant without a successor.
ItemGenerations ==
    \A i \in Items :
        /\ item[i].state \in {"Absent", "Queued"} => item[i].current = 0 /\ item[i].last = 0
        /\ item[i].state \in {"Delivering", "Accepted"} =>
              item[i].current = item[i].last /\ item[i].last > 0

\* The grants of an item are those up to its last generation.
GrantsIssued ==
    \A g \in Grants : grant[g].state = "None" <=> g[2] > item[g[1]].last

\* A grant carries a runtime binding in exactly the states after acceptance.
BindingStates ==
    \A g \in Grants :
        grant[g].revision > 0 <=>
            grant[g].state \in {"Bound", "LeaseAttached", "TerminalNoLease", "Released"}

\* The locked candidate of an open claim is still where the claim found it.
ClaimHoldsCandidate ==
    claim # NoClaim =>
        /\ claim.item \in Items
        /\ item[claim.item].state \in {"Queued", "Delivering"}
        /\ item[claim.item].state = "Queued" => Delivering = {}

\* C03 holds a generation of the item from the acceptance of its start on.
RunGenerations ==
    \A i \in Items : run[i].phase = "Created" <=> run[i].generation = 0

\* Evidence is about the run it was committed for, and only what happened.
EvidenceOfRun ==
    \A e \in evidence :
        /\ run[e.grant[1]].generation = e.grant[2]
        /\ e.kind = "Fenced" => run[e.grant[1]].phase \in {"Fenced", "Ended", "Reset"}
        /\ e.kind = "NoLease" => run[e.grant[1]].phase = "Ended"
        /\ e.kind = "Release" => run[e.grant[1]].phase = "Reset"

IInv ==
    /\ TypeOK
    /\ ItemGenerations
    /\ GrantsIssued
    /\ BindingStates
    /\ ClaimHoldsCandidate
    /\ RunGenerations
    /\ EvidenceOfRun
    /\ RowsAgree
    /\ OneOutstandingOffer
    /\ StartBoundOnce
    /\ CapacityHeldForRun
    /\ NodeNeverOversubscribed
    /\ CountersWithinLimits

-----------------------------------------------------------------------------
(* Action properties *)

\* What was released is never taken again and a recorded terminal decision is
\* never replaced, whatever evidence is applied, in whatever order and however
\* often: a later generation needs rows of its own.
ReleaseIsFinal ==
    [][\A g \in Grants :
          /\ logical[g] = "Released" => logical'[g] = "Released"
          /\ node[g] = "Released" => node'[g] = "Released"
          /\ physical[g] = "Released" => physical'[g] = "Released"
          /\ grant[g].terminal # 0 => grant'[g].terminal = grant[g].terminal]_vars

-----------------------------------------------------------------------------
(* Liveness.  ClaimAndAdmit is called by polling workers, so a claim is begun
   whenever it can be, a transaction ends, and one whose commit stays possible
   is not rolled back for ever.  Deliverers retry a decision and committed
   evidence until it is applied; C03's maintenance ends leases, resets
   sandboxes and attests the node. *)

ClaimFairness ==
    /\ WF_vars(\E i \in Items : BeginClaim(i))
    /\ WF_vars(RollbackClaim)
    /\ \A i \in Items : SF_vars(Admit(i)) /\ SF_vars(Readmit(i))

StartFairness ==
    \A i \in Items : SF_vars(\E n \in Generations : StartRun(i, n, clock))

EvidenceFairness ==
    \A i \in Items :
        /\ WF_vars(\E e \in evidence : e.grant[1] = i /\ ApplyFenced(e))
        /\ WF_vars(\E e \in evidence : e.grant[1] = i /\ ApplyNoLease(e))
        /\ WF_vars(\E e \in evidence : e.grant[1] = i /\ ApplyRelease(e))

MaintenanceFairness ==
    /\ WF_vars(AttestNode)
    /\ \A i \in Items :
          /\ WF_vars(\E exact \in Exactness : FinishRun(i, exact))
          /\ WF_vars(\E exact \in Exactness : ResetSandbox(i, exact))

CancelFairness ==
    \A i \in Items :
        /\ WF_vars(ClaimCancellation(i))
        /\ WF_vars(\E exact \in Exactness : ExecuteCancel(i, exact))

LiveSpec ==
    /\ Spec
    /\ ClaimFairness
    /\ StartFairness
    /\ EvidenceFairness
    /\ MaintenanceFairness

\* No StartFairness: the deliverer of an offer may have died.
OfferSpec == Spec /\ ClaimFairness /\ MaintenanceFairness

\* Nothing but the cancellation itself is obliged to end a run.
CancelSpec == Spec /\ CancelFairness

\* An unbound grant nobody presented to C03 in time does not keep its room: it
\* is bound or expired in the end (while MaxGeneration allows another grant).
UnboundGrantResolves ==
    \A g \in Grants : g[2] < MaxGeneration =>
        (grant[g].state = "ReservedUnbound" /\ clock >= grant[g].expires)
            ~> grant[g].state # "ReservedUnbound"

\* Every queued item of the configured class and policy is admitted and its
\* start accepted in the end, whatever else is queued before it.
FittingItemsAccepted ==
    \A i \in Fits : item[i].state = "Queued" ~> item[i].state = "Accepted"

\* Capacity comes back: after an end without a lease, and after the reset of a
\* leased sandbox, the grant's counters and node room are free in the end,
\* whichever of the two facts is applied first.
CapacityComesBack ==
    \A g \in Grants : LET i == g[1] IN
        (run[i].generation = g[2] /\ run[i].phase \in {"Ended", "Reset"})
            ~> /\ logical[g] = "Released" /\ node[g] = "Released"
               /\ physical[g] # "Held"

\* The end of a grant, offered or bound: its room is free again.
GrantsEnd == UnboundGrantResolves /\ CapacityComesBack

\* A cancellation that reaches C03 after the lease was granted revokes it.
CancelRevokesLease ==
    \A i \in Items :
        (cancel[i] = "Queued" /\ run[i].phase = "Leased") ~> run[i].phase # "Leased"

-----------------------------------------------------------------------------
(* The Scheduler keeps the promise CapacityLedger states. *)

RunsIn(phases) == {g \in Grants : /\ run[g[1]].generation = g[2]
                                  /\ run[g[1]].phase \in phases}

CounterKeys ==
    {<<"site">>, <<"resource">>}
        \cup {<<"workspace", Home[i]>> : i \in Items}
        \cup {<<"class", Class[i]>> : i \in Items}

CounterLimit(c) ==
    CASE c = <<"site">>     -> GlobalLimit
      [] c = <<"resource">> -> ResourceLimit
      [] c[1] = "workspace" -> WorkspaceLimit
      [] OTHER              -> ClassLimit

Ledger == INSTANCE CapacityLedger WITH
    Grant     <- Grants,
    Counter   <- CounterKeys,
    CountedBy <- [g \in Grants |-> {<<"site">>, <<"resource">>,
                                    <<"workspace", Home[g[1]]>>,
                                    <<"class", Class[g[1]]>>}],
    Limit     <- [c \in CounterKeys |-> CounterLimit(c)],
    Place     <- Slots,
    issued    <- {g \in Grants : grant[g].state # "None"},
    counted   <- LogicalHolders,
    placed    <- NodeReservations \cup Held,
    bound     <- {g \in Grants : grant[g].revision > 0},
    ended     <- RunsIn({"Fenced", "Ended", "Reset"}),
    contained <- RunsIn({"Ended", "Reset"})

\* Every step of the Scheduler and of C03 is a step of the ledger or leaves
\* it alone: capacity is taken only in an admission, and comes back only once,
\* only for an ended run, and on the node only when nothing of it is left.
KeepsLedger == Ledger!Spec
=============================================================================
