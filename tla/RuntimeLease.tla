----------------------------- MODULE RuntimeLease -----------------------------
(***************************************************************************)
(* Runtime Execution (C03): the record of each run, its one sandbox lease, *)
(* the Execution Node it runs on, and the three parties that act on them:  *)
(* commands and deliverers that advance a run, the worker that runs it,    *)
(* and the maintenance that renews, fences and resets.  Task Workspace     *)
(* (C04), which opens a view of the workspace for a mutating run, is seen  *)
(* through the requests C03 sends it.                                      *)
(*                                                                         *)
(* Every operation is one transaction that locks the run's row first, so   *)
(* it is one action; the revision, generation and fence a command expects  *)
(* are compared with the row and only say that nothing was committed since *)
(* the command was composed.  What is carried across transactions (a lease *)
(* generation in a view, a capsule, a result or reset evidence) is kept.   *)
(***************************************************************************)
EXTENDS Integers, FiniteSets

CONSTANTS
    Runs,        \* Runtime Runs
    Nodes,       \* Execution Nodes
    None,        \* no run
    NodeOf,      \* the node the Scheduler chose for each run
    Mutating,    \* runs that need a view of the workspace
    Deadline,    \* each run's deadline
    GrantExpiry, \* when each run's admission grant expires
    LeaseTTL,    \* initial lifetime of a lease
    NodeTTL,     \* lifetime of a node attestation
    Faults,      \* what may go wrong with a view request
    MaxTime,     \* bound: clock
    MaxNodeGeneration  \* bound: node capacity generations

ASSUME LeaseConstants ==
    /\ None \notin Runs
    /\ NodeOf \in [Runs -> Nodes]
    /\ Mutating \subseteq Runs
    /\ Deadline \in [Runs -> Nat]
    /\ GrantExpiry \in [Runs -> Nat]
    /\ LeaseTTL \in Nat \ {0} /\ NodeTTL \in Nat \ {0}
    /\ Faults \subseteq {"Crash", "Refuse"}
    /\ MaxTime \in Nat /\ MaxNodeGeneration \in Nat \ {0}

VARIABLES
    clock,         \* wall clock
    run,           \* a run's state, outcome and bound node generation
    lease,         \* its sandbox lease
    view,          \* its runtime view as C03 retains it
    capsule,       \* its execution capsule and the capsule's dispatch
    worker,        \* the worker operation as C03 retains it
    node,          \* each node's row
    evidence,      \* committed capacity evidence
    \* outside C03's tables:
    opening,       \* what became of the deliverer that asks C04 for a run's view
    workspaceView, \* C04's view of each run
    process,       \* the run's processes on its node
    claim          \* lease generation of the latest reset evidence composed

runVars == <<run, lease, view, capsule, worker>>
outside == <<opening, workspaceView, process, claim>>
vars == <<clock, runVars, node, evidence, outside>>

RunStates == {"Created", "WaitingForLease", "Reconciling", "PreparingPrerequisites",
              "Starting", "Running", "Stopping", "Terminal"}
Outcomes == {"None", "Succeeded", "Failed", "Cancelled", "TimedOut", "Rejected"}
LeaseStates == {"None", "Active", "Revoked", "Expired", "Released"}
ViewStates == {"NotApplicable", "Pending", "InDoubt", "Accepted", "Rejected"}

Earliest(times) == CHOOSE t \in times : \A u \in times : t <= u

Host(r) == node[NodeOf[r]]

\* scheduler_accept_runtime_start fixes this with the acceptance.
LeaseAcquireBy(r) == Earliest({GrantExpiry[r], Deadline[r]})

\* authority.now() is read before the transaction waits for a further row.
RecentTimes == {t \in {clock - 1, clock} : t >= 0}

NoLease == [status |-> "None", generation |-> 0, expires |-> 0,
            sandbox |-> 0, sandboxFence |-> 0]

\* A node as its first attestation inserts it.
AttestedNode == [ready |-> TRUE, quarantined |-> FALSE, occupancy |-> "Unoccupied",
                 active |-> None, generation |-> 1, expires |-> NodeTTL,
                 sandbox |-> 0, sandboxFence |-> 0]

Init ==
    /\ clock = 0
    /\ run = [r \in Runs |-> [state |-> "Created", outcome |-> "None", generation |-> 0]]
    /\ lease = [r \in Runs |-> NoLease]
    /\ view = [r \in Runs |-> [state |-> IF r \in Mutating THEN "Pending" ELSE "NotApplicable",
                               generation |-> 0, terminal |-> "None"]]
    /\ capsule = [r \in Runs |-> [generation |-> 0, claimed |-> FALSE]]
    /\ worker = [r \in Runs |-> [status |-> "None", candidate |-> 0]]
    /\ node = [n \in Nodes |-> AttestedNode]
    /\ evidence = {}
    /\ opening = [r \in Runs |-> "Idle"]
    /\ workspaceView = [r \in Runs |-> "None"]
    /\ process = [r \in Runs |-> "None"]
    /\ claim = [r \in Runs |-> 0]

Tick == clock < MaxTime /\ clock' = clock + 1 /\ UNCHANGED <<runVars, node, evidence, outside>>

Active(r) == lease[r].status = "Active"

\* exact: whether the evidence carries the operation and digest of the start.
Evidence(kind, r, exact) == [kind |-> kind, run |-> r, exact |-> exact]

-----------------------------------------------------------------------------
(* Before the lease. *)

\* Variant: a run that reconciles a worker's result is taken for one that waits.
BeforeLeaseAnyReconciling(r) ==
    run[r].state \in {"WaitingForLease", "Reconciling"} /\ run[r].outcome = "None"

BeforeLease(r) ==
    /\ run[r].state \in {"WaitingForLease", "Reconciling"}
    /\ run[r].outcome = "None"
    /\ lease[r].status = "None"

\* The node generation was read when the grant was issued and may be an old one.
AcceptStart(r, generation, t) ==
    /\ run[r].state = "Created"
    /\ generation \in 1..Host(r).generation
    /\ t < GrantExpiry[r] /\ t < Deadline[r]
    /\ run' = [run EXCEPT ![r].state = "WaitingForLease", ![r].generation = generation]
    /\ UNCHANGED <<clock, lease, view, capsule, worker, node, evidence, outside>>

\* An ambiguous acquisition is recorded once.
RecordReconciliation(r) ==
    /\ run[r].state = "WaitingForLease"
    /\ run' = [run EXCEPT ![r].state = "Reconciling"]
    /\ UNCHANGED <<clock, lease, view, capsule, worker, node, evidence, outside>>

EligibleForLease(n, r, t) ==
    /\ n.generation = run[r].generation
    /\ n.ready /\ ~n.quarantined /\ n.occupancy = "Unoccupied"
    /\ t < n.expires

CommitLease(r, t) ==
    /\ BeforeLease(r)
    /\ t < Deadline[r] /\ t < LeaseAcquireBy(r)
    /\ EligibleForLease(Host(r), r, t)
    /\ run' = [run EXCEPT ![r].state = "PreparingPrerequisites"]
    /\ lease' = [lease EXCEPT ![r] =
          [status |-> "Active", generation |-> 1,
           expires |-> Earliest({t + LeaseTTL, Deadline[r], LeaseAcquireBy(r), Host(r).expires}),
           sandbox |-> Host(r).sandbox + 1,
           sandboxFence |-> Host(r).sandboxFence + 1]]
    /\ node' = [node EXCEPT ![NodeOf[r]].occupancy = "Occupied", ![NodeOf[r]].active = r]
    /\ UNCHANGED <<clock, view, capsule, worker, evidence, outside>>

Decided(r, outcome) == [run EXCEPT ![r].state = "Terminal", ![r].outcome = outcome]

\* Variant: the deadline is not looked at once an acquisition is ambiguous.
EndOnlyWaiting(r, outcome) ==
    /\ run[r].state = "WaitingForLease"
    /\ outcome = "TimedOut" => clock >= Deadline[r]
    /\ run' = Decided(r, outcome)
    /\ evidence' = evidence \cup {Evidence("Fenced", r, TRUE), Evidence("NoLease", r, TRUE)}
    /\ UNCHANGED <<clock, lease, view, capsule, worker, node, outside>>

\* The deadline, a permanent failure or lapsed admission, or a cancellation.
EndBeforeLease(r, outcome) ==
    /\ BeforeLease(r)
    /\ outcome \in {"TimedOut", "Rejected", "Cancelled"}
    /\ outcome = "TimedOut" => clock >= Deadline[r]
    /\ run' = Decided(r, outcome)
    /\ evidence' = evidence \cup {Evidence("Fenced", r, TRUE), Evidence("NoLease", r, TRUE)}
    /\ UNCHANGED <<clock, lease, view, capsule, worker, node, outside>>

-----------------------------------------------------------------------------
(* Prerequisites: the runtime view. *)

Preparing(r) == run[r].state = "PreparingPrerequisites" /\ Active(r)

\* The request is retained with the lease generation of its first attempt and
\* replayed as it is.
OpenView(r) ==
    /\ Preparing(r)
    /\ view[r].state \in {"Pending", "InDoubt"}
    /\ opening[r] # "Asking"
    /\ opening' = [opening EXCEPT ![r] = "Asking"]
    /\ view' = IF view[r].state = "InDoubt" THEN view
               ELSE [view EXCEPT ![r].state = "InDoubt", ![r].generation = lease[r].generation]
    /\ UNCHANGED <<clock, run, lease, capsule, worker, node, evidence,
                   workspaceView, process, claim>>

\* C04 takes a request it was sent, perhaps after its sender has gone.
WorkspaceAnswers(r, answer) ==
    /\ view[r].state = "InDoubt"
    /\ workspaceView[r] = "None"
    /\ answer = "Refused" => "Refuse" \in Faults
    /\ workspaceView' = [workspaceView EXCEPT ![r] = answer]
    /\ UNCHANGED <<clock, runVars, node, evidence, opening, process, claim>>

DelivererDies(r) ==
    /\ "Crash" \in Faults
    /\ opening[r] = "Asking"
    /\ opening' = [opening EXCEPT ![r] = "Dead"]
    /\ UNCHANGED <<clock, runVars, node, evidence, workspaceView, process, claim>>

\* Variant: only a decided run owes C04 anything.
ObligationOfDecided(r) ==
    CASE run[r].outcome = "Cancelled" -> "Fence"
      [] run[r].outcome \in {"Rejected", "TimedOut", "Failed"} -> "Discard"
      [] OTHER -> "None"

\* What C04 is to be told once the run is over.
ViewObligation(r) ==
    CASE run[r].state = "Stopping" -> "Fence"
      [] run[r].outcome = "Cancelled" -> "Fence"
      [] run[r].outcome \in {"Rejected", "TimedOut", "Failed"} -> "Discard"
      [] OTHER -> "None"

\* Variant: a late acceptance is dropped.
PersistWhilePreparing(r) ==
    /\ opening[r] = "Asking" /\ workspaceView[r] # "None"
    /\ opening' = [opening EXCEPT ![r] = "Idle"]
    /\ view' = IF view[r].state = "InDoubt" /\ Preparing(r)
               THEN [view EXCEPT ![r].state =
                        IF workspaceView[r] = "Refused" THEN "Rejected" ELSE "Accepted"]
               ELSE view
    /\ UNCHANGED <<clock, run, lease, capsule, worker, node, evidence,
                   workspaceView, process, claim>>

\* The answer is persisted while the run still prepares; an accepted view also
\* later, and then with what C04 must be told.
PersistView(r) ==
    /\ opening[r] = "Asking"
    /\ workspaceView[r] # "None"
    /\ opening' = [opening EXCEPT ![r] = "Idle"]
    /\ view' =
          IF view[r].state # "InDoubt" THEN view
          ELSE IF Preparing(r)
               THEN [view EXCEPT ![r].state =
                        IF workspaceView[r] = "Refused" THEN "Rejected" ELSE "Accepted"]
          ELSE IF workspaceView[r] # "Refused" /\ ViewObligation(r) # "None"
               THEN [view EXCEPT ![r].state = "Accepted", ![r].terminal = ViewObligation(r)]
          ELSE view
    /\ UNCHANGED <<clock, run, lease, capsule, worker, node, evidence,
                   workspaceView, process, claim>>

\* Retaining the obligation and delivering it are two steps: the first is what
\* a reset waits for.
RetainViewTerminal(r) ==
    /\ view[r].state = "Accepted" /\ view[r].terminal = "None"
    /\ ViewObligation(r) # "None"
    /\ view' = [view EXCEPT ![r].terminal = ViewObligation(r)]
    /\ UNCHANGED <<clock, run, lease, capsule, worker, node, evidence, outside>>

DeliverViewTerminal(r) ==
    /\ view[r].terminal # "None"
    /\ workspaceView[r] = "Open"
    /\ workspaceView' = [workspaceView EXCEPT ![r] = "Closed"]
    /\ UNCHANGED <<clock, runVars, node, evidence, opening, process, claim>>

-----------------------------------------------------------------------------
(* The capsule, its dispatch and the worker. *)

\* Variant: an accepted view serves whatever lease generation it was opened for.
ViewOfAnyGeneration(r) == view[r].state \in {"NotApplicable", "Accepted"}

ViewSatisfied(r) ==
    \/ view[r].state = "NotApplicable"
    \/ view[r].state = "Accepted" /\ view[r].generation = lease[r].generation

PrerequisitesReady(r) == Active(r) /\ clock < lease[r].expires /\ ViewSatisfied(r)

PrepareCapsule(r) ==
    /\ capsule[r].generation = 0
    /\ run[r].state = "PreparingPrerequisites"
    /\ PrerequisitesReady(r)
    /\ capsule' = [capsule EXCEPT ![r].generation = lease[r].generation]
    /\ UNCHANGED <<clock, run, lease, view, worker, node, evidence, outside>>

DispatchCurrent(r) ==
    /\ run[r].state = "PreparingPrerequisites"
    /\ clock < Deadline[r]
    /\ PrerequisitesReady(r)
    /\ capsule[r].generation = lease[r].generation

ClaimDispatch(r) ==
    /\ DispatchCurrent(r) /\ ~capsule[r].claimed
    /\ capsule' = [capsule EXCEPT ![r].claimed = TRUE]
    /\ UNCHANGED <<clock, run, lease, view, worker, node, evidence, outside>>

\* The worker starts its processes before the transaction that calls it commits.
AcceptWorker(r, committed) ==
    /\ DispatchCurrent(r) /\ capsule[r].claimed
    /\ process' = [process EXCEPT ![r] = "Running"]
    /\ IF committed
       THEN /\ run' = [run EXCEPT ![r].state = "Starting"]
            /\ worker' = [worker EXCEPT ![r].status = "Accepted"]
       ELSE UNCHANGED <<run, worker>>
    /\ UNCHANGED <<clock, lease, view, capsule, node, evidence, opening, workspaceView, claim>>

StopProcess(r) ==
    /\ process[r] = "Running"
    /\ process' = [process EXCEPT ![r] = "Stopped"]
    /\ UNCHANGED <<clock, runVars, node, evidence, opening, workspaceView, claim>>

ObserveCurrent(r) ==
    /\ worker[r].status \in {"Accepted", "Running"}
    /\ run[r].outcome = "None" /\ run[r].state \notin {"Stopping", "Terminal"}
    /\ clock < Deadline[r]
    /\ Active(r) /\ clock < lease[r].expires

\* A result is bound to the lease generation it was observed under.
Observe(r, kind) ==
    /\ ObserveCurrent(r)
    /\ run' = [run EXCEPT ![r].state = IF kind = "Running" THEN "Running" ELSE "Reconciling"]
    /\ worker' = [worker EXCEPT ![r] =
          [status |-> kind, candidate |-> IF kind = "Running" THEN 0 ELSE lease[r].generation]]
    /\ UNCHANGED <<clock, lease, view, capsule, node, evidence, outside>>

-----------------------------------------------------------------------------
(* The end of a lease. *)

Withdrawn(r, status) ==
    [lease EXCEPT ![r].status = status, ![r].generation = @ + 1, ![r].sandboxFence = @ + 1]

Contained(n) == [node EXCEPT ![n].occupancy = "Unknown", ![n].quarantined = TRUE]

\* The lease and the node of a terminal decision taken under an active lease.
EndUnderLease(r, outcome) ==
    /\ Host(r).active = r /\ Host(r).occupancy = "Occupied"
    /\ run' = Decided(r, outcome)
    /\ lease' = Withdrawn(r, "Revoked")
    /\ node' = Contained(NodeOf[r])
    /\ evidence' = evidence \cup {Evidence("Fenced", r, TRUE)}
    /\ UNCHANGED <<clock, view, capsule, worker, outside>>

\* The states a cancellation under an active lease is taken in.
CancelStates == {"PreparingPrerequisites", "Starting", "Running", "Stopping"}

CancelLeased(r) ==
    /\ Active(r) /\ run[r].outcome = "None"
    /\ run[r].state \in CancelStates
    /\ EndUnderLease(r, "Cancelled")

\* A deadline seen, or a prerequisite rejected, before the worker was accepted.
EndPreparing(r, outcome) ==
    /\ Preparing(r)
    /\ \/ outcome = "TimedOut" /\ clock >= Deadline[r]
       \/ outcome = "Rejected"
    /\ EndUnderLease(r, outcome)

\* The digest written is that of the terminal command, not of the start.
EvidenceTerminal(r) ==
    /\ run[r].state = "Reconciling" /\ run[r].outcome = "None"
    /\ Active(r)
    /\ worker[r].status \in {"Success", "Failure"}
    /\ worker[r].candidate = lease[r].generation
    /\ run' = Decided(r, IF worker[r].status = "Success" THEN "Succeeded" ELSE "Failed")
    /\ lease' = Withdrawn(r, "Revoked")
    /\ node' = Contained(NodeOf[r])
    /\ evidence' = evidence \cup {Evidence("Fenced", r, FALSE)}
    /\ UNCHANGED <<clock, view, capsule, worker, outside>>

-----------------------------------------------------------------------------
(* Maintenance. *)

RenewalCurrent(r) ==
    /\ run[r].state # "Terminal" /\ Active(r)
    /\ Host(r).ready /\ ~Host(r).quarantined
    /\ Host(r).occupancy = "Occupied" /\ Host(r).active = r
    /\ clock < Host(r).expires /\ clock < lease[r].expires

\* The expiries a renewal may ask for.
Extensions(r) ==
    (lease[r].expires + 1) .. Earliest({Deadline[r], LeaseAcquireBy(r), Host(r).expires})

Renew(r, expires) ==
    /\ RenewalCurrent(r)
    /\ expires \in Extensions(r)
    /\ lease' = [lease EXCEPT ![r].generation = @ + 1, ![r].expires = expires]
    /\ UNCHANGED <<clock, run, view, capsule, worker, node, evidence, outside>>

FenceReasons == {"Revoked", "Expired", "NodeLost"}

\* Variant: a fence does not ask whether the lease still serves.
FenceAnyLease(r, reason) ==
    /\ Host(r).active = r
    /\ reason = "Expired" => clock >= lease[r].expires
    /\ run' = [run EXCEPT ![r].state = "Stopping"]
    /\ lease' = Withdrawn(r, IF reason = "Expired" THEN "Expired" ELSE "Revoked")
    /\ node' = [Contained(NodeOf[r]) EXCEPT ![NodeOf[r]].ready = (@ /\ reason = "Revoked")]
    /\ evidence' = evidence \cup {Evidence("Fenced", r, TRUE)}
    /\ UNCHANGED <<clock, view, capsule, worker, outside>>

Fence(r, reason) ==
    /\ Active(r) /\ Host(r).active = r
    /\ reason = "Expired" => clock >= lease[r].expires
    /\ run' = [run EXCEPT ![r].state = "Stopping"]
    /\ lease' = Withdrawn(r, IF reason = "Expired" THEN "Expired" ELSE "Revoked")
    /\ node' = [Contained(NodeOf[r]) EXCEPT ![NodeOf[r]].ready = (@ /\ reason = "Revoked")]
    /\ evidence' = evidence \cup {Evidence("Fenced", r, TRUE)}
    /\ UNCHANGED <<clock, view, capsule, worker, outside>>

\* The node agent finds nothing of the run left and composes the evidence of it.
ComposeReset(r) ==
    /\ process[r] # "Running"
    /\ claim[r] # lease[r].generation
    /\ claim' = [claim EXCEPT ![r] = lease[r].generation]
    /\ UNCHANGED <<clock, runVars, node, evidence, opening, workspaceView, process>>

\* cleanup.FenceRuntimeView: whether the reset waits for the view to be fenced.
FencesView(r) == run[r].state = "Stopping" \/ run[r].outcome = "Cancelled"

\* Variant: an unanswered view request counts as no view.
ViewSettledInDoubt(r) ==
    (FencesView(r) /\ view[r].state = "Accepted") => view[r].terminal = "Fence"

ViewSettled(r) ==
    /\ view[r].state # "InDoubt"
    /\ (FencesView(r) /\ view[r].state = "Accepted") => view[r].terminal = "Fence"

\* Loading a decided run takes its terminal command for its start, unless a
\* capsule retains the start.
StartRetained(r) == run[r].outcome = "None" \/ capsule[r].generation # 0

Freed(r, sandbox, fence) ==
    [node EXCEPT ![NodeOf[r]].occupancy = "Unoccupied", ![NodeOf[r]].active = None,
                 ![NodeOf[r]].sandbox = sandbox, ![NodeOf[r]].sandboxFence = fence]

\* Variant: the node does not carry the last sandbox to the next grant.
ConfirmForgetsSandbox(r) ==
    /\ lease[r].status \in {"Revoked", "Expired"}
    /\ claim[r] = lease[r].generation
    /\ ViewSettled(r)
    /\ Host(r).active = r
    /\ lease' = Withdrawn(r, "Released")
    /\ node' = Freed(r, Host(r).sandbox, Host(r).sandboxFence)
    /\ evidence' = evidence \cup {Evidence("Release", r, StartRetained(r))}
    /\ UNCHANGED <<clock, run, view, capsule, worker, outside>>

ConfirmReset(r) ==
    /\ lease[r].status \in {"Revoked", "Expired"}
    /\ claim[r] = lease[r].generation
    /\ ViewSettled(r)
    /\ Host(r).active = r
    /\ lease' = Withdrawn(r, "Released")
    /\ node' = Freed(r, lease[r].sandbox, lease[r].sandboxFence + 1)
    /\ evidence' = evidence \cup {Evidence("Release", r, StartRetained(r))}
    /\ UNCHANGED <<clock, run, view, capsule, worker, outside>>

\* Only a quarantined node is attested again.
AttestNode(n, generation) ==
    /\ node[n].quarantined /\ node[n].occupancy = "Unoccupied"
    /\ generation \in {node[n].generation, node[n].generation + 1}
    /\ generation <= MaxNodeGeneration
    /\ node' = [node EXCEPT ![n].generation = generation, ![n].ready = TRUE,
                            ![n].quarantined = FALSE, ![n].expires = clock + NodeTTL]
    /\ UNCHANGED <<clock, runVars, evidence, outside>>

-----------------------------------------------------------------------------

RunSteps(r) ==
    \/ \E t \in RecentTimes : CommitLease(r, t)
    \/ \E t \in RecentTimes, g \in 1..MaxNodeGeneration : AcceptStart(r, g, t)
    \/ RecordReconciliation(r)
    \/ \E outcome \in Outcomes : EndBeforeLease(r, outcome) \/ EndPreparing(r, outcome)
    \/ CancelLeased(r)
    \/ EvidenceTerminal(r)

ViewSteps(r) ==
    \/ OpenView(r)
    \/ \E answer \in {"Open", "Refused"} : WorkspaceAnswers(r, answer)
    \/ DelivererDies(r)
    \/ PersistView(r)
    \/ RetainViewTerminal(r)
    \/ DeliverViewTerminal(r)

WorkerSteps(r) ==
    \/ PrepareCapsule(r)
    \/ ClaimDispatch(r)
    \/ \E committed \in BOOLEAN : AcceptWorker(r, committed)
    \/ StopProcess(r)
    \/ \E kind \in {"Running", "Success", "Failure"} : Observe(r, kind)

MaintenanceSteps(r) ==
    \/ \E expires \in Extensions(r) : Renew(r, expires)
    \/ \E reason \in FenceReasons : Fence(r, reason)
    \/ ComposeReset(r)
    \/ ConfirmReset(r)

Next ==
    \/ Tick
    \/ \E r \in Runs : RunSteps(r) \/ ViewSteps(r) \/ WorkerSteps(r) \/ MaintenanceSteps(r)
    \/ \E n \in Nodes, g \in 1..MaxNodeGeneration : AttestNode(n, g)

Spec == Init /\ [][Next]_vars

(* What the end of a lease rests on: time passes, C04 answers, the deliverer   *)
(* that asked it takes the answer, the maintenance driver and the node agent   *)
(* poll, and a lease or a wait out of time is ended.  Nothing is assumed of    *)
(* the worker's results, of cancellations or of new leases.                    *)
ViewFairness(r) ==
    /\ WF_vars(WorkspaceAnswers(r, "Open"))
    /\ WF_vars(PersistView(r))
    /\ WF_vars(RetainViewTerminal(r))
    /\ WF_vars(DeliverViewTerminal(r))

ResetFairness(r) ==
    /\ WF_vars(Fence(r, "Expired"))
    /\ WF_vars(StopProcess(r))
    /\ WF_vars(ComposeReset(r))
    /\ WF_vars(ConfirmReset(r))

DriverFairness(r) == WF_vars(EndBeforeLease(r, "TimedOut"))

LiveSpec ==
    /\ Spec
    /\ WF_vars(Tick)
    /\ \A r \in Runs : ViewFairness(r) /\ ResetFairness(r) /\ DriverFairness(r)
    /\ \A n \in Nodes : WF_vars(AttestNode(n, node[n].generation))

-----------------------------------------------------------------------------
(* Safety. *)

\* Types of the variables: records as runtimeRecord and ExecutionNodeFixture
\* hold them.
TypeOK ==
    /\ clock \in 0..MaxTime
    /\ \A r \in Runs :
          /\ run[r].state \in RunStates /\ run[r].outcome \in Outcomes
          /\ run[r].generation \in 0..MaxNodeGeneration
          /\ lease[r].status \in LeaseStates
          /\ lease[r].generation \in Nat /\ lease[r].expires \in Nat
          /\ lease[r].sandbox \in Nat /\ lease[r].sandboxFence \in Nat
          /\ view[r].state \in ViewStates /\ view[r].generation \in Nat
          /\ view[r].terminal \in {"None", "Fence", "Discard"}
          /\ capsule[r] \in [generation : Nat, claimed : BOOLEAN]
          /\ worker[r].status \in {"None", "Accepted", "Running", "Success", "Failure"}
          /\ worker[r].candidate \in Nat
          /\ workspaceView[r] \in {"None", "Open", "Refused", "Closed"}
          /\ process[r] \in {"None", "Running", "Stopped"}
          /\ claim[r] \in Nat
    /\ \A n \in Nodes :
          /\ node[n].ready \in BOOLEAN /\ node[n].quarantined \in BOOLEAN
          /\ node[n].occupancy \in {"Unoccupied", "Occupied", "Unknown"}
          /\ node[n].active \in Runs \cup {None}
          /\ node[n].generation \in 1..MaxNodeGeneration
          /\ node[n].expires \in Nat
          /\ node[n].sandbox \in Nat /\ node[n].sandboxFence \in Nat
    /\ \A e \in evidence : e \in [kind : {"Fenced", "NoLease", "Release"}, run : Runs,
                                  exact : BOOLEAN]
    /\ opening \in [Runs -> {"Idle", "Asking", "Dead"}]

\* A process of a run is only ever on a node that is still the run's: reset
\* evidence composed before the fence, while a worker could still be started,
\* does not free the node (validSandboxResetTransition compares the lease
\* generation the evidence was composed for).
ProcessConfined ==
    \A r \in Runs : process[r] = "Running" => /\ Host(r).active = r
                                              /\ lease[r].status # "Released"

\* Two leases of one node never have the same sandbox generation, and the later
\* sandbox is fenced above everything the earlier one reached: the node carries
\* LastSandboxGeneration and LastSandboxFence from a reset to the next grant.
SandboxNeverReused ==
    \A r, s \in Runs :
        /\ r # s /\ NodeOf[r] = NodeOf[s]
        /\ lease[r].status # "None" /\ lease[s].status # "None"
        /\ lease[r].sandbox <= lease[s].sandbox
        => /\ lease[r].sandbox < lease[s].sandbox
           /\ lease[r].sandboxFence < lease[s].sandboxFence

\* The invariant run lease_pair checks of a node's successive sandboxes: no
\* process outlives its lease on the node and no sandbox is used twice.
SandboxesConfined == ProcessConfined /\ SandboxNeverReused

\* A node is reset only when C03 knows what became of the run's view: after the
\* reset of a run that must be fenced no view is open that C04 has not been
\* asked in a retained request to fence.
NoOrphanView ==
    \A r \in Runs :
        lease[r].status = "Released" =>
            /\ view[r].state # "InDoubt"
            /\ workspaceView[r] = "Open" =>
                  /\ view[r].state = "Accepted"
                  /\ FencesView(r) => view[r].terminal = "Fence"

\* The invariant run lease_single checks: the record is well formed and
\* (confirmPostgresSandboxReset) no reset leaves a view behind.
LeaseInvariant == TypeOK /\ NoOrphanView

\* A worker is started only under the lease its run holds now and, for a
\* mutating run, on a view opened for exactly that lease: a view of an earlier
\* lease generation, a lapsed lease or a node given to another run never sees
\* a start.
StartsUnderCurrentLease ==
    [][\A r \in Runs :
          (process[r] # "Running" /\ process'[r] = "Running") =>
              /\ Active(r) /\ clock < lease[r].expires /\ Host(r).active = r
              /\ r \in Mutating => /\ workspaceView[r] = "Open"
                                   /\ view[r].generation = lease[r].generation]_vars

\* Late observations, renewals and decisions change nothing that is over: an
\* ended lease never serves again, a fenced run is only decided, a decided run
\* keeps its decision.
DecisionsStand ==
    [][\A r \in Runs :
          /\ lease[r].status \in {"Revoked", "Expired"} =>
                lease'[r].status \in {lease[r].status, "Released"}
          /\ lease[r].status = "Released" => lease'[r] = lease[r]
          /\ run[r].state = "Stopping" => run'[r].state \in {"Stopping", "Terminal"}
          /\ run[r].outcome # "None" => run'[r] = run[r]]_vars

-----------------------------------------------------------------------------
(* Liveness. *)

\* The deliverer of the open request died, or the workspace refused after the
\* lease had ended, and nobody asks again: C03 never learns what became of the
\* view and refuses every reset.
LeftInDoubt(r) ==
    <>[](/\ view[r].state = "InDoubt"
         /\ opening[r] = "Dead" \/ workspaceView[r] = "Refused")

\* Every lease is fenced and its node reset, whatever the worker, the view or a
\* canceller did in between, unless the view is left in doubt.
LeaseEventuallyReleased ==
    \A r \in Runs : LeftInDoubt(r) \/ (Active(r) ~> lease[r].status = "Released")

\* No view stays open for a run that is over and did not succeed: C04 is told
\* even when its acceptance arrives after the end.
ViewsClose ==
    \A r \in Runs :
        \/ LeftInDoubt(r)
        \/ (workspaceView[r] = "Open" /\ ViewObligation(r) # "None")
               ~> workspaceView[r] = "Closed"

\* A run that waits gets its lease or ends, also when its acquisition stays
\* ambiguous or its node's attestation lapses while it waits.
WaitingResolves ==
    \A r \in Runs : BeforeLease(r) ~> (lease[r].status # "None" \/ run[r].outcome # "None")

-----------------------------------------------------------------------------
(* Refinement. *)

Phase(r) ==
    CASE Active(r) -> "Leased"
      [] lease[r].status \in {"Revoked", "Expired"} -> "Fenced"
      [] lease[r].status = "Released" -> "Reset"
      [] lease[r].status = "None" /\ run[r].state = "Created" -> "Created"
      [] lease[r].status = "None" /\ run[r].state = "Terminal" -> "Ended"
      [] OTHER -> "Waiting"

Contract == INSTANCE RunContract WITH
    phase <- [r \in Runs |-> Phase(r)],
    holder <- [n \in {NodeOf[r] : r \in Runs} |-> node[n].active],
    facts <- {<<e.kind, e.run>> : e \in evidence}

\* What the Scheduler relies on: one lease per run, one run per node from grant
\* to reset, and each capacity fact committed with the one step it is about.
KeepsContract == Contract!ContractSpec

-----------------------------------------------------------------------------
(* What the documentation says and the code does not keep. *)

\* docs: RuntimeFencedOrTerminal is bound to the start operation and digest.
FencedEvidenceExact == \A e \in evidence : e.kind = "Fenced" => e.exact

\* A retained worker result can be turned into the terminal decision as long as
\* the lease it was observed under is the run's.
ResultIngestible ==
    \A r \in Runs : (worker[r].status \in {"Success", "Failure"} /\ Active(r)) =>
        worker[r].candidate = lease[r].generation

\* docs: an ambiguous view request is replayed until its outcome is known.
ViewDoubtResolves == \A r \in Runs : view[r].state = "InDoubt" ~> view[r].state # "InDoubt"

=============================================================================
