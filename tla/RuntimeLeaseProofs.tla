-------------------------- MODULE RuntimeLeaseProofs --------------------------
(* For every set of runs and nodes and any bounds: a node serves one run from   *)
(* its lease to its reset, no process outlives that, no sandbox is used twice,  *)
(* no reset leaves a view behind, and C03 keeps its contract with the           *)
(* Scheduler.                                                                   *)
EXTENDS RuntimeLease, TLAPS

Held(r) == lease[r].status \in {"Active", "Revoked", "Expired"}

\* TypeOK with the shape of each variable.
RunRecords == [state : RunStates, outcome : Outcomes, generation : 0..MaxNodeGeneration]
LeaseRecords == [status : LeaseStates, generation : Nat, expires : Nat,
                 sandbox : Nat, sandboxFence : Nat]
ViewRecords == [state : ViewStates, generation : Nat, terminal : {"None", "Fence", "Discard"}]
CapsuleRecords == [generation : Nat, claimed : BOOLEAN]
WorkerRecords == [status : {"None", "Accepted", "Running", "Success", "Failure"}, candidate : Nat]
NodeRecords == [ready : BOOLEAN, quarantined : BOOLEAN,
                occupancy : {"Unoccupied", "Occupied", "Unknown"},
                active : Runs \cup {None}, generation : 1..MaxNodeGeneration,
                expires : Nat, sandbox : Nat, sandboxFence : Nat]
EvidenceRecords == [kind : {"Fenced", "NoLease", "Release"}, run : Runs, exact : BOOLEAN]

Types ==
    /\ clock \in 0..MaxTime
    /\ run \in [Runs -> RunRecords]
    /\ lease \in [Runs -> LeaseRecords]
    /\ view \in [Runs -> ViewRecords]
    /\ capsule \in [Runs -> CapsuleRecords]
    /\ worker \in [Runs -> WorkerRecords]
    /\ node \in [Nodes -> NodeRecords]
    /\ evidence \subseteq EvidenceRecords
    /\ opening \in [Runs -> {"Idle", "Asking", "Dead"}]
    /\ workspaceView \in [Runs -> {"None", "Open", "Refused", "Closed"}]
    /\ process \in [Runs -> {"None", "Running", "Stopped"}]
    /\ claim \in [Runs -> Nat]

\* How far a run is and whether it has a lease.
RunShape(r) ==
    /\ run[r].state = "Terminal" <=> run[r].outcome # "None"
    /\ run[r].state \in {"Created", "WaitingForLease"} => lease[r].status = "None"
    /\ Active(r) => run[r].state \in {"PreparingPrerequisites", "Starting", "Running",
                                      "Reconciling"}

\* Processes run under a lease; reset evidence of the lease generation that a
\* fence produced was composed after they were stopped.
ProcessShape(r) ==
    /\ lease[r].status = "None" => lease[r].generation = 0
    /\ claim[r] <= lease[r].generation
    /\ process[r] = "Running" => Held(r) /\ (~Active(r) => claim[r] < lease[r].generation)

\* What C03 retains of a view and what C04 holds.
ViewShape(r) ==
    /\ view[r].state = "NotApplicable" => r \notin Mutating
    /\ view[r].state \in {"NotApplicable", "Pending"} => workspaceView[r] = "None"
    /\ view[r].state = "Accepted" => workspaceView[r] \in {"Open", "Closed"}
    /\ view[r].state = "Rejected" => workspaceView[r] = "Refused"
    /\ view[r].terminal # "None" => run[r].state = "Stopping" \/ run[r].outcome # "None"
    /\ workspaceView[r] = "Closed" => view[r].terminal # "None"

\* A node is its run's from the lease to the reset.
Custody ==
    /\ \A r \in Runs : Held(r) => Host(r).active = r
    /\ \A n \in Nodes : node[n].active # None =>
          /\ node[n].occupancy # "Unoccupied"
          /\ NodeOf[node[n].active] = n /\ Held(node[n].active)

\* The node carries the last sandbox to the next lease.
Carried ==
    \A r \in Runs :
        /\ lease[r].status = "Released" => /\ lease[r].sandbox <= Host(r).sandbox
                                           /\ lease[r].sandboxFence <= Host(r).sandboxFence
        /\ Held(r) => /\ lease[r].sandbox = Host(r).sandbox + 1
                      /\ lease[r].sandboxFence > Host(r).sandboxFence

IInv ==
    /\ Types
    /\ \A r \in Runs : RunShape(r) /\ ProcessShape(r) /\ ViewShape(r)
    /\ Custody
    /\ Carried
    /\ SandboxNeverReused
    /\ NoOrphanView

-----------------------------------------------------------------------------
(* Types. *)

\* The earliest of some times is one of them.
LEMMA EarliestOfTwo ==
    ASSUME NEW a \in Nat, NEW b \in Nat PROVE Earliest({a, b}) \in Nat
<1>1. \E t \in {a, b} : \A u \in {a, b} : t <= u
  OBVIOUS
<1> QED
  BY <1>1 DEF Earliest

LEMMA EarliestOfFour ==
    ASSUME NEW a \in Nat, NEW b \in Nat, NEW c \in Nat, NEW d \in Nat
    PROVE Earliest({a, b, c, d}) \in Nat
<1>1. \E t \in {a, b, c, d} : \A u \in {a, b, c, d} : t <= u
  OBVIOUS
<1> QED
  BY <1>1 DEF Earliest

\* Nothing has happened.
LEMMA LeaseStarts == Init => IInv
<1> SUFFICES ASSUME Init PROVE IInv
  OBVIOUS
<1> USE LeaseConstants DEF Init
<1>1. Types
  BY DEF Types, NoLease, AttestedNode, RunStates, Outcomes, LeaseStates, ViewStates, RunRecords,
         LeaseRecords, ViewRecords, CapsuleRecords, WorkerRecords, NodeRecords
<1>2. \A r \in Runs : RunShape(r) /\ ProcessShape(r) /\ ViewShape(r)
  BY DEF RunShape, ProcessShape, ViewShape, Held, Active, NoLease
<1>3. Custody /\ Carried /\ SandboxNeverReused /\ NoOrphanView
  BY DEF Custody, Carried, SandboxNeverReused, NoOrphanView, Held, NoLease, AttestedNode
<1> QED
  BY <1>1, <1>2, <1>3 DEF IInv

\* Times a command may carry, and the lease they give.
LEMMA LeaseTimes ==
    ASSUME Types, NEW r \in Runs, NEW t \in RecentTimes
    PROVE Earliest({t + LeaseTTL, Deadline[r], LeaseAcquireBy(r), Host(r).expires}) \in Nat
<1>1. t \in Nat
  BY DEF Types, RecentTimes
<1>2. LeaseAcquireBy(r) \in Nat
  BY LeaseConstants, EarliestOfTwo DEF LeaseAcquireBy
<1>3. Host(r).expires \in Nat
  BY LeaseConstants DEF Types, Host, NodeRecords
<1>4. t + LeaseTTL \in Nat /\ Deadline[r] \in Nat
  BY <1>1, LeaseConstants
<1> QED
  BY <1>2, <1>3, <1>4, EarliestOfFour

\* What a step writes is of its type.
LEMMA RunWrites ==
    ASSUME run \in [Runs -> RunRecords], NEW r \in Runs, NEW s \in RunStates
    PROVE /\ [run EXCEPT ![r].state = s] \in [Runs -> RunRecords]
          /\ \A o \in Outcomes :
                [run EXCEPT ![r].state = s, ![r].outcome = o] \in [Runs -> RunRecords]
          /\ \A g \in 0..MaxNodeGeneration :
                [run EXCEPT ![r].state = s, ![r].generation = g] \in [Runs -> RunRecords]
BY DEF RunRecords

LEMMA LeaseWrites ==
    ASSUME lease \in [Runs -> LeaseRecords], NEW r \in Runs, NEW s \in LeaseStates,
           NEW g \in Nat, NEW f \in Nat
    PROVE [lease EXCEPT ![r].status = s, ![r].generation = g, ![r].sandboxFence = f]
             \in [Runs -> LeaseRecords]
BY DEF LeaseRecords

LEMMA WithdrawnTyped ==
    ASSUME lease \in [Runs -> LeaseRecords], NEW r \in Runs, NEW s \in LeaseStates
    PROVE Withdrawn(r, s) \in [Runs -> LeaseRecords]
<1>1. lease[r].generation + 1 \in Nat /\ lease[r].sandboxFence + 1 \in Nat
  BY DEF LeaseRecords
<1>2. Withdrawn(r, s) = [lease EXCEPT ![r].status = s, ![r].generation = lease[r].generation + 1,
                                      ![r].sandboxFence = lease[r].sandboxFence + 1]
  BY DEF Withdrawn, LeaseRecords
<1> DEFINE g == lease[r].generation + 1
           f == lease[r].sandboxFence + 1
<1>3. g \in Nat /\ f \in Nat
  BY <1>1
<1>4. Withdrawn(r, s) = [lease EXCEPT ![r].status = s, ![r].generation = g, ![r].sandboxFence = f]
  BY <1>2
<1> HIDE DEF g, f
<1>5. [lease EXCEPT ![r].status = s, ![r].generation = g, ![r].sandboxFence = f]
         \in [Runs -> LeaseRecords]
  BY <1>3, LeaseWrites
<1> QED
  BY <1>4, <1>5

LEMMA ViewWrites ==
    ASSUME view \in [Runs -> ViewRecords], NEW r \in Runs, NEW s \in ViewStates, NEW g \in Nat,
           NEW t \in {"Fence", "Discard"}
    PROVE /\ [view EXCEPT ![r].state = s] \in [Runs -> ViewRecords]
          /\ [view EXCEPT ![r].state = s, ![r].generation = g] \in [Runs -> ViewRecords]
          /\ [view EXCEPT ![r].state = s, ![r].terminal = t] \in [Runs -> ViewRecords]
          /\ [view EXCEPT ![r].terminal = t] \in [Runs -> ViewRecords]
BY DEF ViewRecords

LEMMA CapsuleWrites ==
    ASSUME capsule \in [Runs -> CapsuleRecords], NEW r \in Runs, NEW g \in Nat
    PROVE /\ [capsule EXCEPT ![r].generation = g] \in [Runs -> CapsuleRecords]
          /\ [capsule EXCEPT ![r].claimed = TRUE] \in [Runs -> CapsuleRecords]
BY DEF CapsuleRecords

LEMMA ContainedTyped ==
    ASSUME node \in [Nodes -> NodeRecords], NEW n \in Nodes
    PROVE Contained(n) \in [Nodes -> NodeRecords]
BY DEF Contained, NodeRecords

LEMMA NodeWrites ==
    ASSUME NEW f \in [Nodes -> NodeRecords], NEW n \in Nodes, NEW b \in BOOLEAN, NEW i \in Nat
    PROVE /\ [f EXCEPT ![n].ready = b] \in [Nodes -> NodeRecords]
          /\ [f EXCEPT ![n].quarantined = b] \in [Nodes -> NodeRecords]
          /\ [f EXCEPT ![n].expires = i] \in [Nodes -> NodeRecords]
          /\ [f EXCEPT ![n].sandbox = i] \in [Nodes -> NodeRecords]
          /\ [f EXCEPT ![n].sandboxFence = i] \in [Nodes -> NodeRecords]
          /\ i \in 1..MaxNodeGeneration =>
                [f EXCEPT ![n].generation = i] \in [Nodes -> NodeRecords]
<1>1. [f EXCEPT ![n].ready = b] \in [Nodes -> NodeRecords]
  BY DEF NodeRecords
<1>2. [f EXCEPT ![n].quarantined = b] \in [Nodes -> NodeRecords]
  BY DEF NodeRecords
<1>3. [f EXCEPT ![n].expires = i] \in [Nodes -> NodeRecords]
  BY DEF NodeRecords
<1>4. [f EXCEPT ![n].sandbox = i] \in [Nodes -> NodeRecords]
  BY DEF NodeRecords
<1>5. [f EXCEPT ![n].sandboxFence = i] \in [Nodes -> NodeRecords]
  BY DEF NodeRecords
<1>6. i \in 1..MaxNodeGeneration => [f EXCEPT ![n].generation = i] \in [Nodes -> NodeRecords]
  BY DEF NodeRecords
<1> QED
  BY <1>1, <1>2, <1>3, <1>4, <1>5, <1>6

LEMMA NodeGranted ==
    ASSUME node \in [Nodes -> NodeRecords], NEW n \in Nodes, NEW r \in Runs
    PROVE [node EXCEPT ![n].occupancy = "Occupied", ![n].active = r] \in [Nodes -> NodeRecords]
BY DEF NodeRecords

LEMMA NodeFreed ==
    ASSUME node \in [Nodes -> NodeRecords], NEW r \in Runs, NodeOf[r] \in Nodes,
           NEW s \in Nat, NEW f \in Nat
    PROVE Freed(r, s, f) \in [Nodes -> NodeRecords]
<1> DEFINE n == NodeOf[r]
           idle == [node EXCEPT ![n].occupancy = "Unoccupied", ![n].active = None]
           boxed == [idle EXCEPT ![n].sandbox = s]
<1>1. idle \in [Nodes -> NodeRecords]
  BY DEF NodeRecords
<1>2. Freed(r, s, f) = [boxed EXCEPT ![n].sandboxFence = f]
  BY DEF Freed
<1> HIDE DEF idle
<1>3. boxed \in [Nodes -> NodeRecords]
  BY <1>1, NodeWrites
<1> HIDE DEF boxed
<1>4. [boxed EXCEPT ![n].sandboxFence = f] \in [Nodes -> NodeRecords]
  BY <1>3, NodeWrites
<1> QED
  BY <1>2, <1>4

LEMMA NodeAttested ==
    ASSUME node \in [Nodes -> NodeRecords], NEW n \in Nodes, NEW g \in 1..MaxNodeGeneration,
           NEW e \in Nat
    PROVE [node EXCEPT ![n].generation = g, ![n].ready = TRUE, ![n].quarantined = FALSE,
                       ![n].expires = e] \in [Nodes -> NodeRecords]
<1> DEFINE first == [node EXCEPT ![n].generation = g]
           ready == [first EXCEPT ![n].ready = TRUE]
           clear == [ready EXCEPT ![n].quarantined = FALSE]
<1>1. first \in [Nodes -> NodeRecords]
  BY DEF NodeRecords
<1>2. [node EXCEPT ![n].generation = g, ![n].ready = TRUE, ![n].quarantined = FALSE,
                   ![n].expires = e] = [clear EXCEPT ![n].expires = e]
  OBVIOUS
<1> HIDE DEF first
<1>3. ready \in [Nodes -> NodeRecords]
  BY <1>1, NodeWrites
<1> HIDE DEF ready
<1>4. clear \in [Nodes -> NodeRecords]
  BY <1>3, NodeWrites
<1> HIDE DEF clear
<1>5. [clear EXCEPT ![n].expires = e] \in [Nodes -> NodeRecords]
  BY <1>4, NodeWrites
<1> QED
  BY <1>2, <1>5

LEMMA EvidenceTyped ==
    ASSUME NEW r \in Runs, NEW exact \in BOOLEAN, NEW kind \in {"Fenced", "NoLease", "Release"}
    PROVE Evidence(kind, r, exact) \in EvidenceRecords
BY DEF Evidence, EvidenceRecords

\* Every step keeps the types.
LEMMA TypesKept == Types /\ [Next]_vars => Types'
<1> SUFFICES ASSUME Types, [Next]_vars PROVE Types'
  OBVIOUS
<1> USE LeaseConstants
<1>1. CASE Tick
  BY <1>1 DEF Tick, Types, runVars, outside
<1>2. ASSUME NEW r \in Runs, NEW t \in RecentTimes, CommitLease(r, t) PROVE Types'
  <2>1. Earliest({t + LeaseTTL, Deadline[r], LeaseAcquireBy(r), Host(r).expires}) \in Nat
    BY LeaseTimes
  <2>2. Host(r).sandbox \in Nat /\ Host(r).sandboxFence \in Nat
    BY DEF Types, Host, NodeRecords
  <2>3. lease' \in [Runs -> LeaseRecords]
    BY <1>2, <2>1, <2>2 DEF CommitLease, Types, LeaseRecords, LeaseStates
  <2>4. run' \in [Runs -> RunRecords]
    BY <1>2, RunWrites DEF CommitLease, Types, RunStates
  <2>5. node' \in [Nodes -> NodeRecords]
    BY <1>2, NodeGranted DEF CommitLease, Types
  <2> QED
    BY <1>2, <2>3, <2>4, <2>5 DEF CommitLease, Types, outside
<1>3. ASSUME NEW r \in Runs, NEW t \in RecentTimes, NEW g \in 1..MaxNodeGeneration,
             AcceptStart(r, g, t)
      PROVE Types'
  <2>1. g \in 0..MaxNodeGeneration
    BY <1>3
  <2>2. run' \in [Runs -> RunRecords]
    BY <1>3, <2>1, RunWrites DEF AcceptStart, Types, RunStates
  <2> QED
    BY <1>3, <2>2 DEF AcceptStart, Types, outside
<1>4. ASSUME NEW r \in Runs, RecordReconciliation(r) PROVE Types'
  <2>1. run' \in [Runs -> RunRecords]
    BY <1>4, RunWrites DEF RecordReconciliation, Types, RunStates
  <2> QED
    BY <1>4, <2>1 DEF RecordReconciliation, Types, outside
<1>5. ASSUME NEW r \in Runs, NEW outcome \in Outcomes, EndBeforeLease(r, outcome) PROVE Types'
  <2>1. run' \in [Runs -> RunRecords]
    BY <1>5, RunWrites DEF EndBeforeLease, Decided, Types, RunStates
  <2>2. evidence' \subseteq EvidenceRecords
    BY <1>5, EvidenceTyped DEF EndBeforeLease, Types
  <2> QED
    BY <1>5, <2>1, <2>2 DEF EndBeforeLease, Types, outside
<1>6. ASSUME NEW r \in Runs, NEW outcome \in Outcomes, EndUnderLease(r, outcome) PROVE Types'
  <2>1. run' \in [Runs -> RunRecords]
    BY <1>6, RunWrites DEF EndUnderLease, Decided, Types, RunStates
  <2>2. evidence' \subseteq EvidenceRecords
    BY <1>6, EvidenceTyped DEF EndUnderLease, Types
  <2>3. lease' \in [Runs -> LeaseRecords] /\ node' \in [Nodes -> NodeRecords]
    BY <1>6, WithdrawnTyped, ContainedTyped DEF EndUnderLease, Types, LeaseStates
  <2> QED
    BY <1>6, <2>1, <2>2, <2>3 DEF EndUnderLease, Types, outside
<1>7. ASSUME NEW r \in Runs, EvidenceTerminal(r) PROVE Types'
  <2>1. run' \in [Runs -> RunRecords]
    BY <1>7, RunWrites DEF EvidenceTerminal, Decided, Types, RunStates, Outcomes
  <2>2. evidence' \subseteq EvidenceRecords
    BY <1>7, EvidenceTyped DEF EvidenceTerminal, Types
  <2>3. lease' \in [Runs -> LeaseRecords] /\ node' \in [Nodes -> NodeRecords]
    BY <1>7, WithdrawnTyped, ContainedTyped DEF EvidenceTerminal, Types, LeaseStates
  <2> QED
    BY <1>7, <2>1, <2>2, <2>3 DEF EvidenceTerminal, Types, outside
<1>8. ASSUME NEW r \in Runs, ViewSteps(r) PROVE Types'
  <2>1. CASE OpenView(r)
    <3>1. view' \in [Runs -> ViewRecords]
      BY <2>1, ViewWrites DEF OpenView, Types, ViewStates, LeaseRecords
    <3> QED
      BY <2>1, <3>1 DEF OpenView, Types
  <2>2. ASSUME NEW answer \in {"Open", "Refused"}, WorkspaceAnswers(r, answer) PROVE Types'
    BY <2>2 DEF WorkspaceAnswers, Types, runVars
  <2>3. CASE DelivererDies(r) \/ DeliverViewTerminal(r)
    BY <2>3 DEF DelivererDies, DeliverViewTerminal, Types, runVars
  <2>4. CASE PersistView(r)
    <3>1. view' \in [Runs -> ViewRecords]
      BY <2>4, ViewWrites DEF PersistView, ViewObligation, Types, ViewStates
    <3> QED
      BY <2>4, <3>1 DEF PersistView, Types
  <2>5. CASE RetainViewTerminal(r)
    <3>1. ViewObligation(r) \in {"Fence", "Discard"}
      BY <2>5 DEF RetainViewTerminal, ViewObligation
    <3>2. view' = [view EXCEPT ![r].terminal = ViewObligation(r)]
      BY <2>5 DEF RetainViewTerminal
    <3>3. view' \in [Runs -> ViewRecords]
      BY <3>1, <3>2, ViewWrites DEF Types, ViewStates
    <3> QED
      BY <2>5, <3>3 DEF RetainViewTerminal, Types, outside
  <2> QED
    BY <1>8, <2>1, <2>2, <2>3, <2>4, <2>5 DEF ViewSteps
<1>9. ASSUME NEW r \in Runs, WorkerSteps(r) PROVE Types'
  <2>1. CASE PrepareCapsule(r) \/ ClaimDispatch(r)
    <3>1. lease[r].generation \in Nat
      BY DEF Types, LeaseRecords
    <3>2. capsule' \in [Runs -> CapsuleRecords]
      <4>1. /\ [capsule EXCEPT ![r].generation = lease[r].generation] \in [Runs -> CapsuleRecords]
            /\ [capsule EXCEPT ![r].claimed = TRUE] \in [Runs -> CapsuleRecords]
        BY <3>1, CapsuleWrites DEF Types
      <4> QED
        BY <2>1, <4>1 DEF PrepareCapsule, ClaimDispatch
    <3> QED
      BY <2>1, <3>2 DEF PrepareCapsule, ClaimDispatch, Types, outside
  <2>2. ASSUME NEW committed \in BOOLEAN, AcceptWorker(r, committed) PROVE Types'
    <3>1. run' \in [Runs -> RunRecords]
      <4>1. [run EXCEPT ![r].state = "Starting"] \in [Runs -> RunRecords]
        BY RunWrites DEF Types, RunStates
      <4> QED
        BY <2>2, <4>1 DEF AcceptWorker, Types
    <3>2. worker' \in [Runs -> WorkerRecords]
      BY <2>2 DEF AcceptWorker, Types, WorkerRecords
    <3> QED
      BY <2>2, <3>1, <3>2 DEF AcceptWorker, Types
  <2>3. CASE StopProcess(r)
    BY <2>3 DEF StopProcess, Types, runVars
  <2>4. ASSUME NEW kind \in {"Running", "Success", "Failure"}, Observe(r, kind) PROVE Types'
    <3>1. run' \in [Runs -> RunRecords]
      BY <2>4, RunWrites DEF Observe, Types, RunStates
    <3>2. worker' \in [Runs -> WorkerRecords]
      BY <2>4 DEF Observe, Types, WorkerRecords, LeaseRecords
    <3> QED
      BY <2>4, <3>1, <3>2 DEF Observe, Types, outside
  <2> QED
    BY <1>9, <2>1, <2>2, <2>3, <2>4 DEF WorkerSteps
<1>10. ASSUME NEW r \in Runs, MaintenanceSteps(r) PROVE Types'
  <2>1. ASSUME NEW expires \in Extensions(r), Renew(r, expires) PROVE Types'
    <3>1. lease[r].expires \in Nat
      BY DEF Types, LeaseRecords
    <3>2. expires \in Int /\ expires >= lease[r].expires + 1
      BY <3>1 DEF Extensions
    <3>3. lease' \in [Runs -> LeaseRecords]
      BY <2>1, <3>1, <3>2 DEF Renew, Types, LeaseRecords
    <3> QED
      BY <2>1, <3>3 DEF Renew, Types, outside
  <2>2. ASSUME NEW reason \in FenceReasons, Fence(r, reason) PROVE Types'
    <3>1. run' \in [Runs -> RunRecords]
      BY <2>2, RunWrites DEF Fence, Types, RunStates
    <3>2. evidence' \subseteq EvidenceRecords
      BY <2>2, EvidenceTyped DEF Fence, Types
    <3>3. lease' \in [Runs -> LeaseRecords]
      BY <2>2, WithdrawnTyped DEF Fence, Types, LeaseStates
    <3>4. Contained(NodeOf[r]) \in [Nodes -> NodeRecords]
      BY ContainedTyped DEF Types
    <3>5. node' \in [Nodes -> NodeRecords]
      <4> DEFINE b == Contained(NodeOf[r])[NodeOf[r]].ready /\ reason = "Revoked"
      <4>1. b \in BOOLEAN
        OBVIOUS
      <4>2. node' = [Contained(NodeOf[r]) EXCEPT ![NodeOf[r]].ready = b]
        BY <2>2 DEF Fence
      <4> HIDE DEF b
      <4> QED
        BY <3>4, <4>1, <4>2, NodeWrites
    <3> QED
      BY <2>2, <3>1, <3>2, <3>3, <3>5 DEF Fence, Types, outside
  <2>3. CASE ComposeReset(r)
    BY <2>3 DEF ComposeReset, Types, runVars, LeaseRecords
  <2>4. CASE ConfirmReset(r)
    <3>1. StartRetained(r) \in BOOLEAN
      BY DEF StartRetained
    <3>2. evidence' \subseteq EvidenceRecords
      BY <2>4, <3>1, EvidenceTyped DEF ConfirmReset, Types
    <3>3. lease' \in [Runs -> LeaseRecords]
      BY <2>4, WithdrawnTyped DEF ConfirmReset, Types, LeaseStates
    <3>4. lease[r].sandbox \in Nat /\ lease[r].sandboxFence + 1 \in Nat
      BY DEF Types, LeaseRecords
    <3>5. node' \in [Nodes -> NodeRecords]
      BY <2>4, <3>4, NodeFreed DEF ConfirmReset, Types
    <3> QED
      BY <2>4, <3>2, <3>3, <3>5 DEF ConfirmReset, Types, outside
  <2> QED
    BY <1>10, <2>1, <2>2, <2>3, <2>4 DEF MaintenanceSteps
<1>11. ASSUME NEW n \in Nodes, NEW g \in 1..MaxNodeGeneration, AttestNode(n, g) PROVE Types'
  <2>1. clock + NodeTTL \in Nat
    BY DEF Types
  <2>2. node' \in [Nodes -> NodeRecords]
    <3> DEFINE e == clock + NodeTTL
    <3>1. node' = [node EXCEPT ![n].generation = g, ![n].ready = TRUE,
                               ![n].quarantined = FALSE, ![n].expires = e]
      BY <1>11 DEF AttestNode
    <3> HIDE DEF e
    <3> QED
      BY <2>1, <3>1, NodeAttested DEF Types, e
  <2> QED
    BY <1>11, <2>2 DEF AttestNode, Types, runVars, outside
<1>12. CASE UNCHANGED vars
  BY <1>12 DEF vars, Types, runVars, outside
<1> QED
  BY <1>1, <1>2, <1>3, <1>4, <1>5, <1>6, <1>7, <1>8, <1>9, <1>10, <1>11, <1>12
     DEF Next, RunSteps, EndPreparing, CancelLeased, Outcomes

-----------------------------------------------------------------------------
(* One run. *)

\* What a step makes of run s: its record, lease, view, C04's view, processes
\* and reset evidence.
Untouched(s) ==
    /\ run'[s] = run[s] /\ lease'[s] = lease[s] /\ view'[s] = view[s]
    /\ workspaceView'[s] = workspaceView[s] /\ process'[s] = process[s] /\ claim'[s] = claim[s]

RunKept(s) ==
    /\ lease'[s] = lease[s] /\ view'[s] = view[s]
    /\ workspaceView'[s] = workspaceView[s] /\ process'[s] = process[s] /\ claim'[s] = claim[s]

\* Before the lease: accepted, in doubt, or over without one.
Waits(s) ==
    /\ RunKept(s)
    /\ lease[s].status = "None" /\ run[s].outcome = "None"
    /\ run[s].state \in {"Created", "WaitingForLease", "Reconciling"}
    /\ \/ run'[s].state \in {"WaitingForLease", "Reconciling"} /\ run'[s].outcome = "None"
       \/ run'[s].state = "Terminal" /\ run'[s].outcome # "None"

LeaseGiven(s) ==
    /\ view'[s] = view[s] /\ workspaceView'[s] = workspaceView[s]
    /\ process'[s] = process[s] /\ claim'[s] = claim[s]
    /\ lease[s].status = "None" /\ run[s].outcome = "None"
    /\ run[s].state \in {"WaitingForLease", "Reconciling"}
    /\ run'[s].state = "PreparingPrerequisites" /\ run'[s].outcome = "None"
    /\ lease'[s].status = "Active" /\ lease'[s].generation = 1

\* Under the lease: the worker goes on, perhaps started, and the lease renewed.
GoesOn(s) ==
    /\ view'[s] = view[s] /\ workspaceView'[s] = workspaceView[s] /\ claim'[s] = claim[s]
    /\ Active(s) /\ lease'[s].status = "Active"
    /\ lease'[s].generation \in {lease[s].generation, lease[s].generation + 1}
    /\ run[s].outcome = "None" /\ run'[s].outcome = "None"
    /\ run[s].state # "Terminal"
    /\ run'[s].state \in {run[s].state, "Starting", "Running", "Reconciling"}
    /\ process'[s] # process[s] => process'[s] = "Running" /\ DispatchCurrent(s)

LeaseEnds(s) ==
    /\ view'[s] = view[s] /\ workspaceView'[s] = workspaceView[s]
    /\ process'[s] = process[s] /\ claim'[s] = claim[s]
    /\ Active(s)
    /\ lease'[s].status \in {"Revoked", "Expired"}
    /\ lease'[s].generation = lease[s].generation + 1
    /\ \/ run'[s].state = "Stopping" /\ run'[s].outcome = run[s].outcome
       \/ run'[s].state = "Terminal" /\ run'[s].outcome # "None"

LeaseReleased(s) ==
    /\ run'[s] = run[s] /\ view'[s] = view[s] /\ workspaceView'[s] = workspaceView[s]
    /\ process'[s] = process[s] /\ claim'[s] = claim[s]
    /\ lease[s].status \in {"Revoked", "Expired"} /\ lease'[s].status = "Released"
    /\ lease'[s].generation = lease[s].generation + 1
    /\ claim[s] = lease[s].generation
    /\ ViewSettled(s)

ProcessEnds(s) ==
    /\ run'[s] = run[s] /\ lease'[s] = lease[s] /\ view'[s] = view[s]
    /\ workspaceView'[s] = workspaceView[s]
    /\ \/ process'[s] = "Stopped" /\ claim'[s] = claim[s]
       \/ process'[s] = process[s] /\ process[s] # "Running" /\ claim'[s] = lease[s].generation

\* The view moves and nothing else.
Views(s) ==
    /\ run'[s] = run[s] /\ lease'[s] = lease[s] /\ process'[s] = process[s] /\ claim'[s] = claim[s]
    /\ \/ OpenView(s) \/ PersistView(s) \/ RetainViewTerminal(s) \/ DeliverViewTerminal(s)
       \/ \E answer \in {"Open", "Refused"} : WorkspaceAnswers(s, answer)

Shapes(s) ==
    \/ Untouched(s) \/ Waits(s) \/ LeaseGiven(s) \/ GoesOn(s) \/ LeaseEnds(s)
    \/ LeaseReleased(s) \/ ProcessEnds(s) \/ Views(s)

\* A step of a run's own decisions does one of these to a run.
LEMMA RunStepShapes ==
    ASSUME Types, NEW r \in Runs, NEW s \in Runs, RunSteps(r), RunShape(s)
    PROVE Shapes(s)
<1> USE DEF Types, RunRecords, LeaseRecords, RunShape, Shapes
<1>1. ASSUME NEW t \in RecentTimes, CommitLease(r, t) PROVE Shapes(s)
  BY <1>1 DEF CommitLease, BeforeLease, Untouched, LeaseGiven, outside
<1>2. ASSUME NEW t \in RecentTimes, NEW g \in 1..MaxNodeGeneration, AcceptStart(r, g, t)
      PROVE Shapes(s)
  BY <1>2 DEF AcceptStart, Untouched, Waits, RunKept, outside
<1>3. CASE RecordReconciliation(r)
  BY <1>3 DEF RecordReconciliation, Untouched, Waits, RunKept, outside
<1>4. ASSUME NEW outcome \in Outcomes, EndBeforeLease(r, outcome) PROVE Shapes(s)
  BY <1>4 DEF EndBeforeLease, BeforeLease, Decided, Untouched, Waits, RunKept, outside
<1>5. ASSUME NEW outcome \in Outcomes, outcome # "None", Active(r), EndUnderLease(r, outcome)
      PROVE Shapes(s)
  BY <1>5 DEF EndUnderLease, Decided, Withdrawn, Untouched, LeaseEnds, outside
<1>6. ASSUME NEW outcome \in Outcomes, EndPreparing(r, outcome) PROVE Shapes(s)
  BY <1>5, <1>6 DEF EndPreparing, Preparing
<1>7. CASE CancelLeased(r)
  BY <1>5, <1>7 DEF CancelLeased, Outcomes
<1>8. CASE EvidenceTerminal(r)
  BY <1>8 DEF EvidenceTerminal, Decided, Withdrawn, Untouched, LeaseEnds, outside
<1> QED
  BY <1>1, <1>2, <1>3, <1>4, <1>6, <1>7, <1>8 DEF RunSteps

LEMMA ViewStepShapes ==
    ASSUME Types, NEW r \in Runs, NEW s \in Runs, ViewSteps(r)
    PROVE Untouched(s) \/ Views(s)
<1>1. CASE r = s
  BY <1>1 DEF ViewSteps, Views, Untouched, OpenView, PersistView, RetainViewTerminal,
              DeliverViewTerminal, DelivererDies, WorkspaceAnswers, runVars, outside
<1>2. CASE r # s
  BY <1>2 DEF ViewSteps, Untouched, OpenView, PersistView, RetainViewTerminal,
              DeliverViewTerminal, DelivererDies, WorkspaceAnswers, runVars, outside, Types
<1> QED
  BY <1>1, <1>2

LEMMA WorkerStepShapes ==
    ASSUME Types, NEW r \in Runs, NEW s \in Runs, WorkerSteps(r), RunShape(s)
    PROVE Untouched(s) \/ GoesOn(s) \/ ProcessEnds(s)
<1> USE DEF Types, RunRecords, LeaseRecords, RunShape
<1>1. CASE PrepareCapsule(r) \/ ClaimDispatch(r)
  BY <1>1 DEF PrepareCapsule, ClaimDispatch, Untouched, outside
<1>2. ASSUME NEW committed \in BOOLEAN, AcceptWorker(r, committed)
      PROVE Untouched(s) \/ GoesOn(s)
  BY <1>2 DEF AcceptWorker, DispatchCurrent, PrerequisitesReady, Active, Untouched, GoesOn
<1>3. CASE StopProcess(r)
  BY <1>3 DEF StopProcess, Untouched, ProcessEnds, runVars
<1>4. ASSUME NEW kind \in {"Running", "Success", "Failure"}, Observe(r, kind)
      PROVE Untouched(s) \/ GoesOn(s)
  <2>1. UNCHANGED <<lease, view, workspaceView, process, claim>>
    BY <1>4 DEF Observe, outside
  <2>2. CASE s # r
    BY <1>4, <2>1, <2>2 DEF Observe, Untouched
  <2>3. CASE s = r
    BY <1>4, <2>1, <2>3 DEF Observe, ObserveCurrent, Active, GoesOn
  <2> QED
    BY <2>2, <2>3
<1> QED
  BY <1>1, <1>2, <1>3, <1>4 DEF WorkerSteps

LEMMA MaintenanceStepShapes ==
    ASSUME Types, NEW r \in Runs, NEW s \in Runs, MaintenanceSteps(r), RunShape(s)
    PROVE Shapes(s)
<1> USE DEF Types, RunRecords, LeaseRecords, RunShape, Shapes
<1>1. ASSUME NEW expires \in Extensions(r), Renew(r, expires) PROVE Untouched(s) \/ GoesOn(s)
  <2>1. UNCHANGED <<run, view, workspaceView, process, claim>>
    BY <1>1 DEF Renew, outside
  <2>2. CASE s # r
    BY <1>1, <2>1, <2>2 DEF Renew, Untouched
  <2>3. CASE s = r
    BY <1>1, <2>1, <2>3 DEF Renew, RenewalCurrent, Active, GoesOn
  <2> QED
    BY <2>2, <2>3
<1>2. ASSUME NEW reason \in FenceReasons, Fence(r, reason) PROVE Shapes(s)
  BY <1>2 DEF Fence, Withdrawn, Active, Untouched, LeaseEnds, outside
<1>3. CASE ComposeReset(r)
  BY <1>3 DEF ComposeReset, Untouched, ProcessEnds, runVars
<1>4. CASE ConfirmReset(r)
  BY <1>4 DEF ConfirmReset, Withdrawn, Untouched, LeaseReleased, outside
<1> QED
  BY <1>1, <1>2, <1>3, <1>4 DEF MaintenanceSteps

LEMMA StepShapes ==
    ASSUME Types, [Next]_vars, NEW s \in Runs, RunShape(s)
    PROVE Shapes(s)
<1>1. CASE Tick
  BY <1>1 DEF Tick, Shapes, Untouched, runVars, outside
<1>2. ASSUME NEW r \in Runs, RunSteps(r) \/ ViewSteps(r) \/ WorkerSteps(r) \/ MaintenanceSteps(r)
      PROVE Shapes(s)
  BY <1>2, RunStepShapes, ViewStepShapes, WorkerStepShapes, MaintenanceStepShapes DEF Shapes
<1>3. ASSUME NEW n \in Nodes, NEW g \in 1..MaxNodeGeneration, AttestNode(n, g) PROVE Shapes(s)
  BY <1>3 DEF AttestNode, Shapes, Untouched, runVars, outside
<1>4. CASE UNCHANGED vars
  BY <1>4 DEF vars, Shapes, Untouched, runVars, outside
<1> QED
  BY <1>1, <1>2, <1>3, <1>4 DEF Next

\* The shape of a run, its processes and its view is kept.
LEMMA RunShapeKept ==
    ASSUME Types, [Next]_vars, NEW s \in Runs, RunShape(s)
    PROVE RunShape(s)'
BY StepShapes DEF Shapes, Untouched, Waits, RunKept, LeaseGiven, GoesOn, LeaseEnds, LeaseReleased,
   ProcessEnds, Views, RunShape, Active

LEMMA ProcessShapeKept ==
    ASSUME Types, [Next]_vars, NEW s \in Runs, RunShape(s), ProcessShape(s)
    PROVE ProcessShape(s)'
<1>1. lease[s].generation \in Nat /\ claim[s] \in Nat
  BY DEF Types, LeaseRecords
<1>2. Shapes(s)
  BY StepShapes
<1> QED
  BY <1>1, <1>2 DEF Shapes, Untouched, Waits, RunKept, LeaseGiven, GoesOn, LeaseEnds,
     LeaseReleased, ProcessEnds, Views, ProcessShape, RunShape, Active, Held

LEMMA ViewShapeKept ==
    ASSUME Types, [Next]_vars, NEW s \in Runs, RunShape(s), ViewShape(s)
    PROVE ViewShape(s)'
<1>1. CASE Views(s)
  <2> USE DEF Types, ViewRecords, ViewShape, RunShape
  <2>1. CASE OpenView(s)
    BY <1>1, <2>1 DEF OpenView, Views, Preparing, Active
  <2>2. CASE PersistView(s)
    BY <1>1, <2>2 DEF PersistView, Views, Preparing, ViewObligation, Active
  <2>3. CASE RetainViewTerminal(s)
    BY <1>1, <2>3 DEF RetainViewTerminal, Views, ViewObligation, outside
  <2>4. CASE DeliverViewTerminal(s)
    BY <1>1, <2>4 DEF DeliverViewTerminal, Views, runVars
  <2>5. ASSUME NEW answer \in {"Open", "Refused"}, WorkspaceAnswers(s, answer) PROVE ViewShape(s)'
    BY <1>1, <2>5 DEF WorkspaceAnswers, Views, runVars
  <2> QED
    BY <1>1, <2>1, <2>2, <2>3, <2>4, <2>5 DEF Views
<1>2. CASE ~Views(s)
  BY <1>2, StepShapes DEF Shapes, Untouched, Waits, RunKept, LeaseGiven, GoesOn, LeaseEnds,
     LeaseReleased, ProcessEnds, ViewShape, RunShape, Active
<1> QED
  BY <1>1, <1>2

NoOrphan(r) ==
    lease[r].status = "Released" =>
        /\ view[r].state # "InDoubt"
        /\ workspaceView[r] = "Open" =>
              /\ view[r].state = "Accepted"
              /\ FencesView(r) => view[r].terminal = "Fence"

\* A reset waits for what C03 must still learn or say of the view, and nothing
\* moves it afterwards.
LEMMA NoOrphanKept ==
    ASSUME Types, [Next]_vars, NEW s \in Runs, RunShape(s), ViewShape(s), NoOrphan(s)
    PROVE NoOrphan(s)'
<1>1. CASE Views(s)
  <2> USE DEF Types, ViewRecords, ViewShape, RunShape, NoOrphan
  <2>1. CASE OpenView(s)
    BY <1>1, <2>1 DEF OpenView, Views, Preparing, Active
  <2>2. CASE PersistView(s)
    BY <1>1, <2>2 DEF PersistView, Views, Preparing, Active, FencesView
  <2>3. CASE RetainViewTerminal(s)
    BY <1>1, <2>3 DEF RetainViewTerminal, Views, ViewObligation, FencesView, outside
  <2>4. CASE DeliverViewTerminal(s)
    BY <1>1, <2>4 DEF DeliverViewTerminal, Views, FencesView, runVars
  <2>5. ASSUME NEW answer \in {"Open", "Refused"}, WorkspaceAnswers(s, answer) PROVE NoOrphan(s)'
    BY <1>1, <2>5 DEF WorkspaceAnswers, Views, FencesView, runVars
  <2> QED
    BY <1>1, <2>1, <2>2, <2>3, <2>4, <2>5 DEF Views
<1>2. CASE LeaseReleased(s)
  BY <1>2 DEF LeaseReleased, ViewSettled, FencesView, NoOrphan, ViewShape, Types, ViewRecords,
              ViewStates
<1>3. CASE ~Views(s) /\ ~LeaseReleased(s)
  BY <1>3, StepShapes DEF Shapes, Untouched, Waits, RunKept, LeaseGiven, GoesOn, LeaseEnds,
     ProcessEnds, NoOrphan, FencesView
<1> QED
  BY <1>1, <1>2, <1>3

-----------------------------------------------------------------------------
(* A node and the runs on it. *)

LeaseSame(s) ==
    /\ lease'[s].status = lease[s].status
    /\ lease'[s].sandbox = lease[s].sandbox /\ lease'[s].sandboxFence = lease[s].sandboxFence

NodeSame(n) ==
    /\ node'[n].active = node[n].active /\ node'[n].occupancy = node[n].occupancy
    /\ node'[n].sandbox = node[n].sandbox /\ node'[n].sandboxFence = node[n].sandboxFence

\* What a step makes of leases and nodes.
Unmoved == (\A s \in Runs : LeaseSame(s)) /\ (\A n \in Nodes : NodeSame(n))

Elsewhere(r) ==
    /\ \A s \in Runs : s # r => LeaseSame(s)
    /\ \A n \in Nodes : n # NodeOf[r] => NodeSame(n)

Grants(r) ==
    /\ Elsewhere(r)
    /\ lease[r].status = "None" /\ Host(r).occupancy = "Unoccupied"
    /\ lease'[r].status = "Active"
    /\ lease'[r].sandbox = Host(r).sandbox + 1 /\ lease'[r].sandboxFence = Host(r).sandboxFence + 1
    /\ node'[NodeOf[r]].active = r /\ node'[NodeOf[r]].occupancy = "Occupied"
    /\ node'[NodeOf[r]].sandbox = Host(r).sandbox
    /\ node'[NodeOf[r]].sandboxFence = Host(r).sandboxFence

Ends(r) ==
    /\ Elsewhere(r)
    /\ Active(r) /\ lease'[r].status \in {"Revoked", "Expired"}
    /\ lease'[r].sandbox = lease[r].sandbox
    /\ lease'[r].sandboxFence = lease[r].sandboxFence + 1
    /\ node'[NodeOf[r]].active = Host(r).active /\ node'[NodeOf[r]].occupancy = "Unknown"
    /\ node'[NodeOf[r]].sandbox = Host(r).sandbox
    /\ node'[NodeOf[r]].sandboxFence = Host(r).sandboxFence

Resets(r) ==
    /\ Elsewhere(r)
    /\ lease[r].status \in {"Revoked", "Expired"} /\ Host(r).active = r
    /\ lease'[r].status = "Released"
    /\ lease'[r].sandbox = lease[r].sandbox
    /\ lease'[r].sandboxFence = lease[r].sandboxFence + 1
    /\ node'[NodeOf[r]].active = None /\ node'[NodeOf[r]].occupancy = "Unoccupied"
    /\ node'[NodeOf[r]].sandbox = lease[r].sandbox
    /\ node'[NodeOf[r]].sandboxFence = lease[r].sandboxFence + 1

NodeShapes == Unmoved \/ \E r \in Runs : Grants(r) \/ Ends(r) \/ Resets(r)

\* Every step does one of these.
LEMMA StepsOfNodes == ASSUME Types, [Next]_vars PROVE NodeShapes
<1> USE LeaseConstants
<1> USE DEF Types, LeaseRecords, NodeRecords, NodeShapes, LeaseSame, NodeSame, Host
<1>1. ASSUME NEW r \in Runs, NEW t \in RecentTimes, CommitLease(r, t) PROVE Grants(r)
  <2>1. /\ lease' = [lease EXCEPT ![r] = lease'[r]]
        /\ lease'[r].status = "Active"
        /\ lease'[r].sandbox = Host(r).sandbox + 1
        /\ lease'[r].sandboxFence = Host(r).sandboxFence + 1
    BY <1>1 DEF CommitLease
  <2> QED
    BY <1>1, <2>1 DEF CommitLease, BeforeLease, EligibleForLease, Grants, Elsewhere
<1>2. ASSUME NEW r \in Runs, Active(r), NEW status \in {"Revoked", "Expired"},
             lease' = Withdrawn(r, status), node' = Contained(NodeOf[r])
      PROVE Ends(r)
  BY <1>2 DEF Withdrawn, Contained, Ends, Elsewhere
<1>3. ASSUME NEW r \in Runs, NEW reason \in FenceReasons, Fence(r, reason) PROVE Ends(r)
  BY <1>3 DEF Fence, Withdrawn, Contained, Ends, Elsewhere
<1>4. ASSUME NEW r \in Runs, ConfirmReset(r) PROVE Resets(r)
  BY <1>4 DEF ConfirmReset, Withdrawn, Freed, Resets, Elsewhere
<1>5. ASSUME NEW r \in Runs, NEW expires \in Extensions(r), Renew(r, expires) PROVE Unmoved
  BY <1>5 DEF Renew, Unmoved
<1>6. ASSUME NEW n \in Nodes, NEW g \in 1..MaxNodeGeneration, AttestNode(n, g) PROVE Unmoved
  BY <1>6 DEF AttestNode, Unmoved, runVars
<1>7. CASE UNCHANGED <<lease, node>>
  BY <1>7 DEF Unmoved
<1>8. ASSUME NEW r \in Runs, RunSteps(r) PROVE NodeShapes
  BY <1>1, <1>2, <1>7, <1>8 DEF RunSteps, AcceptStart, RecordReconciliation, EndBeforeLease,
     EndPreparing, Preparing, CancelLeased, EndUnderLease, EvidenceTerminal
<1>9. ASSUME NEW r \in Runs, ViewSteps(r) \/ WorkerSteps(r) PROVE UNCHANGED <<lease, node>>
  BY <1>9 DEF ViewSteps, OpenView, PersistView, RetainViewTerminal, DeliverViewTerminal,
     DelivererDies, WorkspaceAnswers, WorkerSteps, PrepareCapsule, ClaimDispatch, AcceptWorker,
     StopProcess, Observe, runVars
<1>10. ASSUME NEW r \in Runs, MaintenanceSteps(r) PROVE NodeShapes
  BY <1>3, <1>4, <1>5, <1>7, <1>10 DEF MaintenanceSteps, ComposeReset, runVars
<1>11. Tick \/ UNCHANGED vars => UNCHANGED <<lease, node>>
  BY DEF Tick, vars, runVars
<1> QED
  BY <1>6, <1>7, <1>8, <1>9, <1>10, <1>11 DEF Next

LEMMA NumbersOfLeases ==
    ASSUME Types
    PROVE /\ \A r \in Runs : /\ lease[r].sandbox \in Nat /\ lease[r].sandboxFence \in Nat
                             /\ NodeOf[r] \in Nodes /\ r # None
          /\ \A n \in Nodes : /\ node[n].sandbox \in Nat /\ node[n].sandboxFence \in Nat
                              /\ node[n].active \in Runs \cup {None}
BY LeaseConstants DEF Types, LeaseRecords, NodeRecords

LEMMA CustodyKept == ASSUME Types, [Next]_vars, Custody PROVE Custody'
<1>1. ASSUME NEW r \in Runs PROVE NodeOf[r] \in Nodes /\ r # None
  BY LeaseConstants
<1>2. \A n \in Nodes : node[n].active \in Runs \cup {None}
  BY NumbersOfLeases
<1> USE DEF Custody, Held, Host, Active, LeaseSame, NodeSame
<1>3. CASE Unmoved
  BY <1>1, <1>2, <1>3 DEF Unmoved
<1>4. ASSUME NEW r \in Runs, Grants(r) PROVE Custody'
  BY <1>1, <1>2, <1>4 DEF Grants, Elsewhere
<1>5. ASSUME NEW r \in Runs, Ends(r) PROVE Custody'
  BY <1>1, <1>2, <1>5 DEF Ends, Elsewhere
<1>6. ASSUME NEW r \in Runs, Resets(r) PROVE Custody'
  BY <1>1, <1>2, <1>6 DEF Resets, Elsewhere
<1> QED
  BY <1>3, <1>4, <1>5, <1>6, StepsOfNodes DEF NodeShapes

LEMMA CarriedKept ==
    ASSUME Types, [Next]_vars, Custody, Carried
    PROVE Carried'
<1> USE NumbersOfLeases
<1> USE DEF Carried, Custody, Held, Host, Active, LeaseSame, NodeSame
<1>1. CASE Unmoved
  BY <1>1 DEF Unmoved
<1>2. ASSUME NEW r \in Runs, Grants(r) PROVE Carried'
  BY <1>2 DEF Grants, Elsewhere
<1>3. ASSUME NEW r \in Runs, Ends(r) PROVE Carried'
  BY <1>3 DEF Ends, Elsewhere
<1>4. ASSUME NEW r \in Runs, Resets(r) PROVE Carried'
  BY <1>4 DEF Resets, Elsewhere
<1> QED
  BY <1>1, <1>2, <1>3, <1>4, StepsOfNodes DEF NodeShapes

LEMMA SandboxesKept ==
    ASSUME Types, [Next]_vars, Custody, Carried, SandboxNeverReused
    PROVE SandboxNeverReused'
<1> USE NumbersOfLeases
<1>1. ASSUME NEW s \in Runs, lease[s].status # "None", ~Held(s)
      PROVE /\ lease[s].status = "Released"
            /\ lease[s].sandbox <= Host(s).sandbox
            /\ lease[s].sandboxFence <= Host(s).sandboxFence
  <2>1. lease[s].status = "Released"
    BY <1>1 DEF Held, Types, LeaseRecords, LeaseStates
  <2> QED
    BY <2>1 DEF Carried
<1>2. CASE Unmoved
  BY <1>2 DEF Unmoved, SandboxNeverReused, LeaseSame
<1>3. ASSUME NEW r \in Runs, Grants(r) PROVE SandboxNeverReused'
  <2>1. ASSUME NEW s \in Runs, s # r, NodeOf[s] = NodeOf[r], lease[s].status # "None"
        PROVE /\ lease'[s].sandbox < lease'[r].sandbox
              /\ lease'[s].sandboxFence < lease'[r].sandboxFence
    <3>1. ~Held(s)
      BY <1>3, <2>1 DEF Grants, Custody, Host
    <3> QED
      BY <1>1, <1>3, <2>1, <3>1 DEF Grants, Elsewhere, LeaseSame, Host
  <2>2. \A s \in Runs : s # r => LeaseSame(s)
    BY <1>3 DEF Grants, Elsewhere
  <2>3. lease'[r].sandbox \in Nat
    BY <1>3 DEF Grants, Host
  <2> QED
    BY <2>1, <2>2, <2>3 DEF SandboxNeverReused, LeaseSame
<1>4. ASSUME NEW r \in Runs, Ends(r) \/ Resets(r) PROVE SandboxNeverReused'
  <2>1. Held(r)
    BY <1>4 DEF Ends, Resets, Held, Active
  <2>2. ASSUME NEW s \in Runs, s # r, NodeOf[s] = NodeOf[r], lease[s].status # "None"
        PROVE lease[s].sandbox < lease[r].sandbox /\ lease[s].sandboxFence < lease[r].sandboxFence
    <3>1. ~Held(s)
      BY <2>1, <2>2 DEF Custody, Host
    <3> QED
      BY <1>1, <2>1, <2>2, <3>1 DEF Carried, Host
  <2>3. /\ \A s \in Runs : s # r => LeaseSame(s)
        /\ lease'[r].sandbox = lease[r].sandbox
        /\ lease'[r].sandboxFence = lease[r].sandboxFence + 1
    BY <1>4 DEF Ends, Resets, Elsewhere
  <2>4. lease[r].status # "None"
    BY <2>1 DEF Held
  <2> QED
    BY <2>2, <2>3, <2>4 DEF SandboxNeverReused, LeaseSame
<1> QED
  BY <1>2, <1>3, <1>4, StepsOfNodes DEF NodeShapes

-----------------------------------------------------------------------------
(* The invariant and what follows from it. *)

LEMMA InvariantKept == IInv /\ [Next]_vars => IInv'
<1> SUFFICES ASSUME IInv, [Next]_vars PROVE IInv'
  OBVIOUS
<1>1. Types /\ Types'
  BY TypesKept DEF IInv
<1>2. \A r \in Runs : NoOrphan(r)
  BY DEF IInv, NoOrphanView, NoOrphan
<1>3. \A r \in Runs : RunShape(r)' /\ ProcessShape(r)' /\ ViewShape(r)' /\ NoOrphan(r)'
  BY <1>1, <1>2, RunShapeKept, ProcessShapeKept, ViewShapeKept, NoOrphanKept DEF IInv
<1>4. NoOrphanView'
  BY <1>3 DEF NoOrphanView, NoOrphan
<1>5. Custody' /\ Carried' /\ SandboxNeverReused'
  BY <1>1, CustodyKept, CarriedKept, SandboxesKept DEF IInv
<1> QED
  BY <1>1, <1>3, <1>4, <1>5 DEF IInv

THEOREM LeaseInvariantHolds == Spec => []IInv
<1> QED
  BY LeaseStarts, InvariantKept, PTL DEF Spec

\* TypeOK and NoOrphanView, the invariant of the runs: confirmPostgresSandboxReset
\* leaves no view behind that C04 was not told to fence.
THEOREM NoViewIsOrphaned == Spec => []LeaseInvariant
<1>1. Types => TypeOK
  BY LeaseConstants DEF Types, TypeOK, RunRecords, LeaseRecords, ViewRecords, CapsuleRecords,
     WorkerRecords, NodeRecords, EvidenceRecords
<1>2. IInv => LeaseInvariant
  BY <1>1 DEF IInv, LeaseInvariant
<1> QED
  BY <1>2, LeaseInvariantHolds, PTL

\* A process of a run is only on a node that is still the run's, whatever reset
\* evidence validSandboxResetTransition is presented with.
THEOREM ProcessesAreConfined == Spec => []ProcessConfined
<1>1. IInv => ProcessConfined
  BY DEF IInv, Custody, ProcessShape, ProcessConfined, Held
<1> QED
  BY <1>1, LeaseInvariantHolds, PTL

\* The sandboxes of a node are numbered upwards and fenced upwards.
THEOREM SandboxesAreFresh == Spec => []SandboxNeverReused
<1>1. IInv => SandboxNeverReused
  BY DEF IInv
<1> QED
  BY <1>1, LeaseInvariantHolds, PTL

\* Both together: what one node's sandboxes owe each other, for every number of
\* runs and nodes.
THEOREM SandboxesAreConfined == Spec => []SandboxesConfined
<1>1. ProcessConfined /\ SandboxNeverReused => SandboxesConfined
  BY DEF SandboxesConfined
<1> QED
  BY <1>1, ProcessesAreConfined, SandboxesAreFresh, PTL

\* A worker starts under its run's current lease and a view opened for it.
THEOREM StartsAreCurrent == Spec => StartsUnderCurrentLease
<1> DEFINE Current(r) ==
       (process[r] # "Running" /\ process'[r] = "Running") =>
           /\ Active(r) /\ clock < lease[r].expires /\ Host(r).active = r
           /\ r \in Mutating => /\ workspaceView[r] = "Open"
                                /\ view[r].generation = lease[r].generation
<1>1. ASSUME IInv, [Next]_vars, NEW r \in Runs PROVE Current(r)
  <2> SUFFICES ASSUME process[r] # "Running", process'[r] = "Running"
               PROVE Current(r)
    OBVIOUS
  <2>1. Shapes(r) /\ RunShape(r) /\ ViewShape(r) /\ Custody
    BY <1>1, StepShapes DEF IInv
  <2>2. DispatchCurrent(r)
    BY <2>1 DEF Shapes, Untouched, Waits, RunKept, LeaseGiven, GoesOn, LeaseEnds, LeaseReleased,
       ProcessEnds, Views
  <2>3. /\ run[r].state = "PreparingPrerequisites" /\ Active(r) /\ clock < lease[r].expires
        /\ ViewSatisfied(r)
    BY <2>2 DEF DispatchCurrent, PrerequisitesReady
  <2>4. Host(r).active = r
    BY <2>1, <2>3 DEF Custody, Held, Active
  <2>5. r \in Mutating => workspaceView[r] = "Open" /\ view[r].generation = lease[r].generation
    BY <2>1, <2>3 DEF ViewSatisfied, ViewShape, RunShape
  <2> QED
    BY <2>3, <2>4, <2>5
<1>2. IInv /\ [Next]_vars => [\A r \in Runs : Current(r)]_vars
  BY <1>1
<1> QED
  BY <1>2, LeaseInvariantHolds, PTL DEF Spec, StartsUnderCurrentLease

\* What is over stays over.
THEOREM DecisionsAreFinal == Spec => DecisionsStand
<1> DEFINE Stands(r) ==
       /\ lease[r].status \in {"Revoked", "Expired"} =>
             lease'[r].status \in {lease[r].status, "Released"}
       /\ lease[r].status = "Released" => lease'[r] = lease[r]
       /\ run[r].state = "Stopping" => run'[r].state \in {"Stopping", "Terminal"}
       /\ run[r].outcome # "None" => run'[r] = run[r]
<1>1. ASSUME IInv, [Next]_vars, NEW r \in Runs PROVE Stands(r)
  <2>1. Shapes(r) /\ RunShape(r)
    BY <1>1, StepShapes DEF IInv
  <2> QED
    BY <2>1 DEF Shapes, Untouched, Waits, RunKept, LeaseGiven, GoesOn, LeaseEnds, LeaseReleased,
       ProcessEnds, Views, RunShape, Active
<1>2. IInv /\ [Next]_vars => [\A r \in Runs : Stands(r)]_vars
  BY <1>1
<1> QED
  BY <1>2, LeaseInvariantHolds, PTL DEF Spec, DecisionsStand

-----------------------------------------------------------------------------
(* The contract with the Scheduler. *)


LEMMA ContractStarts == Init => Contract!ContractInit
<1> SUFFICES ASSUME Init PROVE Contract!ContractInit
  OBVIOUS
<1> USE LeaseConstants DEF Init
<1>1. \A r \in Runs : Phase(r) = "Created"
  BY DEF Phase, Active, NoLease
<1>2. \A r \in Runs : node[NodeOf[r]].active = None
  BY DEF AttestedNode
<1> QED
  BY <1>1, <1>2 DEF Contract!ContractInit

\* A step that leaves every phase, holder and fact as it is.
LEMMA ContractStutters ==
    ASSUME \A r \in Runs : Phase(r)' = Phase(r),
           \A r \in Runs : node'[NodeOf[r]].active = node[NodeOf[r]].active,
           evidence' = evidence
    PROVE UNCHANGED Contract!contract
BY DEF Contract!contract

\* One run moves from a phase to another.
LEMMA ContractMoves ==
    ASSUME NEW r \in Runs, NEW from, NEW to, Phase(r) = from, Phase(r)' = to,
           \A s \in Runs : s # r => Phase(s)' = Phase(s)
    PROVE Contract!Moves(r, from, to)
BY DEF Contract!Moves

\* A run whose record and lease status stay is in the phase it was in.
LEMMA PhaseOfUntouched ==
    ASSUME NEW s \in Runs, run'[s].state = run[s].state, lease'[s].status = lease[s].status
    PROVE Phase(s)' = Phase(s)
BY DEF Phase, Active

\* The facts of one step.
LEMMA FactsAdded ==
    ASSUME NEW new, evidence' = evidence \cup new
    PROVE {<<e.kind, e.run>> : e \in evidence'} =
             {<<e.kind, e.run>> : e \in evidence} \cup {<<e.kind, e.run>> : e \in new}
OBVIOUS

HolderSame == \A s \in Runs : node'[NodeOf[s]].active = node[NodeOf[s]].active

\* The end of a lease, by a decision or by a fence.
LEMMA LeaseEndIsContract ==
    ASSUME Types, NEW r \in Runs, Active(r), NEW exact,
           \A s \in Runs : s # r => run'[s] = run[s] /\ lease'[s] = lease[s],
           lease'[r].status \in {"Revoked", "Expired"},
           HolderSame,
           evidence' = evidence \cup {Evidence("Fenced", r, exact)}
    PROVE Contract!EndLease(r)
<1>1. Phase(r) = "Leased" /\ Phase(r)' = "Fenced"
  <2>1. lease[r].status = "Active" /\ lease'[r].status # "Active"
    BY DEF Active
  <2>2. Phase(r) = "Leased"
    BY <2>1 DEF Phase, Active
  <2>3. Phase(r)' = "Fenced"
    BY <2>1 DEF Phase, Active
  <2> QED
    BY <2>2, <2>3
<1>2. Contract!Moves(r, "Leased", "Fenced")
  BY <1>1, PhaseOfUntouched, ContractMoves
<1>3. {<<e.kind, e.run>> : e \in {Evidence("Fenced", r, exact)}} = {<<"Fenced", r>>}
  BY DEF Evidence
<1>4. {<<e.kind, e.run>> : e \in evidence'} =
        {<<e.kind, e.run>> : e \in evidence} \cup {<<"Fenced", r>>}
  BY <1>3, FactsAdded
<1>5. [n \in {NodeOf[q] : q \in Runs} |-> node[n].active]' =
        [n \in {NodeOf[q] : q \in Runs} |-> node[n].active]
  BY DEF HolderSame
<1> QED
  BY <1>2, <1>4, <1>5 DEF Contract!EndLease

\* Every step is a step of the contract or leaves it as it is.
LEMMA StepsKeepContract == IInv /\ [Next]_vars => [Contract!ContractNext]_(Contract!contract)
<1> SUFFICES ASSUME IInv, [Next]_vars PROVE [Contract!ContractNext]_(Contract!contract)
  OBVIOUS
<1> USE LeaseConstants
<1>1. Types /\ Custody /\ \A r \in Runs : RunShape(r)
  BY DEF IInv
<1> DEFINE Same == UNCHANGED Contract!contract
<1>2. ASSUME NEW r \in Runs, NEW t \in RecentTimes, NEW g \in 1..MaxNodeGeneration,
             AcceptStart(r, g, t)
      PROVE Contract!Accept(r)
  <2>1. /\ run[r].state = "Created" /\ run'[r].state = "WaitingForLease"
        /\ \A s \in Runs : s # r => run'[s] = run[s]
        /\ UNCHANGED <<lease, node, evidence>>
    BY <1>1, <1>2 DEF AcceptStart, Types, RunRecords
  <2>2. lease[r].status = "None"
    BY <1>1, <2>1 DEF RunShape
  <2>3. Phase(r) = "Created" /\ Phase(r)' = "Waiting"
    BY <2>1, <2>2 DEF Phase, Active
  <2>4. Contract!Moves(r, "Created", "Waiting")
    BY <2>1, <2>3, PhaseOfUntouched, ContractMoves
  <2> QED
    BY <2>1, <2>4 DEF Contract!Accept
<1>3. ASSUME NEW r \in Runs, NEW t \in RecentTimes, CommitLease(r, t)
      PROVE Contract!Grant(r)
  <2>1. /\ BeforeLease(r) /\ Host(r).occupancy = "Unoccupied"
        /\ \A s \in Runs : s # r => run'[s] = run[s] /\ lease'[s] = lease[s]
        /\ lease'[r].status = "Active"
        /\ evidence' = evidence
    BY <1>1, <1>3 DEF CommitLease, EligibleForLease, Types
  <2>2. Host(r).active = None
    BY <1>1, <2>1 DEF Custody, Host
  <2>3. Phase(r) = "Waiting" /\ Phase(r)' = "Leased"
    BY <2>1 DEF BeforeLease, Phase, Active
  <2>4. Contract!Moves(r, "Waiting", "Leased")
    BY <2>1, <2>3, PhaseOfUntouched, ContractMoves
  <2>5. \A q \in Runs : node'[NodeOf[q]].active =
                           IF NodeOf[q] = NodeOf[r] THEN r ELSE node[NodeOf[q]].active
    BY <1>1, <1>3 DEF CommitLease, Types, NodeRecords
  <2>6. [n \in {NodeOf[q] : q \in Runs} |-> node[n].active]' =
          [[n \in {NodeOf[q] : q \in Runs} |-> node[n].active] EXCEPT ![NodeOf[r]] = r]
    <3>1. \A m \in {NodeOf[q] : q \in Runs} :
             node'[m].active = IF m = NodeOf[r] THEN r ELSE node[m].active
      BY <2>5
    <3> QED
      BY <3>1
  <2> QED
    BY <2>1, <2>2, <2>4, <2>6 DEF Contract!Grant, Host
<1>4. ASSUME NEW r \in Runs, NEW outcome \in Outcomes, EndBeforeLease(r, outcome)
      PROVE Contract!EndWithoutLease(r)
  <2>1. /\ BeforeLease(r) /\ run'[r].state = "Terminal"
        /\ \A s \in Runs : s # r => run'[s] = run[s]
        /\ UNCHANGED <<lease, node>>
        /\ evidence' = evidence \cup {Evidence("Fenced", r, TRUE), Evidence("NoLease", r, TRUE)}
    BY <1>1, <1>4 DEF EndBeforeLease, Decided, Types, RunRecords, outside
  <2>2. Phase(r) = "Waiting" /\ Phase(r)' = "Ended"
    BY <2>1 DEF BeforeLease, Phase, Active
  <2>3. Contract!Moves(r, "Waiting", "Ended")
    BY <2>1, <2>2, PhaseOfUntouched, ContractMoves
  <2>4. {<<e.kind, e.run>> : e \in {Evidence("Fenced", r, TRUE), Evidence("NoLease", r, TRUE)}} =
          {<<"Fenced", r>>, <<"NoLease", r>>}
    BY DEF Evidence
  <2>5. {<<e.kind, e.run>> : e \in evidence'} =
          {<<e.kind, e.run>> : e \in evidence} \cup {<<"Fenced", r>>, <<"NoLease", r>>}
    BY <2>1, <2>4, FactsAdded
  <2> QED
    BY <2>1, <2>3, <2>5 DEF Contract!EndWithoutLease
<1>5. ASSUME NEW r \in Runs, NEW outcome \in Outcomes, Active(r), EndUnderLease(r, outcome)
      PROVE Contract!EndLease(r)
  BY <1>1, <1>5, LeaseEndIsContract
     DEF EndUnderLease, Decided, Withdrawn, Contained, HolderSame, Types, LeaseRecords, NodeRecords
<1>6. ASSUME NEW r \in Runs, EvidenceTerminal(r) PROVE Contract!EndLease(r)
  BY <1>1, <1>6, LeaseEndIsContract
     DEF EvidenceTerminal, Decided, Withdrawn, Contained, HolderSame, Types, LeaseRecords, NodeRecords
<1>7. ASSUME NEW r \in Runs, NEW reason \in FenceReasons, Fence(r, reason)
      PROVE Contract!EndLease(r)
  BY <1>1, <1>7, LeaseEndIsContract
     DEF Fence, Withdrawn, Contained, HolderSame, Types, LeaseRecords, NodeRecords
<1>8. ASSUME NEW r \in Runs, ConfirmReset(r) PROVE Contract!ResetNode(r)
  <2>1. /\ lease[r].status \in {"Revoked", "Expired"} /\ Host(r).active = r
        /\ \A s \in Runs : s # r => lease'[s] = lease[s]
        /\ lease'[r].status = "Released" /\ run' = run
        /\ evidence' = evidence \cup {Evidence("Release", r, StartRetained(r))}
    BY <1>1, <1>8 DEF ConfirmReset, Withdrawn, Types, LeaseRecords
  <2>2. Phase(r) = "Fenced" /\ Phase(r)' = "Reset"
    BY <2>1 DEF Phase, Active
  <2>3. Contract!Moves(r, "Fenced", "Reset")
    BY <2>1, <2>2, PhaseOfUntouched, ContractMoves
  <2>4. {<<e.kind, e.run>> : e \in {Evidence("Release", r, StartRetained(r))}} = {<<"Release", r>>}
    BY DEF Evidence
  <2>5. {<<e.kind, e.run>> : e \in evidence'} =
          {<<e.kind, e.run>> : e \in evidence} \cup {<<"Release", r>>}
    BY <2>1, <2>4, FactsAdded
  <2>6. \A q \in Runs : node'[NodeOf[q]].active =
                           IF NodeOf[q] = NodeOf[r] THEN None ELSE node[NodeOf[q]].active
    BY <1>1, <1>8 DEF ConfirmReset, Freed, Types, NodeRecords
  <2>7. [n \in {NodeOf[q] : q \in Runs} |-> node[n].active]' =
          [[n \in {NodeOf[q] : q \in Runs} |-> node[n].active] EXCEPT ![NodeOf[r]] = None]
    BY <2>6
  <2> QED
    BY <2>1, <2>3, <2>5, <2>7 DEF Contract!ResetNode, Host
<1>9. ASSUME \A s \in Runs : run'[s].state = run[s].state, UNCHANGED <<lease, node, evidence>>
      PROVE Same
  BY <1>9, PhaseOfUntouched, ContractStutters
<1>10. ASSUME NEW r \in Runs, RecordReconciliation(r) PROVE Same
  <2>1. /\ run[r].state = "WaitingForLease" /\ run'[r].state = "Reconciling"
        /\ \A s \in Runs : s # r => run'[s] = run[s]
        /\ UNCHANGED <<lease, node, evidence>>
    BY <1>1, <1>10 DEF RecordReconciliation, Types, RunRecords
  <2>2. Phase(r) = Phase(r)'
    BY <2>1 DEF Phase, Active
  <2> QED
    BY <2>1, <2>2, PhaseOfUntouched, ContractStutters
<1>11. ASSUME NEW r \in Runs, RunSteps(r) PROVE Contract!ContractNext \/ Same
  BY <1>2, <1>3, <1>4, <1>5, <1>6, <1>10, <1>11
     DEF RunSteps, EndPreparing, Preparing, CancelLeased, Outcomes, Contract!ContractNext
<1>12. ASSUME NEW r \in Runs, ViewSteps(r) PROVE Same
  BY <1>9, <1>12 DEF ViewSteps, OpenView, PersistView, RetainViewTerminal, DeliverViewTerminal,
     DelivererDies, WorkspaceAnswers, runVars, outside
<1>13. ASSUME NEW r \in Runs, WorkerSteps(r) PROVE Same
  <2>1. UNCHANGED <<lease, node, evidence>>
    BY <1>13 DEF WorkerSteps, PrepareCapsule, ClaimDispatch, AcceptWorker, StopProcess, Observe,
       runVars
  <2>2. ASSUME NEW s \in Runs PROVE Phase(s)' = Phase(s)
    <3>1. Untouched(s) \/ GoesOn(s) \/ ProcessEnds(s)
      BY <1>1, <1>13, WorkerStepShapes
    <3> QED
      BY <2>1, <3>1 DEF Untouched, GoesOn, ProcessEnds, Phase, Active
  <2> QED
    BY <2>1, <2>2, ContractStutters
<1>14. ASSUME NEW r \in Runs, NEW expires \in Extensions(r), Renew(r, expires) PROVE Same
  <2>1. /\ \A s \in Runs : lease'[s].status = lease[s].status
        /\ UNCHANGED <<run, node, evidence>>
    BY <1>1, <1>14 DEF Renew, Types, LeaseRecords
  <2> QED
    BY <2>1, PhaseOfUntouched, ContractStutters
<1>15. ASSUME NEW r \in Runs, MaintenanceSteps(r) PROVE Contract!ContractNext \/ Same
  BY <1>7, <1>8, <1>9, <1>14, <1>15
     DEF MaintenanceSteps, ComposeReset, runVars, Contract!ContractNext
<1>16. ASSUME NEW n \in Nodes, NEW g \in 1..MaxNodeGeneration, AttestNode(n, g) PROVE Same
  <2>1. /\ \A m \in Nodes : node'[m].active = node[m].active
        /\ UNCHANGED <<run, lease, evidence>>
    BY <1>1, <1>16 DEF AttestNode, Types, NodeRecords, runVars
  <2> QED
    BY <2>1, PhaseOfUntouched, ContractStutters
<1>17. Tick \/ UNCHANGED vars => Same
  BY <1>9 DEF Tick, vars, runVars
<1> HIDE DEF Same
<1>18. Contract!ContractNext \/ Same
  BY <1>11, <1>12, <1>13, <1>15, <1>16, <1>17 DEF Next
<1> QED
  BY <1>18 DEF Same

\* What the Scheduler relies on holds of every behaviour: one lease per run, one
\* run per node from its grant to the reset, each capacity fact committed with
\* the transition it is about.
THEOREM ContractIsKept == Spec => KeepsContract
BY ContractStarts, StepsKeepContract, LeaseInvariantHolds, PTL
   DEF Spec, KeepsContract, Contract!ContractSpec
=============================================================================
