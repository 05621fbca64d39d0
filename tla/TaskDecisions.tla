---------------------------- MODULE TaskDecisions ----------------------------
(***************************************************************************)
(* The decisions of Task Orchestration about one task, composed with what  *)
(* the task's workspace (C04) does with the operations they commit.  A     *)
(* decision is one transaction: it checks the intent against the record,   *)
(* the recovery state and the binding of the operation the evidence is of, *)
(* moves the task along its pipeline and commits operations to the outbox. *)
(*                                                                         *)
(* An intent names the revision of the record it was composed on, so one   *)
(* composed on an older record changes nothing and is left out; a replayed *)
(* intent returns the committed decision and is left out too.  Evidence of *)
(* a run, a validation and a publication is chosen when it is accepted (it *)
(* is accepted once); evidence of C04 is what C04 did.  Operations are     *)
(* delivered as the module Outbox promises: at most once with effect, and  *)
(* none after a newer one of its scope.  The pair (generation, fence) of   *)
(* C04 is one number: every step that moves one moves the fence.           *)
(***************************************************************************)
EXTENDS Naturals, Sequences, FiniteSets

CONSTANTS Pipeline,          \* kinds of the phases of each activity, in order
          RequiredRuntimes,  \* runtime runs a runtime phase needs
          MaxRuns,           \* bound: phase runs
          MaxRuntimes,       \* bound: runtime runs of a phase run
          MaxEpoch,          \* bound: recovery fences
          MaxEdits           \* bound: manual edits

Activities == {"Generation", "ManualEdit"}
Kinds == {"NonMutating", "Mutating", "ConfirmationGate", "Publication"}

ASSUME TaskAssumption ==
    /\ Pipeline \in [Activities -> Seq(Kinds) \ {<<>>}]
    /\ RequiredRuntimes \in Nat \ {0} /\ RequiredRuntimes <= MaxRuntimes
    /\ MaxRuns \in Nat /\ MaxRuntimes \in Nat /\ MaxEpoch \in Nat \ {0} /\ MaxEdits \in Nat

VARIABLES task,       \* the task record and its aggregate
          runs,       \* its phase runs, in the order they were begun
          operations, \* its lifecycle operations, in the order they were committed
          recovery,   \* the recovery state all tasks share
          workspace,  \* C04: the fence and the number of the current revision
          view,       \* C04: the runtime view of each phase run
          result      \* C04: what became of each lifecycle operation

aggregate == <<task, runs, operations>>
c04 == <<workspace, view, result>>
vars == <<aggregate, recovery, c04>>

Statuses == {"Absent", "Ready", "Running", "AwaitingConfirmation", "Failed",
             "Cancelling", "Cancelled", "Completed"}
Task == [status : Statuses, activity : Activities \cup {"none"}, phase : Nat, active : Nat,
         generation : Nat \ {0}, recoveryFence : Nat, lifecycleFence : Nat, latestRevision : Nat,
         cancel : {"NotRequested", "Cancelling", "Cancelled"},
         edits : 0..MaxEdits, reconstruct : {"no", "required", "accepted"}]
RuntimeRun == [outcome : {"Pending", "Succeeded", "Failed"}, generation : Nat, epoch : Nat]
PhaseRun == [activity : Activities, edit : 0..MaxEdits, phase : Nat,
             outcome : {"Running", "Succeeded", "Failed", "Cancelled"},
             runtimes : Seq(RuntimeRun), validation : {"none", "Accepted", "Rejected"},
             generation : Nat, epoch : Nat, revision : Nat]
Operation == [run : Nat, purpose : {"Commit", "Fence", "Reconstruct"}, generation : Nat,
              epoch : Nat, fence : Nat, base : Nat, terminal : BOOLEAN]
Result == [outcome : {"none", "Committed", "Fenced", "Reconstructed", "Refused"},
           fence : Nat, revision : Nat]

Kind(t) == Pipeline[t.activity][t.phase]
ActiveRun == runs[task.active]
RunKind(r) == Pipeline[runs[r].activity][runs[r].phase]

\* Recovery moves every task's activity generation; a record catches up when it is next decided.
EffectiveGeneration == task.generation + (recovery.activityFence - task.recoveryFence)

Accepted(t) == [t EXCEPT !.generation = EffectiveGeneration,
                         !.recoveryFence = recovery.activityFence]

Deciding == recovery.mode = "FullReady" /\ task.status # "Absent"
NotCancelled == task.cancel = "NotRequested"

\* An operation is bound to the generation and the epoch it was committed under.
Current(bound) == bound.generation = EffectiveGeneration /\ bound.epoch = recovery.epoch

-----------------------------------------------------------------------------
Init ==
    /\ task = [status |-> "Absent", activity |-> "none", phase |-> 1, active |-> 0,
               generation |-> 1, recoveryFence |-> 0, lifecycleFence |-> 0,
               latestRevision |-> 0, cancel |-> "NotRequested", edits |-> 0,
               reconstruct |-> "no"]
    /\ runs = <<>>
    /\ operations = <<>>
    /\ recovery = [epoch |-> 1, activityFence |-> 0, mode |-> "FullReady"]
    /\ workspace = [fence |-> 1, revision |-> 1]
    /\ view = <<>>
    /\ result = <<>>

StartTask ==
    /\ recovery.mode = "FullReady" /\ task.status = "Absent"
    /\ task' = [Accepted(task) EXCEPT !.status = "Ready", !.activity = "Generation"]
    /\ UNCHANGED <<runs, operations, recovery, c04>>

NewRuntime == [outcome |-> "Pending", generation |-> EffectiveGeneration, epoch |-> recovery.epoch]

\* beginAggregatePhase: a new run of the current phase, with its operations.
Begin(t) ==
    /\ Len(runs) < MaxRuns
    /\ t.active = 0 /\ t.reconstruct # "required"
    /\ LET kind == Kind(t)
       IN  /\ runs' = Append(runs,
                [activity |-> t.activity, edit |-> t.edits, phase |-> t.phase,
                 outcome |-> "Running",
                 runtimes |-> IF kind \in {"Mutating", "NonMutating"}
                              THEN [i \in 1..RequiredRuntimes |-> NewRuntime] ELSE <<>>,
                 validation |-> "none", generation |-> EffectiveGeneration,
                 epoch |-> recovery.epoch, revision |-> 0])
           /\ task' = [Accepted(t) EXCEPT
                !.status = IF kind = "ConfirmationGate" THEN "AwaitingConfirmation" ELSE "Running",
                !.active = Len(runs) + 1]
    /\ view' = Append(view, "none")
    /\ UNCHANGED <<operations, recovery, workspace, result>>

MakeWorkAvailable ==
    /\ Deciding /\ NotCancelled
    /\ task.status \in {"Ready", "Running"}
    /\ Begin(task)

RetryPhase ==
    /\ Deciding /\ NotCancelled
    /\ task.status = "Failed"
    /\ Begin(task)

RetryRuntimeRun ==
    /\ Deciding /\ NotCancelled
    /\ task.status = "Running" /\ task.active # 0
    /\ ActiveRun.validation = "none"
    /\ \E i \in DOMAIN ActiveRun.runtimes : ActiveRun.runtimes[i].outcome = "Failed"
    /\ Len(ActiveRun.runtimes) < MaxRuntimes
    /\ runs' = [runs EXCEPT ![task.active].runtimes = Append(@, NewRuntime)]
    /\ task' = Accepted(task)
    /\ UNCHANGED <<operations, recovery, c04>>

\* Variant: the finished run stays the active one.
FinishedStaysActive(t, kind) ==
    [Accepted(t) EXCEPT
        !.phase = @ + 1,
        !.status = IF t.phase = Len(Pipeline[t.activity]) THEN "Completed" ELSE "Running",
        !.activity = IF t.phase = Len(Pipeline[t.activity]) THEN "none" ELSE @]

\* finishAggregatePhase: on to the next phase, or the activity is complete.
Finished(t, kind) ==
    [Accepted(t) EXCEPT
        !.active = 0, !.phase = @ + 1,
        !.status = IF t.phase = Len(Pipeline[t.activity]) THEN "Completed" ELSE "Running",
        !.activity = IF t.phase = Len(Pipeline[t.activity]) THEN "none" ELSE @]

Failed(t) == [Accepted(t) EXCEPT !.active = 0, !.status = "Failed"]

Confirm ==
    /\ Deciding /\ NotCancelled
    /\ task.status = "AwaitingConfirmation"
    /\ runs' = [runs EXCEPT ![task.active].outcome = "Succeeded"]
    /\ task' = Finished(task, "ConfirmationGate")
    /\ UNCHANGED <<operations, recovery, c04>>

\* Runtime evidence; under a cancellation the generation moved, so only the
\* evidence of cancel operations is accepted, which moves nothing here.
AcceptRuntime(i, outcome) ==
    /\ Deciding
    /\ task.active # 0
    /\ i \in DOMAIN ActiveRun.runtimes
    /\ ActiveRun.runtimes[i].outcome = "Pending"
    /\ Current(ActiveRun.runtimes[i])
    /\ runs' = [runs EXCEPT ![task.active].runtimes[i].outcome = outcome]
    /\ task' = Accepted(task)
    /\ UNCHANGED <<operations, recovery, c04>>

Count(outcome) == {i \in DOMAIN ActiveRun.runtimes : ActiveRun.runtimes[i].outcome = outcome}

\* The request of C04 a decision commits: on the fence and the revision the
\* record knows, on what C04 has when the record knows none yet.
RequestFence == IF task.lifecycleFence # 0 THEN task.lifecycleFence ELSE workspace.fence
RequestBase == IF task.latestRevision # 0 THEN task.latestRevision ELSE workspace.revision

NewOperation(run, purpose, generation, epoch) ==
    [run |-> run, purpose |-> purpose, generation |-> generation, epoch |-> epoch,
     fence |-> RequestFence, base |-> RequestBase, terminal |-> FALSE]

CommitOperation(operation) ==
    /\ operations' = Append(operations, operation)
    /\ result' = Append(result, [outcome |-> "none", fence |-> 0, revision |-> 0])

\* Validation evidence, accepted once for a run.
Validating ==
    /\ Deciding /\ NotCancelled
    /\ task.active # 0 /\ task.status = "Running"
    /\ Kind(task) \in {"Mutating", "NonMutating"}
    /\ ActiveRun.validation = "none"
    /\ Current(ActiveRun)

RejectValidation ==
    /\ Validating
    /\ runs' = [runs EXCEPT ![task.active].validation = "Rejected",
                            ![task.active].outcome = "Failed"]
    /\ task' = Failed(task)
    /\ UNCHANGED <<operations, recovery, c04>>

AcceptValidation ==
    /\ Validating
    /\ Count("Pending") = {}
    /\ Cardinality(Count("Succeeded")) >= RequiredRuntimes
    /\ IF Kind(task) = "NonMutating"
       THEN /\ runs' = [runs EXCEPT ![task.active].validation = "Accepted",
                                    ![task.active].outcome = "Succeeded"]
            /\ task' = Finished(task, "NonMutating")
            /\ UNCHANGED <<operations, result>>
       ELSE /\ view[task.active] # "none"
            /\ runs' = [runs EXCEPT ![task.active].validation = "Accepted"]
            /\ task' = [Accepted(task) EXCEPT !.lifecycleFence = RequestFence]
            /\ CommitOperation(NewOperation(task.active, "Commit", EffectiveGeneration,
                                            recovery.epoch))
    /\ UNCHANGED <<recovery, workspace, view>>

AcceptPublication(outcome) ==
    /\ Deciding /\ NotCancelled
    /\ task.active # 0 /\ Kind(task) = "Publication"
    /\ Current(ActiveRun)
    /\ runs' = [runs EXCEPT ![task.active].outcome = outcome]
    /\ task' = IF outcome = "Succeeded" THEN Finished(task, "Publication") ELSE Failed(task)
    /\ UNCHANGED <<operations, recovery, c04>>

-----------------------------------------------------------------------------
\* Variant: a cancelled mutating phase does not wait for C04.
CancelTaskAtOnce ==
    /\ Deciding /\ NotCancelled
    /\ task.status \notin {"Completed", "Cancelled", "Cancelling"}
    /\ task' = [Accepted(task) EXCEPT
         !.generation = EffectiveGeneration + 1, !.status = "Cancelled",
         !.cancel = "Cancelled", !.active = 0, !.activity = "none"]
    /\ runs' = IF task.active = 0 THEN runs
               ELSE [runs EXCEPT ![task.active].outcome = "Cancelled"]
    /\ UNCHANGED <<operations, recovery, c04>>

\* cancelAggregateTask and buildCancellationEnactments: a mutating phase waits
\* for C04 to fence its view, anything else is over at once.
CancelTask ==
    /\ Deciding /\ NotCancelled
    /\ task.status \notin {"Completed", "Cancelled", "Cancelling"}
    /\ IF task.active # 0 /\ Kind(task) = "Mutating"
       THEN /\ view[task.active] # "none"
            /\ task' = [Accepted(task) EXCEPT
                 !.generation = EffectiveGeneration + 1, !.status = "Cancelling",
                 !.cancel = "Cancelling", !.lifecycleFence = RequestFence]
            /\ CommitOperation(NewOperation(task.active, "Fence", EffectiveGeneration + 1,
                                            recovery.epoch))
            /\ UNCHANGED runs
       ELSE /\ task' = [Accepted(task) EXCEPT
                 !.generation = EffectiveGeneration + 1, !.status = "Cancelled",
                 !.cancel = "Cancelled", !.active = 0, !.activity = "none"]
            /\ runs' = IF task.active = 0 THEN runs
                       ELSE [runs EXCEPT ![task.active].outcome = "Cancelled"]
            /\ UNCHANGED <<operations, result>>
    /\ UNCHANGED <<recovery, workspace, view>>

\* Evidence of C04 about operation i, bound to the run that is active.
Evident(i, outcome) ==
    /\ Deciding
    /\ i \in DOMAIN operations
    /\ ~operations[i].terminal
    /\ result[i].outcome = outcome
    /\ operations[i].epoch = recovery.epoch
    /\ result[i].fence >= task.lifecycleFence

Close(i) == operations' = [operations EXCEPT ![i].terminal = TRUE]

\* A commit is recorded: the phase is over, or, when the cancellation came
\* after it, its revision is and the task waits on.
AcceptCommitted(i) ==
    /\ Evident(i, "Committed")
    /\ operations[i].run = task.active
    /\ LET observed == [Accepted(task) EXCEPT !.lifecycleFence = result[i].fence,
                                              !.latestRevision = result[i].revision]
       IN  \/ /\ NotCancelled /\ task.status = "Running"
              /\ operations[i].generation = EffectiveGeneration
              /\ task' = Finished(observed, "Mutating")
           \/ /\ task.cancel = "Cancelling" /\ task.status = "Cancelling"
              /\ operations[i].generation + 1 = task.generation
              /\ task' = observed
    /\ runs' = [runs EXCEPT ![task.active].outcome = "Succeeded",
                            ![task.active].revision = result[i].revision]
    /\ Close(i)
    /\ UNCHANGED <<recovery, c04>>

\* Variant: the fence's evidence is held to the generation before the cancellation, like a commit's.
AcceptFencedBeforeCancel(i) ==
    /\ Evident(i, "Fenced")
    /\ operations[i].run = task.active
    /\ operations[i].generation + 1 = EffectiveGeneration
    /\ task.status = "Cancelling"
    /\ task' = [Accepted(task) EXCEPT
         !.lifecycleFence = result[i].fence, !.status = "Cancelled", !.cancel = "Cancelled",
         !.active = 0, !.activity = "none"]
    /\ runs' = [runs EXCEPT ![task.active].outcome = "Cancelled"]
    /\ Close(i)
    /\ UNCHANGED <<recovery, c04>>

AcceptFenced(i) ==
    /\ Evident(i, "Fenced")
    /\ operations[i].run = task.active
    /\ operations[i].generation = EffectiveGeneration
    /\ task.status = "Cancelling"
    /\ task' = [Accepted(task) EXCEPT
         !.lifecycleFence = result[i].fence, !.status = "Cancelled", !.cancel = "Cancelled",
         !.active = 0, !.activity = "none"]
    /\ runs' = [runs EXCEPT ![task.active].outcome = "Cancelled"]
    /\ Close(i)
    /\ UNCHANGED <<recovery, c04>>

-----------------------------------------------------------------------------
\* A completed task is edited, on its workspace as it is or reconstructed,
\* under the generation after the one in the record.
BeginManualEdit(reconstruct) ==
    /\ Deciding /\ NotCancelled
    /\ task.status = "Completed"
    /\ task.edits < MaxEdits
    /\ EffectiveGeneration <= task.generation + 1
    /\ task' = [Accepted(task) EXCEPT
         !.generation = task.generation + 1, !.status = "Running",
         !.activity = "ManualEdit", !.phase = 1, !.edits = @ + 1,
         !.reconstruct = IF reconstruct THEN "required" ELSE "no",
         !.lifecycleFence = IF reconstruct THEN RequestFence ELSE @]
    /\ IF reconstruct
       THEN CommitOperation(NewOperation(0, "Reconstruct", task.generation + 1,
                                         recovery.epoch))
       ELSE UNCHANGED <<operations, result>>
    /\ UNCHANGED <<runs, recovery, workspace, view>>

\* Variant: the fence the reconstruction left is not recorded.
AcceptReconstructedFence(i) ==
    /\ Evident(i, "Reconstructed") /\ NotCancelled
    /\ operations[i].generation = EffectiveGeneration
    /\ task.reconstruct = "required" /\ task.activity = "ManualEdit"
    /\ task' = [Accepted(task) EXCEPT !.reconstruct = "accepted",
                                      !.latestRevision = result[i].revision]
    /\ Close(i)
    /\ UNCHANGED <<runs, recovery, c04>>

AcceptReconstructed(i) ==
    /\ Evident(i, "Reconstructed") /\ NotCancelled
    /\ operations[i].generation = EffectiveGeneration
    /\ task.reconstruct = "required" /\ task.activity = "ManualEdit"
    /\ task' = [Accepted(task) EXCEPT !.reconstruct = "accepted",
                                      !.lifecycleFence = result[i].fence,
                                      !.latestRevision = result[i].revision]
    /\ Close(i)
    /\ UNCHANGED <<runs, recovery, c04>>

-----------------------------------------------------------------------------
\* An operational fence is raised through this task; when the control plane is
\* ready again a pending cancellation commits a new fence operation.
ApplyOperationalFence(mode) ==
    /\ task.status # "Absent"
    /\ recovery.epoch < MaxEpoch
    /\ recovery' = [epoch |-> recovery.epoch + 1,
                    activityFence |-> recovery.activityFence + 1, mode |-> mode]
    /\ LET generation == EffectiveGeneration + 1
           caughtUp == [task EXCEPT !.generation = generation,
                                    !.recoveryFence = recovery.activityFence + 1]
       IN  IF mode = "FullReady" /\ task.cancel = "Cancelling" /\ task.active # 0
           THEN /\ task' = [caughtUp EXCEPT !.lifecycleFence = RequestFence]
                /\ CommitOperation(NewOperation(task.active, "Fence", generation,
                                                recovery.epoch + 1))
           ELSE /\ task' = caughtUp
                /\ UNCHANGED <<operations, result>>
    /\ UNCHANGED <<runs, workspace, view>>

\* The fence was raised through another task; this one has yet to catch up.
RaisedElsewhere(mode) ==
    /\ recovery.epoch < MaxEpoch
    /\ recovery' = [epoch |-> recovery.epoch + 1,
                    activityFence |-> recovery.activityFence + 1, mode |-> mode]
    /\ UNCHANGED <<aggregate, c04>>

CatchUp ==
    /\ task.status # "Absent"
    /\ task.recoveryFence < recovery.activityFence
    /\ IF recovery.mode = "FullReady" /\ task.cancel = "Cancelling" /\ task.active # 0
       THEN /\ task' = [Accepted(task) EXCEPT !.lifecycleFence = RequestFence]
            /\ CommitOperation(NewOperation(task.active, "Fence", EffectiveGeneration,
                                            recovery.epoch))
       ELSE /\ task' = Accepted(task)
            /\ UNCHANGED <<operations, result>>
    /\ UNCHANGED <<runs, recovery, workspace, view>>

-----------------------------------------------------------------------------
\* C03 opens the view of a mutating run for its lease, once.
OpenView(r) ==
    /\ r \in DOMAIN view /\ view[r] = "none"
    /\ RunKind(r) = "Mutating" /\ runs[r].outcome = "Running"
    /\ view' = [view EXCEPT ![r] = "open"]
    /\ UNCHANGED <<aggregate, recovery, workspace, result>>

\* The view of a failed run is discarded by C03; C04 keeps its fence.
DiscardView(r) ==
    /\ r \in DOMAIN view /\ view[r] = "open"
    /\ runs[r].outcome = "Failed"
    /\ view' = [view EXCEPT ![r] = "discarded"]
    /\ UNCHANGED <<aggregate, recovery, workspace, result>>

\* Of one scope, nothing takes effect once a newer operation has.
Deliverable(i) ==
    /\ i \in DOMAIN operations
    /\ result[i].outcome = "none"
    /\ ~\E j \in DOMAIN operations :
          /\ operations[j].run = operations[i].run
          /\ j > i /\ result[j].outcome # "none"

Answered(i, outcome, revision) ==
    result' = [result EXCEPT ![i] = [outcome |-> outcome, fence |-> workspace'.fence,
                                     revision |-> revision]]

UpToDate(i) == operations[i].fence = workspace.fence /\ operations[i].base = workspace.revision
OpenFor(i) == operations[i].run # 0 /\ view[operations[i].run] = "open"

EnactCommit(i) ==
    /\ Deliverable(i) /\ operations[i].purpose = "Commit"
    /\ UpToDate(i) /\ OpenFor(i)
    /\ workspace' = [fence |-> workspace.fence + 1, revision |-> workspace.revision + 1]
    /\ view' = [view EXCEPT ![operations[i].run] = "committed"]
    /\ Answered(i, "Committed", workspace.revision + 1)
    /\ UNCHANGED <<aggregate, recovery>>

\* Variant: C04 fences a view that already has its terminal decision.
EnactFenceTerminal(i) ==
    /\ Deliverable(i) /\ operations[i].purpose = "Fence"
    /\ UpToDate(i)
    /\ workspace' = [workspace EXCEPT !.fence = @ + 1]
    /\ view' = [view EXCEPT ![operations[i].run] = "fenced"]
    /\ Answered(i, "Fenced", workspace.revision)
    /\ UNCHANGED <<aggregate, recovery>>

EnactFence(i) ==
    /\ Deliverable(i) /\ operations[i].purpose = "Fence"
    /\ UpToDate(i) /\ OpenFor(i)
    /\ workspace' = [workspace EXCEPT !.fence = @ + 1]
    /\ view' = [view EXCEPT ![operations[i].run] = "fenced"]
    /\ Answered(i, "Fenced", workspace.revision)
    /\ UNCHANGED <<aggregate, recovery>>

EnactReconstruct(i) ==
    /\ Deliverable(i) /\ operations[i].purpose = "Reconstruct"
    /\ UpToDate(i)
    /\ workspace' = [workspace EXCEPT !.fence = @ + 1]
    /\ Answered(i, "Reconstructed", workspace.revision)
    /\ UNCHANGED <<aggregate, recovery, view>>

\* C04 refuses and the refusal is what it will always answer; no evidence.
Refuse(i) ==
    /\ Deliverable(i)
    /\ ~UpToDate(i) \/ (operations[i].run # 0 /\ ~OpenFor(i))
    /\ result' = [result EXCEPT ![i].outcome = "Refused"]
    /\ UNCHANGED <<aggregate, recovery, workspace, view>>

-----------------------------------------------------------------------------
Enact(i) == EnactCommit(i) \/ EnactFence(i) \/ EnactReconstruct(i) \/ Refuse(i)
AcceptEvidence(i) == AcceptCommitted(i) \/ AcceptFenced(i) \/ AcceptReconstructed(i)

Next ==
    \/ StartTask \/ MakeWorkAvailable \/ RetryPhase \/ RetryRuntimeRun \/ Confirm
    \/ \E i \in 1..MaxRuntimes, outcome \in {"Succeeded", "Failed"} : AcceptRuntime(i, outcome)
    \/ RejectValidation \/ AcceptValidation
    \/ \E outcome \in {"Succeeded", "Failed"} : AcceptPublication(outcome)
    \/ CancelTask
    \/ \E reconstruct \in BOOLEAN : BeginManualEdit(reconstruct)
    \/ \E mode \in {"FullReady", "ReadOnly"} : ApplyOperationalFence(mode) \/ RaisedElsewhere(mode)
    \/ CatchUp
    \/ \E r \in DOMAIN runs : OpenView(r) \/ DiscardView(r)
    \/ \E i \in DOMAIN operations : Enact(i) \/ AcceptEvidence(i)

Spec == Init /\ [][Next]_vars

\* Operations are delivered and what C04 answers is presented as evidence.
Fairness ==
    /\ WF_vars(\E i \in DOMAIN operations : Enact(i))
    /\ WF_vars(\E i \in DOMAIN operations : AcceptEvidence(i))
    /\ WF_vars(CatchUp)

FairSpec == Spec /\ Fairness

-----------------------------------------------------------------------------
(* The record, its runs and operations, and the state of C04 keep their    *)
(* types, and the three sequences of runs and operations their lengths.    *)
TypeOK ==
    /\ task \in Task
    /\ runs \in Seq(PhaseRun)
    /\ operations \in Seq(Operation)
    /\ recovery \in [epoch : Nat, activityFence : Nat, mode : {"FullReady", "ReadOnly"}]
    /\ workspace \in [fence : Nat, revision : Nat]
    /\ view \in Seq({"none", "open", "committed", "fenced", "discarded"})
    /\ result \in Seq(Result)
    /\ Len(view) = Len(runs) /\ Len(result) = Len(operations)

Done(activity, edit, phase, before) ==
    \E q \in 1..before : /\ runs[q].activity = activity /\ runs[q].edit = edit
                         /\ runs[q].phase = phase /\ runs[q].outcome = "Succeeded"

(* A phase is begun only when every phase before it succeeded in the same  *)
(* activity, whatever was cancelled, retried or fenced by recovery between. *)
PhasesInOrder ==
    \A r \in DOMAIN runs : \A p \in 1..(runs[r].phase - 1) :
        Done(runs[r].activity, runs[r].edit, p, r - 1)

(* The record and C04 agree on what was committed: a run that succeeded    *)
(* has the revision its view committed, a run that was cancelled or failed *)
(* committed nothing, and only the run in progress may be ahead.           *)
LedgerMatchesWorkspace ==
    \A r \in DOMAIN runs : RunKind(r) = "Mutating" =>
        /\ runs[r].outcome = "Succeeded" => view[r] = "committed"
        /\ view[r] = "committed" => runs[r].outcome = "Succeeded" \/ r = task.active

(* What the record says at every moment of a task's life (Decide): phases  *)
(* in order, and of what was committed neither more nor less than C04.     *)
RecordInvariant == TypeOK /\ PhasesInOrder /\ LedgerMatchesWorkspace

(* When the next phase can be begun, the requests its operations would     *)
(* carry are ones C04 accepts: the record knows the current revision and   *)
(* fence, after any history of retries, edits and recoveries.              *)
RecordUpToDateAtRest ==
    task.status \in {"Ready", "Running", "Failed", "Completed"} /\ task.active = 0
            /\ task.reconstruct # "required" =>
        RequestBase = workspace.revision /\ RequestFence = workspace.fence

(* The outcome of a phase run is decided once: neither late evidence nor   *)
(* a cancellation, a retry or a recovery reopens or overwrites it.         *)
OutcomesStand ==
    [][\A r \in DOMAIN runs :
          runs[r].outcome # "Running" => runs'[r].outcome = runs[r].outcome]_vars

(* Once a task is cancelled its workspace gets no further revision, though *)
(* a commit may still be on its way to C04.                                *)
NoRevisionAfterCancelled ==
    [][task.status = "Cancelled" => workspace'.revision = workspace.revision]_vars

(* A cancellation whose fence C04 accepted ends, unless recovery moves on  *)
(* before its evidence is presented.                                       *)
FencedCancellationEnds ==
    \A e \in 1..MaxEpoch :
        (/\ task.status = "Cancelling" /\ recovery.epoch = e
         /\ \E i \in DOMAIN operations : result[i].outcome = "Fenced" /\ operations[i].epoch = e)
          ~> (task.status = "Cancelled" \/ recovery.epoch # e)

(* What the documentation says of a cancellation that a commit came before: *)
(* the exact revision of the commit is recorded before the task stops.     *)
CommitFirstIsRecorded ==
    (task.status = "Cancelling" /\ view[task.active] = "committed")
        ~> (task.status = "Cancelling" => ActiveRun.outcome = "Succeeded")
=============================================================================
