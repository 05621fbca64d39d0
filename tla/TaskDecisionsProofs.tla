------------------------- MODULE TaskDecisionsProofs -------------------------
(***************************************************************************)
(* What the record of a task says at every moment of its life, for every   *)
(* pipeline and any number of runs, retries, edits and recoveries.         *)
(***************************************************************************)
EXTENDS TaskDecisions, FiniteSetTheorems, TLAPS

Waiting == {"Ready", "Running", "AwaitingConfirmation", "Failed", "Cancelling"}

\* The status says whether an activity is under way, a run active, a
\* cancellation requested, a confirmation awaited.
StatusFits ==
    /\ task.recoveryFence <= recovery.activityFence
    /\ task.status = "Absent" => task.phase = 1
    /\ task.status \in Waiting =>
          task.activity # "none" /\ task.phase \in 1..Len(Pipeline[task.activity])
    /\ task.status \in {"Absent", "Ready", "Failed", "Cancelled", "Completed"} => task.active = 0
    /\ task.status \in {"AwaitingConfirmation", "Cancelling"} => task.active # 0
    /\ task.status = "AwaitingConfirmation" => Kind(task) = "ConfirmationGate"
    /\ task.status = "Cancelling" => Kind(task) = "Mutating"
    /\ task.status = "Cancelling" <=> task.cancel = "Cancelling"
    /\ task.status = "Cancelled" <=> task.cancel = "Cancelled"
    /\ task.reconstruct = "required" /\ task.cancel = "NotRequested" =>
          task.status = "Running" /\ task.active = 0

\* The active run is one of the phase the task is in, and still open unless its
\* commit was recorded under a cancellation.
ActiveFits ==
    /\ \A r \in DOMAIN runs : runs[r].phase \in 1..Len(Pipeline[runs[r].activity])
    /\ task.active # 0 =>
          /\ task.active \in DOMAIN runs
          /\ ActiveRun.activity = task.activity /\ ActiveRun.edit = task.edits
          /\ ActiveRun.phase = task.phase
          /\ ActiveRun.outcome = "Running"
             \/ (task.status = "Cancelling" /\ ActiveRun.outcome = "Succeeded")

\* The phases before the current one succeeded in the current activity.
PhasesDone ==
    /\ PhasesInOrder
    /\ task.activity # "none" =>
          \A p \in 1..(task.phase - 1) : Done(task.activity, task.edits, p, Len(runs))

\* Whom an operation is of, and what can still come of it: a commit is of the
\* active run until it is recorded or fenced, a fence needs a cancellation.
OperationFits(i) ==
    /\ operations[i].purpose \in {"Commit", "Fence"} =>
          operations[i].run \in DOMAIN runs /\ RunKind(operations[i].run) = "Mutating"
    /\ operations[i].purpose = "Commit" =>
          /\ runs[operations[i].run].validation = "Accepted"
          /\ \/ operations[i].run = task.active
             \/ runs[operations[i].run].outcome = "Succeeded"
             \/ view[operations[i].run] = "fenced"
    /\ operations[i].purpose = "Fence" => task.cancel # "NotRequested"
    /\ operations[i].purpose = "Reconstruct" => operations[i].run = 0
    /\ operations[i].purpose = "Reconstruct" /\ ~operations[i].terminal
          /\ task.cancel = "NotRequested" => task.reconstruct = "required"
    /\ operations[i].terminal => result[i].outcome # "none"

OperationsFit == \A i \in DOMAIN operations : OperationFits(i)

OneReconstruction ==
    task.cancel = "NotRequested" =>
        \A i, j \in DOMAIN operations :
            /\ operations[i].purpose = "Reconstruct" /\ ~operations[i].terminal
            /\ operations[j].purpose = "Reconstruct" /\ ~operations[j].terminal
            => i = j

\* C04's answers and views agree.
AnswersFit ==
    /\ \A i \in DOMAIN operations :
          /\ result[i].outcome = "Committed" =>
                operations[i].purpose = "Commit" /\ view[operations[i].run] = "committed"
          /\ result[i].outcome = "Fenced" =>
                operations[i].purpose = "Fence" /\ view[operations[i].run] = "fenced"
          /\ result[i].outcome = "Reconstructed" => operations[i].purpose = "Reconstruct"
    /\ \A r \in DOMAIN runs : view[r] = "committed" => runs[r].validation = "Accepted"

\* What the record knows of the workspace is so, unless an operation that changes
\* it is under way; then the answer of that operation is.
Synced ==
    /\ task.lifecycleFence # 0 => task.lifecycleFence = workspace.fence
    /\ task.latestRevision # 0 => task.latestRevision = workspace.revision

Committing == task.active # 0 /\ Kind(task) = "Mutating" /\ ActiveRun.validation = "Accepted"

Tells(i) == result[i].fence = workspace.fence /\ result[i].revision = workspace.revision

RecordFits ==
    task.cancel = "NotRequested" =>
        /\ ~Committing /\ task.reconstruct # "required" => Synced
        /\ \A i \in DOMAIN operations :
              result[i].outcome = "Committed" /\ operations[i].run = task.active => Tells(i)
        /\ \A i \in DOMAIN operations :
              result[i].outcome = "Reconstructed" /\ ~operations[i].terminal => Tells(i)

DInv == /\ TypeOK /\ StatusFits /\ ActiveFits /\ PhasesDone /\ LedgerMatchesWorkspace
        /\ OperationsFit /\ OneReconstruction /\ AnswersFit /\ RecordFits

-----------------------------------------------------------------------------
(* Pipelines, and the record as recovery leaves it.                        *)

LEMMA PipelineKinds ==
    ASSUME NEW activity \in Activities
    PROVE  /\ Pipeline[activity] \in Seq(Kinds) /\ Len(Pipeline[activity]) \in Nat \ {0}
           /\ \A p \in 1..Len(Pipeline[activity]) : Pipeline[activity][p] \in Kinds
  BY TaskAssumption

\* A decision catches the record up with recovery and changes nothing else by that.
LEMMA CaughtUp ==
    ASSUME TypeOK, StatusFits, NEW t \in Task
    PROVE  /\ EffectiveGeneration \in Nat \ {0}
           /\ Accepted(t) \in Task
           /\ Accepted(t).generation = EffectiveGeneration
           /\ Accepted(t).recoveryFence = recovery.activityFence
           /\ Accepted(t).status = t.status /\ Accepted(t).activity = t.activity
           /\ Accepted(t).phase = t.phase /\ Accepted(t).active = t.active
           /\ Accepted(t).lifecycleFence = t.lifecycleFence
           /\ Accepted(t).latestRevision = t.latestRevision
           /\ Accepted(t).cancel = t.cancel /\ Accepted(t).edits = t.edits
           /\ Accepted(t).reconstruct = t.reconstruct
  <1>1. /\ task \in Task /\ recovery.activityFence \in Nat
        /\ task.recoveryFence <= recovery.activityFence
    BY DEF TypeOK, StatusFits
  <1>2. EffectiveGeneration \in Nat \ {0}
    BY <1>1 DEF EffectiveGeneration, Task
  <1> QED BY <1>1, <1>2 DEF Accepted, Task

LEMMA Requested ==
    ASSUME TypeOK
    PROVE  RequestFence \in Nat /\ RequestBase \in Nat
  BY DEF TypeOK, Task, RequestFence, RequestBase

-----------------------------------------------------------------------------
(* Most steps of the record move it and leave C04 alone: at most the row   *)
(* of the active run changes and at most one operation is committed.       *)

\* The rows of the runs stay what they are of, and only the active one's changes.
Kept ==
    /\ runs' \in Seq(PhaseRun) /\ Len(runs') = Len(runs) /\ DOMAIN runs' = DOMAIN runs
    /\ \A r \in DOMAIN runs :
          /\ runs'[r].activity = runs[r].activity /\ runs'[r].edit = runs[r].edit
          /\ runs'[r].phase = runs[r].phase
          /\ r # task.active => runs'[r] = runs[r]

Decided(outcome, validation) ==
    /\ Kept
    /\ task.active \in DOMAIN runs
    /\ runs'[task.active].outcome = outcome /\ runs'[task.active].validation = validation

\* Decided rows stand, and a commit is not declared by the record alone.
RunsMove ==
    /\ Kept
    /\ \A r \in DOMAIN runs :
          /\ runs'[r].outcome = runs[r].outcome
             \/ (runs[r].outcome = "Running"
                 /\ (runs'[r].outcome = "Succeeded" => RunKind(r) # "Mutating"))
          /\ runs'[r].validation = runs[r].validation \/ runs[r].validation = "none"

Admissible(operation) ==
    /\ ~operation.terminal
    /\ operation.purpose \in {"Commit", "Fence"} =>
          operation.run \in DOMAIN runs /\ RunKind(operation.run) = "Mutating"
    /\ operation.purpose = "Commit" =>
          operation.run = task'.active /\ runs'[operation.run].validation = "Accepted"
    /\ operation.purpose = "Fence" => task'.cancel # "NotRequested"
    /\ operation.purpose = "Reconstruct" =>
          /\ operation.run = 0
          /\ task'.cancel = "NotRequested" =>
                task'.reconstruct = "required" /\ task.reconstruct # "required"

OperationsMove ==
    \/ UNCHANGED <<operations, result>>
    \/ \E operation \in Operation : CommitOperation(operation) /\ Admissible(operation)

\* The phase is left for the next only when its run succeeded.
PhaseMoves ==
    \/ task'.activity = "none" \/ task'.phase = 1
    \/ /\ task'.activity = task.activity /\ task'.edits = task.edits
       /\ \/ task'.phase = task.phase
          \/ /\ task'.phase = task.phase + 1 /\ task.active # 0
             /\ runs'[task.active].outcome = "Succeeded"

SuccessStands ==
    \A r \in DOMAIN runs : runs[r].outcome = "Succeeded" => runs'[r].outcome = "Succeeded"

TaskMoves ==
    /\ task'.active = task.active \/ (task'.active = 0 /\ ~Committing)
    /\ task'.cancel = "NotRequested" => task.cancel = "NotRequested"
    /\ task'.cancel = "NotRequested" /\ task.reconstruct = "required" =>
          task'.reconstruct = "required"
    /\ task'.cancel = "NotRequested" /\ ~Committing' /\ task'.reconstruct # "required" =>
          /\ ~Committing /\ task.reconstruct # "required"
          /\ task'.lifecycleFence = task.lifecycleFence
          /\ task'.latestRevision = task.latestRevision
    /\ PhaseMoves

Moves ==
    /\ TypeOK' /\ StatusFits' /\ ActiveFits'
    /\ RunsMove /\ OperationsMove /\ TaskMoves /\ UNCHANGED <<workspace, view>>

\* What had succeeded has, when rows only gain outcomes.
LEMMA DoneStays ==
    ASSUME TypeOK, Kept, SuccessStands
    PROVE  \A activity, edit, phase, before :
              before \in 0..Len(runs) /\ Done(activity, edit, phase, before) =>
                 \E q \in 1..before :
                    /\ runs'[q].activity = activity /\ runs'[q].edit = edit
                    /\ runs'[q].phase = phase /\ runs'[q].outcome = "Succeeded"
  <1>1. DOMAIN runs = 1..Len(runs) /\ Len(runs) \in Nat
    BY DEF TypeOK
  <1>2. SUFFICES ASSUME NEW activity, NEW edit, NEW phase, NEW before \in 0..Len(runs),
                        Done(activity, edit, phase, before)
                 PROVE  \E q \in 1..before :
                    /\ runs'[q].activity = activity /\ runs'[q].edit = edit
                    /\ runs'[q].phase = phase /\ runs'[q].outcome = "Succeeded"
    OBVIOUS
  <1>3. PICK q \in 1..before :
          /\ runs[q].activity = activity /\ runs[q].edit = edit
          /\ runs[q].phase = phase /\ runs[q].outcome = "Succeeded"
    BY <1>2 DEF Done
  <1>4. q \in DOMAIN runs
    BY <1>1
  <1>5. /\ runs'[q].activity = activity /\ runs'[q].edit = edit
        /\ runs'[q].phase = phase /\ runs'[q].outcome = "Succeeded"
    BY <1>3, <1>4 DEF SuccessStands, Kept
  <1> QED BY <1>5

LEMMA PhasesKept ==
    ASSUME DInv, Kept, SuccessStands, PhaseMoves
    PROVE  PhasesDone'
  <1>1. /\ DOMAIN runs = 1..Len(runs) /\ Len(runs) \in Nat /\ DOMAIN runs' = DOMAIN runs
        /\ Len(runs') = Len(runs) /\ task.phase \in Nat /\ TypeOK
    <2>1. DOMAIN runs = 1..Len(runs) /\ Len(runs) \in Nat /\ TypeOK
      BY DEF DInv, TypeOK
    <2>2. task.phase \in Nat
      BY DEF DInv, TypeOK, Task
    <2> QED BY <2>1, <2>2 DEF Kept
  <1>2. PhasesInOrder'
    <2>1. SUFFICES ASSUME NEW r \in DOMAIN runs, NEW p \in 1..(runs'[r].phase - 1)
                   PROVE  \E q \in 1..(r - 1) :
                      /\ runs'[q].activity = runs'[r].activity /\ runs'[q].edit = runs'[r].edit
                      /\ runs'[q].phase = p /\ runs'[q].outcome = "Succeeded"
      BY <1>1 DEF PhasesInOrder, Done
    <2>2. /\ runs'[r].activity = runs[r].activity /\ runs'[r].edit = runs[r].edit
          /\ runs'[r].phase = runs[r].phase
      BY <1>1 DEF Kept
    <2>3. Done(runs[r].activity, runs[r].edit, p, r - 1)
      BY <2>2 DEF DInv, PhasesDone, PhasesInOrder
    <2>4. r - 1 \in 0..Len(runs)
      BY <1>1
    <2> QED BY <1>1, <2>2, <2>3, <2>4, DoneStays
  <1>3. ASSUME task'.activity # "none", NEW p \in 1..(task'.phase - 1)
        PROVE  \E q \in 1..Len(runs') :
                  /\ runs'[q].activity = task'.activity /\ runs'[q].edit = task'.edits
                  /\ runs'[q].phase = p /\ runs'[q].outcome = "Succeeded"
    <2> DEFINE Found == \E q \in 1..Len(runs') :
                  /\ runs'[q].activity = task'.activity /\ runs'[q].edit = task'.edits
                  /\ runs'[q].phase = p /\ runs'[q].outcome = "Succeeded"
    <2>1. CASE task'.phase = 1
      BY <2>1
    <2>2. ASSUME task'.activity = task.activity, task'.edits = task.edits, p \in 1..(task.phase - 1)
          PROVE  Found
      <3>1. Done(task.activity, task.edits, p, Len(runs))
        BY <1>3, <2>2 DEF DInv, PhasesDone
      <3>2. Len(runs) \in 0..Len(runs)
        BY <1>1
      <3> QED BY <1>1, <2>2, <3>1, <3>2, DoneStays
    <2>3. CASE /\ task'.activity = task.activity /\ task'.edits = task.edits
               /\ task'.phase = task.phase + 1 /\ task.active # 0
               /\ runs'[task.active].outcome = "Succeeded" /\ p = task.phase
      <3>1. /\ task.active \in DOMAIN runs /\ runs[task.active].activity = task.activity
            /\ runs[task.active].edit = task.edits /\ runs[task.active].phase = task.phase
        BY <2>3 DEF DInv, ActiveFits, ActiveRun
      <3>2. /\ runs'[task.active].activity = task.activity
            /\ runs'[task.active].edit = task.edits /\ runs'[task.active].phase = task.phase
        BY <1>1, <3>1 DEF Kept
      <3> QED BY <1>1, <2>3, <3>1, <3>2
    <2>4. \/ task'.phase = 1
          \/ /\ task'.activity = task.activity /\ task'.edits = task.edits
             /\ \/ task'.phase = task.phase
                \/ /\ task'.phase = task.phase + 1 /\ task.active # 0
                   /\ runs'[task.active].outcome = "Succeeded"
      BY <1>3 DEF PhaseMoves
    <2>5. \/ p \in 1..(task.phase - 1) \/ p = task.phase \/ task'.phase = 1
      BY <1>1, <1>3, <2>4
    <2> QED BY <1>1, <2>1, <2>2, <2>3, <2>4, <2>5
  <1>4. task'.activity # "none" =>
          \A p \in 1..(task'.phase - 1) : Done(task.activity, task.edits, p, Len(runs))'
    BY <1>3 DEF Done
  <1> QED BY <1>2, <1>4 DEF PhasesDone

LEMMA MoveKeepsPhases ==
    ASSUME DInv, Moves
    PROVE  PhasesDone'
  <1>1. Kept /\ SuccessStands /\ PhaseMoves
    BY DEF Moves, RunsMove, TaskMoves, SuccessStands
  <1> QED BY <1>1, PhasesKept

\* The row of a run decided by C04's commit is Succeeded, and only that one.
LEMMA MoveKeepsLedger ==
    ASSUME DInv, Moves
    PROVE  LedgerMatchesWorkspace' /\ AnswersFit'
  <1>1. /\ DOMAIN runs' = DOMAIN runs /\ RunsMove /\ view' = view
        /\ \A r \in DOMAIN runs : Pipeline[runs'[r].activity][runs'[r].phase] = RunKind(r)
    BY DEF Moves, RunsMove, Kept, RunKind
  <1>2. ASSUME NEW r \in DOMAIN runs, RunKind(r) = "Mutating", view[r] = "committed"
        PROVE  runs'[r].outcome = "Succeeded" \/ r = task'.active
    <2>1. runs[r].outcome = "Succeeded" \/ r = task.active
      BY <1>2 DEF DInv, LedgerMatchesWorkspace
    <2>2. CASE runs[r].outcome = "Succeeded"
      BY <1>1, <2>2 DEF RunsMove
    <2>3. CASE r = task.active
      <3>1. runs[r].validation = "Accepted"
        BY <1>2 DEF DInv, AnswersFit
      <3>2. r # 0
        BY DEF DInv, TypeOK
      <3>3. Kind(task) = "Mutating"
        BY <1>2, <2>3, <3>2 DEF DInv, ActiveFits, ActiveRun, Kind, RunKind
      <3>4. Committing
        BY <2>3, <3>1, <3>2, <3>3 DEF Committing, ActiveRun
      <3> QED BY <2>3, <3>4 DEF Moves, TaskMoves
    <2> QED BY <2>1, <2>2, <2>3
  <1>3. ASSUME NEW r \in DOMAIN runs, RunKind(r) = "Mutating", runs'[r].outcome = "Succeeded"
        PROVE  view[r] = "committed"
    BY <1>1, <1>3 DEF RunsMove, DInv, LedgerMatchesWorkspace
  <1>4. LedgerMatchesWorkspace'
    BY <1>1, <1>2, <1>3 DEF LedgerMatchesWorkspace, RunKind
  <1>5. \A r \in DOMAIN runs : view[r] = "committed" => runs'[r].validation = "Accepted"
    BY <1>1 DEF RunsMove, DInv, AnswersFit
  <1>6. ASSUME NEW i \in DOMAIN operations'
        PROVE  /\ result'[i].outcome = "Committed" =>
                     operations'[i].purpose = "Commit" /\ view[operations'[i].run] = "committed"
               /\ result'[i].outcome = "Fenced" =>
                     operations'[i].purpose = "Fence" /\ view[operations'[i].run] = "fenced"
               /\ result'[i].outcome = "Reconstructed" => operations'[i].purpose = "Reconstruct"
    <2>1. CASE UNCHANGED <<operations, result>>
      BY <2>1 DEF DInv, AnswersFit
    <2>2. CASE \E operation \in Operation : CommitOperation(operation) /\ Admissible(operation)
      BY <2>2 DEF DInv, AnswersFit, CommitOperation, TypeOK
    <2> QED BY <2>1, <2>2 DEF Moves, OperationsMove
  <1> QED BY <1>1, <1>4, <1>5, <1>6 DEF AnswersFit

LEMMA MoveKeepsOperations ==
    ASSUME DInv, Moves
    PROVE  OperationsFit' /\ OneReconstruction'
  <1>1. /\ DOMAIN runs' = DOMAIN runs /\ RunsMove /\ view' = view /\ TaskMoves
        /\ \A r \in DOMAIN runs : Pipeline[runs'[r].activity][runs'[r].phase] = RunKind(r)
    BY DEF Moves, RunsMove, Kept, RunKind
  <1>2. ASSUME NEW i \in DOMAIN operations, operations'[i] = operations[i], result'[i] = result[i]
        PROVE  OperationFits(i)'
    <2>1. OperationFits(i)
      BY DEF DInv, OperationsFit
    <2>2. operations[i].purpose \in {"Commit", "Fence"} =>
             operations[i].run \in DOMAIN runs'
             /\ Pipeline[runs'[operations[i].run].activity][runs'[operations[i].run].phase]
                = "Mutating"
      BY <1>1, <2>1 DEF OperationFits
    <2>3. ASSUME operations[i].purpose = "Commit"
          PROVE  /\ runs'[operations[i].run].validation = "Accepted"
                 /\ \/ operations[i].run = task'.active
                    \/ runs'[operations[i].run].outcome = "Succeeded"
                    \/ view[operations[i].run] = "fenced"
      <3> DEFINE r == operations[i].run
      <3>1. /\ r \in DOMAIN runs /\ RunKind(r) = "Mutating" /\ runs[r].validation = "Accepted"
            /\ r = task.active \/ runs[r].outcome = "Succeeded" \/ view[r] = "fenced"
        BY <2>1, <2>3 DEF OperationFits
      <3>2. runs'[r].validation = "Accepted"
        BY <1>1, <3>1 DEF RunsMove
      <3>3. runs[r].outcome = "Succeeded" => runs'[r].outcome = "Succeeded"
        BY <1>1, <3>1 DEF RunsMove
      <3>4. r = task.active => r = task'.active
        <4>1. r # 0
          BY <3>1 DEF DInv, TypeOK
        <4>2. r = task.active => Kind(task) = "Mutating"
          BY <3>1, <4>1 DEF DInv, ActiveFits, ActiveRun, Kind, RunKind
        <4>3. r = task.active => Committing
          BY <3>1, <4>1, <4>2 DEF Committing, ActiveRun
        <4> QED BY <1>1, <4>3 DEF TaskMoves
      <3> QED BY <3>1, <3>2, <3>3, <3>4
    <2>4. operations[i].purpose = "Fence" => task'.cancel # "NotRequested"
      BY <1>1, <2>1 DEF OperationFits, TaskMoves
    <2>5. operations[i].purpose = "Reconstruct" /\ ~operations[i].terminal
             /\ task'.cancel = "NotRequested" => task'.reconstruct = "required"
      BY <1>1, <2>1 DEF OperationFits, TaskMoves
    <2> QED BY <1>1, <1>2, <2>1, <2>2, <2>3, <2>4, <2>5 DEF OperationFits, RunKind
  <1>3. CASE UNCHANGED <<operations, result>>
    <2>1. OneReconstruction'
      BY <1>1, <1>3 DEF DInv, OneReconstruction, TaskMoves
    <2> QED BY <1>2, <1>3, <2>1 DEF OperationsFit
  <1>4. ASSUME NEW operation \in Operation, CommitOperation(operation), Admissible(operation)
        PROVE  OperationsFit' /\ OneReconstruction'
    <2> PICK n : n = Len(operations) + 1
      OBVIOUS
    <2>1. /\ DOMAIN operations' = DOMAIN operations \cup {n} /\ operations'[n] = operation
          /\ \A i \in DOMAIN operations :
                operations'[i] = operations[i] /\ result'[i] = result[i]
      BY <1>4 DEF CommitOperation, DInv, TypeOK
    <2>2. OperationFits(n)'
      <3>1. operation.purpose = "Commit" \/ operation.purpose # "Commit"
        OBVIOUS
      <3> QED BY <1>1, <1>4, <2>1 DEF Admissible, OperationFits, RunKind
    <2>3. OperationsFit'
      BY <1>2, <2>1, <2>2 DEF OperationsFit
    <2>4. ASSUME task'.cancel = "NotRequested",
                 NEW i \in DOMAIN operations', NEW j \in DOMAIN operations',
                 operations'[i].purpose = "Reconstruct", ~operations'[i].terminal,
                 operations'[j].purpose = "Reconstruct", ~operations'[j].terminal
          PROVE  i = j
      <3>1. task.cancel = "NotRequested"
        BY <1>1, <2>4 DEF TaskMoves
      <3>2. CASE i \in DOMAIN operations /\ j \in DOMAIN operations
        BY <2>1, <2>4, <3>1, <3>2 DEF DInv, OneReconstruction
      <3>3. ASSUME NEW k \in DOMAIN operations, operations[k].purpose = "Reconstruct",
                   ~operations[k].terminal, operation.purpose = "Reconstruct"
            PROVE  FALSE
        <4>1. task.reconstruct = "required"
          BY <3>1, <3>3 DEF DInv, OperationsFit, OperationFits
        <4> QED BY <1>4, <2>4, <3>3, <4>1 DEF Admissible
      <3> QED BY <2>1, <2>4, <3>2, <3>3
    <2> QED BY <2>3, <2>4 DEF OneReconstruction
  <1> QED BY <1>3, <1>4 DEF Moves, OperationsMove

LEMMA MoveKeepsRecord ==
    ASSUME DInv, Moves
    PROVE  RecordFits'
  <1>1. SUFFICES ASSUME task'.cancel = "NotRequested"
                 PROVE  /\ ~Committing' /\ task'.reconstruct # "required" => Synced'
                        /\ \A i \in DOMAIN operations' :
                              result'[i].outcome = "Committed"
                                 /\ operations'[i].run = task'.active => Tells(i)'
                        /\ \A i \in DOMAIN operations' :
                              result'[i].outcome = "Reconstructed" /\ ~operations'[i].terminal
                                 => Tells(i)'
    BY DEF RecordFits
  <1>2. /\ TaskMoves /\ UNCHANGED <<workspace, view>> /\ RecordFits
        /\ task.cancel = "NotRequested"
    BY <1>1 DEF Moves, DInv, TaskMoves
  <1>3. ASSUME ~Committing', task'.reconstruct # "required"
        PROVE  Synced'
    <2>1. /\ ~Committing /\ task.reconstruct # "required"
          /\ task'.lifecycleFence = task.lifecycleFence
          /\ task'.latestRevision = task.latestRevision
      BY <1>1, <1>2, <1>3 DEF TaskMoves
    <2>2. Synced
      BY <1>2, <2>1 DEF RecordFits
    <2> QED BY <1>2, <2>1, <2>2 DEF Synced
  <1>4. ASSUME NEW i \in DOMAIN operations, result[i].outcome = "Committed",
               operations[i].run = task'.active
        PROVE  operations[i].run = task.active
    <2>1. operations[i].run \in DOMAIN runs
      BY <1>4 DEF DInv, AnswersFit, OperationsFit, OperationFits
    <2>2. operations[i].run # 0
      BY <2>1 DEF DInv, TypeOK
    <2> QED BY <1>2, <1>4, <2>2 DEF TaskMoves
  <1>5. \A i \in DOMAIN operations' :
           /\ result'[i].outcome \in {"Committed", "Reconstructed"} => i \in DOMAIN operations
           /\ i \in DOMAIN operations =>
                 operations'[i] = operations[i] /\ result'[i] = result[i]
    <2>1. CASE UNCHANGED <<operations, result>>
      BY <2>1
    <2>2. CASE \E operation \in Operation : CommitOperation(operation) /\ Admissible(operation)
      BY <2>2 DEF CommitOperation, DInv, TypeOK
    <2> QED BY <2>1, <2>2 DEF Moves, OperationsMove
  <1>6. ASSUME NEW i \in DOMAIN operations',
               \/ (result'[i].outcome = "Committed" /\ operations'[i].run = task'.active)
               \/ (result'[i].outcome = "Reconstructed" /\ ~operations'[i].terminal)
        PROVE  Tells(i)'
    <2>1. /\ i \in DOMAIN operations /\ operations'[i] = operations[i] /\ result'[i] = result[i]
      BY <1>5, <1>6
    <2>2. Tells(i)
      BY <1>2, <1>4, <1>6, <2>1 DEF RecordFits
    <2> QED BY <1>2, <2>1, <2>2 DEF Tells
  <1>7. /\ \A i \in DOMAIN operations' :
              result'[i].outcome = "Committed" /\ operations'[i].run = task'.active => Tells(i)'
        /\ \A i \in DOMAIN operations' :
              result'[i].outcome = "Reconstructed" /\ ~operations'[i].terminal => Tells(i)'
    BY <1>6 DEF Tells
  <1> QED BY <1>3, <1>7

\* A move of the record keeps everything.
LEMMA MoveKeeps ==
    ASSUME DInv, Moves
    PROVE  DInv'
  BY MoveKeepsPhases, MoveKeepsLedger, MoveKeepsOperations, MoveKeepsRecord DEF Moves, DInv

-----------------------------------------------------------------------------
(* What the decisions do to the rows of the runs and to the record. *)

LEMMA RowWritten ==
    ASSUME TypeOK, task.active \in DOMAIN runs, NEW row \in PhaseRun,
           row.activity = ActiveRun.activity, row.edit = ActiveRun.edit,
           row.phase = ActiveRun.phase, runs' = [runs EXCEPT ![task.active] = row]
    PROVE  Decided(row.outcome, row.validation)
  <1>1. runs \in Seq(PhaseRun)
    BY DEF TypeOK
  <1>2. /\ runs' \in Seq(PhaseRun) /\ Len(runs') = Len(runs) /\ DOMAIN runs' = DOMAIN runs
        /\ runs'[task.active] = row
        /\ \A r \in DOMAIN runs : r # task.active => runs'[r] = runs[r]
    BY <1>1
  <1> QED BY <1>2 DEF Decided, Kept, ActiveRun

LEMMA OutcomeWritten ==
    ASSUME TypeOK, task.active \in DOMAIN runs,
           NEW outcome \in {"Running", "Succeeded", "Failed", "Cancelled"},
           runs' = [runs EXCEPT ![task.active].outcome = outcome]
    PROVE  Decided(outcome, ActiveRun.validation)
  <1> DEFINE row == [ActiveRun EXCEPT !.outcome = outcome]
  <1>1. ActiveRun \in PhaseRun
    BY DEF TypeOK, ActiveRun
  <1>2. /\ row \in PhaseRun /\ row.activity = ActiveRun.activity /\ row.edit = ActiveRun.edit
        /\ row.phase = ActiveRun.phase /\ row.outcome = outcome
        /\ row.validation = ActiveRun.validation
    BY <1>1 DEF PhaseRun
  <1>3. runs' = [runs EXCEPT ![task.active] = row]
    BY DEF ActiveRun
  <1> HIDE DEF row
  <1>4. Decided(row.outcome, row.validation)
    BY <1>2, <1>3, RowWritten
  <1> QED BY <1>2, <1>4

LEMMA ValidationWritten ==
    ASSUME TypeOK, task.active \in DOMAIN runs,
           NEW outcome \in {"Running", "Succeeded", "Failed", "Cancelled"},
           NEW validation \in {"Accepted", "Rejected"},
           runs' = [runs EXCEPT ![task.active].validation = validation,
                                ![task.active].outcome = outcome]
    PROVE  Decided(outcome, validation)
  <1> DEFINE row == [ActiveRun EXCEPT !.validation = validation, !.outcome = outcome]
  <1>1. ActiveRun \in PhaseRun /\ runs \in Seq(PhaseRun)
    BY DEF TypeOK, ActiveRun
  <1>2. /\ row \in PhaseRun /\ row.activity = ActiveRun.activity /\ row.edit = ActiveRun.edit
        /\ row.phase = ActiveRun.phase /\ row.outcome = outcome /\ row.validation = validation
    BY <1>1 DEF PhaseRun
  <1>3. runs' = [runs EXCEPT ![task.active] = row]
    BY <1>1 DEF ActiveRun
  <1> HIDE DEF row
  <1>4. Decided(row.outcome, row.validation)
    BY <1>2, <1>3, RowWritten
  <1> QED BY <1>2, <1>4

LEMMA AcceptedWritten ==
    ASSUME TypeOK, task.active \in DOMAIN runs,
           runs' = [runs EXCEPT ![task.active].validation = "Accepted"]
    PROVE  Decided(ActiveRun.outcome, "Accepted")
  <1> DEFINE row == [ActiveRun EXCEPT !.validation = "Accepted"]
  <1>1. ActiveRun \in PhaseRun
    BY DEF TypeOK, ActiveRun
  <1>2. /\ row \in PhaseRun /\ row.activity = ActiveRun.activity /\ row.edit = ActiveRun.edit
        /\ row.phase = ActiveRun.phase /\ row.outcome = ActiveRun.outcome
        /\ row.validation = "Accepted"
    BY <1>1 DEF PhaseRun
  <1>3. runs' = [runs EXCEPT ![task.active] = row]
    BY DEF ActiveRun
  <1> HIDE DEF row
  <1>4. Decided(row.outcome, row.validation)
    BY <1>2, <1>3, RowWritten
  <1> QED BY <1>2, <1>4

LEMMA RevisionWritten ==
    ASSUME TypeOK, task.active \in DOMAIN runs, NEW revision \in Nat,
           runs' = [runs EXCEPT ![task.active].outcome = "Succeeded",
                                ![task.active].revision = revision]
    PROVE  Decided("Succeeded", ActiveRun.validation)
  <1> DEFINE row == [ActiveRun EXCEPT !.outcome = "Succeeded", !.revision = revision]
  <1>1. ActiveRun \in PhaseRun /\ runs \in Seq(PhaseRun)
    BY DEF TypeOK, ActiveRun
  <1>2. /\ row \in PhaseRun /\ row.activity = ActiveRun.activity /\ row.edit = ActiveRun.edit
        /\ row.phase = ActiveRun.phase /\ row.outcome = "Succeeded"
        /\ row.validation = ActiveRun.validation
    BY <1>1 DEF PhaseRun
  <1>3. runs' = [runs EXCEPT ![task.active] = row]
    BY <1>1 DEF ActiveRun
  <1> HIDE DEF row
  <1>4. Decided(row.outcome, row.validation)
    BY <1>2, <1>3, RowWritten
  <1> QED BY <1>2, <1>4

LEMMA RuntimesWritten ==
    ASSUME TypeOK, task.active \in DOMAIN runs, NEW runtimes \in Seq(RuntimeRun),
           runs' = [runs EXCEPT ![task.active].runtimes = runtimes]
    PROVE  Decided(ActiveRun.outcome, ActiveRun.validation)
  <1> DEFINE row == [ActiveRun EXCEPT !.runtimes = runtimes]
  <1>1. ActiveRun \in PhaseRun
    BY DEF TypeOK, ActiveRun
  <1>2. /\ row \in PhaseRun /\ row.activity = ActiveRun.activity /\ row.edit = ActiveRun.edit
        /\ row.phase = ActiveRun.phase /\ row.outcome = ActiveRun.outcome
        /\ row.validation = ActiveRun.validation
    BY <1>1 DEF PhaseRun
  <1>3. runs' = [runs EXCEPT ![task.active] = row]
    BY DEF ActiveRun
  <1> HIDE DEF row
  <1>4. Decided(row.outcome, row.validation)
    BY <1>2, <1>3, RowWritten
  <1> QED BY <1>2, <1>4

LEMMA Appended ==
    ASSUME TypeOK, OperationsMove
    PROVE  /\ operations' \in Seq(Operation) /\ result' \in Seq(Result)
           /\ Len(result') = Len(operations')
  <1>1. operations \in Seq(Operation) /\ result \in Seq(Result) /\ Len(result) = Len(operations)
    BY DEF TypeOK
  <1>2. CASE UNCHANGED <<operations, result>>
    BY <1>1, <1>2
  <1>3. ASSUME NEW operation \in Operation, CommitOperation(operation)
        PROVE  /\ operations' \in Seq(Operation) /\ result' \in Seq(Result)
               /\ Len(result') = Len(operations')
    <2>1. [outcome |-> "none", fence |-> 0, revision |-> 0] \in Result
      BY DEF Result
    <2> QED BY <1>1, <1>3, <2>1 DEF CommitOperation
  <1> QED BY <1>2, <1>3 DEF OperationsMove

LEMMA MoveKeepsTypes ==
    ASSUME TypeOK, task' \in Task, Kept, OperationsMove, UNCHANGED <<workspace, view>>,
           recovery' \in [epoch : Nat, activityFence : Nat, mode : {"FullReady", "ReadOnly"}]
    PROVE  TypeOK'
  BY Appended DEF TypeOK, Kept

\* The active run stays the one of the phase, or is left.
LEMMA MoveKeepsActive ==
    ASSUME DInv, Kept,
           \/ task'.active = 0
           \/ /\ task'.active = task.active /\ task'.activity = task.activity
              /\ task'.edits = task.edits /\ task'.phase = task.phase
              /\ task.active # 0 =>
                    \/ runs'[task.active].outcome = "Running"
                    \/ task'.status = "Cancelling" /\ runs'[task.active].outcome = "Succeeded"
    PROVE  ActiveFits'
  <1>1. \A r \in DOMAIN runs' : runs'[r].phase \in 1..Len(Pipeline[runs'[r].activity])
    BY DEF Kept, DInv, ActiveFits
  <1>2. ASSUME task'.active # 0
        PROVE  /\ task'.active \in DOMAIN runs'
               /\ runs'[task'.active].activity = task'.activity
               /\ runs'[task'.active].edit = task'.edits
               /\ runs'[task'.active].phase = task'.phase
               /\ runs'[task'.active].outcome = "Running"
                  \/ (task'.status = "Cancelling" /\ runs'[task'.active].outcome = "Succeeded")
    BY <1>2 DEF Kept, DInv, ActiveFits, ActiveRun
  <1> QED BY <1>1, <1>2 DEF ActiveFits, ActiveRun

\* Only a row that is still open is decided, a mutating one not by the record.
LEMMA DecisionMoves ==
    ASSUME DInv, NEW outcome, NEW validation, Decided(outcome, validation),
           outcome = ActiveRun.outcome
              \/ (ActiveRun.outcome = "Running"
                  /\ (outcome = "Succeeded" => Kind(task) # "Mutating")),
           validation = ActiveRun.validation \/ ActiveRun.validation = "none"
    PROVE  RunsMove
  <1>1. task.active # 0
    BY DEF Decided, DInv, TypeOK
  <1>2. Kind(task) = RunKind(task.active)
    BY <1>1 DEF DInv, ActiveFits, ActiveRun, Kind, RunKind
  <1> QED BY <1>2 DEF Decided, Kept, RunsMove, ActiveRun

LEMMA NoRowMoves ==
    ASSUME TypeOK, UNCHANGED runs
    PROVE  Kept /\ RunsMove
  BY DEF TypeOK, Kept, RunsMove

\* Where a decision moves the record, all else of it stays.
LEMMA Finishing ==
    ASSUME TypeOK, StatusFits, NEW t \in Task, NEW kind
    PROVE  LET u == Finished(t, kind)
               last == t.phase = Len(Pipeline[t.activity])
           IN  /\ u \in Task /\ u.active = 0 /\ u.phase = t.phase + 1
               /\ u.status = IF last THEN "Completed" ELSE "Running"
               /\ u.activity = IF last THEN "none" ELSE t.activity
               /\ u.recoveryFence = recovery.activityFence
               /\ u.lifecycleFence = t.lifecycleFence
               /\ u.latestRevision = t.latestRevision
               /\ u.cancel = t.cancel /\ u.edits = t.edits
               /\ u.reconstruct = t.reconstruct
  <1> DEFINE u == Finished(t, kind)
             last == t.phase = Len(Pipeline[t.activity])
  <1>1. /\ t.phase + 1 \in Nat /\ t.phase \in Nat
        /\ t.activity \in Activities \cup {"none"}
    BY DEF Task
  <1>2. PICK accepted \in Task : accepted = Accepted(t)
    BY CaughtUp
  <1>3. /\ accepted.recoveryFence = recovery.activityFence /\ accepted.phase = t.phase
        /\ accepted.lifecycleFence = t.lifecycleFence
        /\ accepted.latestRevision = t.latestRevision
        /\ accepted.cancel = t.cancel /\ accepted.edits = t.edits
        /\ accepted.reconstruct = t.reconstruct /\ accepted.activity = t.activity
    BY <1>2, CaughtUp
  <1>4. PICK status \in Statuses : status = IF last THEN "Completed" ELSE "Running"
    BY DEF Statuses
  <1>5. PICK activity \in Activities \cup {"none"} :
              activity = IF last THEN "none" ELSE t.activity
    BY <1>1
  <1>6. PICK phase \in Nat : phase = t.phase + 1
    BY <1>1
  <1>7. u = [accepted EXCEPT !.active = 0, !.phase = phase, !.status = status,
                             !.activity = activity]
    <2>1. Finished(t, kind) =
             [accepted EXCEPT !.active = 0, !.phase = accepted.phase + 1,
                !.status = IF last THEN "Completed" ELSE "Running",
                !.activity = IF last THEN "none" ELSE accepted.activity]
      BY <1>2 DEF Finished, Task
    <2>2. /\ accepted.phase + 1 = phase
          /\ (IF last THEN "Completed" ELSE "Running") = status
          /\ (IF last THEN "none" ELSE accepted.activity) = activity
      BY <1>3, <1>4, <1>5, <1>6
    <2> HIDE DEF last
    <2> QED BY <2>1, <2>2, Zenon
  <1> HIDE DEF u
  <1>8. u \in Task
    BY <1>7 DEF Task
  <1>9. /\ u.active = 0 /\ u.phase = phase /\ u.status = status /\ u.activity = activity
    BY <1>7 DEF Task
  <1>10. /\ u.recoveryFence = accepted.recoveryFence
         /\ u.lifecycleFence = accepted.lifecycleFence
         /\ u.latestRevision = accepted.latestRevision
         /\ u.cancel = accepted.cancel /\ u.edits = accepted.edits
         /\ u.reconstruct = accepted.reconstruct
    BY <1>7 DEF Task
  <1> QED BY <1>3, <1>4, <1>5, <1>6, <1>8, <1>9, <1>10 DEF u

LEMMA Failing ==
    ASSUME TypeOK, StatusFits
    PROVE  LET u == Failed(task)
           IN  /\ u \in Task /\ u.active = 0 /\ u.phase = task.phase
               /\ u.status = "Failed" /\ u.activity = task.activity
               /\ u.recoveryFence = recovery.activityFence
               /\ u.lifecycleFence = task.lifecycleFence
               /\ u.latestRevision = task.latestRevision
               /\ u.cancel = task.cancel /\ u.edits = task.edits
               /\ u.reconstruct = task.reconstruct
  <1> DEFINE u == Failed(task)
  <1> PICK accepted \in Task : accepted = Accepted(task)
    BY CaughtUp DEF TypeOK
  <1>1. /\ accepted.recoveryFence = recovery.activityFence /\ accepted.phase = task.phase
        /\ accepted.lifecycleFence = task.lifecycleFence
        /\ accepted.latestRevision = task.latestRevision
        /\ accepted.cancel = task.cancel /\ accepted.edits = task.edits
        /\ accepted.reconstruct = task.reconstruct /\ accepted.activity = task.activity
    BY CaughtUp DEF TypeOK
  <1>2. u = [accepted EXCEPT !.active = 0, !.status = "Failed"]
    BY DEF Failed
  <1> HIDE DEF u
  <1>3. u \in Task
    <2>1. "Failed" \in Statuses
      BY DEF Statuses
    <2> QED BY <1>2, <2>1 DEF Task
  <1>4. /\ u.active = 0 /\ u.phase = accepted.phase
        /\ u.status = "Failed" /\ u.activity = accepted.activity
        /\ u.recoveryFence = accepted.recoveryFence
        /\ u.lifecycleFence = accepted.lifecycleFence
        /\ u.latestRevision = accepted.latestRevision
        /\ u.cancel = accepted.cancel /\ u.edits = accepted.edits
        /\ u.reconstruct = accepted.reconstruct
    BY <1>2 DEF Task
  <1> QED BY <1>1, <1>3, <1>4 DEF u

LEMMA Cancelled ==
    ASSUME TypeOK, StatusFits
    PROVE  LET u == [Accepted(task) EXCEPT !.generation = EffectiveGeneration + 1,
                                           !.status = "Cancelled", !.cancel = "Cancelled",
                                           !.active = 0, !.activity = "none"]
           IN  /\ u \in Task
               /\ u.phase = task.phase /\ u.status = "Cancelled" /\ u.activity = "none"
               /\ u.active = 0 /\ u.recoveryFence = recovery.activityFence
               /\ u.lifecycleFence = task.lifecycleFence
               /\ u.latestRevision = task.latestRevision /\ u.cancel = "Cancelled"
               /\ u.edits = task.edits /\ u.reconstruct = task.reconstruct
  <1> DEFINE u == [Accepted(task) EXCEPT !.generation = EffectiveGeneration + 1,
                                         !.status = "Cancelled", !.cancel = "Cancelled",
                                         !.active = 0, !.activity = "none"]
  <1>1. /\ Accepted(task) \in Task /\ Accepted(task).recoveryFence = recovery.activityFence
        /\ Accepted(task).phase = task.phase
        /\ Accepted(task).lifecycleFence = task.lifecycleFence
        /\ Accepted(task).latestRevision = task.latestRevision
        /\ Accepted(task).edits = task.edits
        /\ Accepted(task).reconstruct = task.reconstruct
    BY CaughtUp DEF TypeOK
  <1> PICK accepted \in Task : accepted = Accepted(task)
    BY <1>1
  <1>2. u = [accepted EXCEPT !.generation = EffectiveGeneration + 1, !.status = "Cancelled",
                             !.cancel = "Cancelled", !.active = 0, !.activity = "none"]
    OBVIOUS
  <1> HIDE DEF u
  <1>3. "Cancelled" \in Statuses /\ EffectiveGeneration + 1 \in Nat \ {0}
    BY CaughtUp DEF TypeOK, Statuses
  <1>4. u \in Task
    BY <1>2, <1>3 DEF Task
  <1>5. /\ u.phase = accepted.phase /\ u.status = "Cancelled" /\ u.activity = "none"
        /\ u.active = 0 /\ u.recoveryFence = accepted.recoveryFence
        /\ u.lifecycleFence = accepted.lifecycleFence
        /\ u.latestRevision = accepted.latestRevision /\ u.cancel = "Cancelled"
        /\ u.edits = accepted.edits /\ u.reconstruct = accepted.reconstruct
    BY <1>2, <1>3 DEF Task
  <1> QED BY <1>1, <1>4, <1>5 DEF u

LEMMA Cancelling ==
    ASSUME TypeOK, StatusFits
    PROVE  LET u == [Accepted(task) EXCEPT !.generation = EffectiveGeneration + 1,
                                           !.status = "Cancelling", !.cancel = "Cancelling",
                                           !.lifecycleFence = RequestFence]
           IN  /\ u \in Task
               /\ u.phase = task.phase /\ u.status = "Cancelling" /\ u.activity = task.activity
               /\ u.active = task.active /\ u.recoveryFence = recovery.activityFence
               /\ u.lifecycleFence = RequestFence /\ u.latestRevision = task.latestRevision
               /\ u.cancel = "Cancelling" /\ u.edits = task.edits
               /\ u.reconstruct = task.reconstruct
  <1> DEFINE u == [Accepted(task) EXCEPT !.generation = EffectiveGeneration + 1,
                                         !.status = "Cancelling", !.cancel = "Cancelling",
                                         !.lifecycleFence = RequestFence]
  <1>1. /\ Accepted(task) \in Task /\ Accepted(task).recoveryFence = recovery.activityFence
        /\ Accepted(task).phase = task.phase /\ Accepted(task).activity = task.activity
        /\ Accepted(task).active = task.active
        /\ Accepted(task).latestRevision = task.latestRevision
        /\ Accepted(task).edits = task.edits
        /\ Accepted(task).reconstruct = task.reconstruct
    BY CaughtUp DEF TypeOK
  <1> PICK accepted \in Task : accepted = Accepted(task)
    BY <1>1
  <1>2. u = [accepted EXCEPT !.generation = EffectiveGeneration + 1, !.status = "Cancelling",
                             !.cancel = "Cancelling", !.lifecycleFence = RequestFence]
    OBVIOUS
  <1> HIDE DEF u
  <1>3. "Cancelling" \in Statuses /\ EffectiveGeneration + 1 \in Nat \ {0} /\ RequestFence \in Nat
    BY CaughtUp, Requested DEF TypeOK, Statuses
  <1>4. u \in Task
    BY <1>2, <1>3 DEF Task
  <1>5. /\ u.phase = accepted.phase /\ u.status = "Cancelling" /\ u.activity = accepted.activity
        /\ u.active = accepted.active /\ u.recoveryFence = accepted.recoveryFence
        /\ u.lifecycleFence = RequestFence /\ u.latestRevision = accepted.latestRevision
        /\ u.cancel = "Cancelling" /\ u.edits = accepted.edits
        /\ u.reconstruct = accepted.reconstruct
    BY <1>2, <1>3 DEF Task
  <1> QED BY <1>1, <1>4, <1>5 DEF u

LEMMA Refenced ==
    ASSUME TypeOK, StatusFits, NEW fence \in Nat
    PROVE  LET u == [Accepted(task) EXCEPT !.lifecycleFence = fence]
           IN  /\ u \in Task
               /\ u.phase = task.phase /\ u.status = task.status /\ u.activity = task.activity
               /\ u.active = task.active /\ u.recoveryFence = recovery.activityFence
               /\ u.lifecycleFence = fence /\ u.latestRevision = task.latestRevision
               /\ u.cancel = task.cancel /\ u.edits = task.edits
               /\ u.reconstruct = task.reconstruct
  <1> DEFINE u == [Accepted(task) EXCEPT !.lifecycleFence = fence]
  <1>1. /\ Accepted(task) \in Task /\ Accepted(task).recoveryFence = recovery.activityFence
        /\ Accepted(task).phase = task.phase /\ Accepted(task).status = task.status
        /\ Accepted(task).activity = task.activity /\ Accepted(task).active = task.active
        /\ Accepted(task).latestRevision = task.latestRevision
        /\ Accepted(task).cancel = task.cancel /\ Accepted(task).edits = task.edits
        /\ Accepted(task).reconstruct = task.reconstruct
    BY CaughtUp DEF TypeOK
  <1> PICK accepted \in Task : accepted = Accepted(task)
    BY <1>1
  <1>2. u = [accepted EXCEPT !.lifecycleFence = fence]
    OBVIOUS
  <1> HIDE DEF u
  <1>3. fence \in Nat
    OBVIOUS
  <1>4. u \in Task
    BY <1>2, <1>3 DEF Task
  <1>5. /\ u.phase = accepted.phase /\ u.status = accepted.status
        /\ u.activity = accepted.activity /\ u.active = accepted.active
        /\ u.recoveryFence = accepted.recoveryFence /\ u.lifecycleFence = fence
        /\ u.latestRevision = accepted.latestRevision /\ u.cancel = accepted.cancel
        /\ u.edits = accepted.edits /\ u.reconstruct = accepted.reconstruct
    BY <1>2, <1>3 DEF Task
  <1> QED BY <1>1, <1>4, <1>5 DEF u

LEMMA Begun ==
    ASSUME TypeOK, StatusFits, NEW status \in Statuses, NEW active \in Nat
    PROVE  LET u == [Accepted(task) EXCEPT !.status = status, !.active = active]
           IN  /\ u \in Task
               /\ u.phase = task.phase /\ u.status = status /\ u.activity = task.activity
               /\ u.active = active /\ u.recoveryFence = recovery.activityFence
               /\ u.lifecycleFence = task.lifecycleFence
               /\ u.latestRevision = task.latestRevision /\ u.cancel = task.cancel
               /\ u.edits = task.edits /\ u.reconstruct = task.reconstruct
  <1> DEFINE u == [Accepted(task) EXCEPT !.status = status, !.active = active]
  <1>1. /\ Accepted(task) \in Task /\ Accepted(task).recoveryFence = recovery.activityFence
        /\ Accepted(task).phase = task.phase /\ Accepted(task).activity = task.activity
        /\ Accepted(task).lifecycleFence = task.lifecycleFence
        /\ Accepted(task).latestRevision = task.latestRevision
        /\ Accepted(task).cancel = task.cancel /\ Accepted(task).edits = task.edits
        /\ Accepted(task).reconstruct = task.reconstruct
    BY CaughtUp DEF TypeOK
  <1> PICK accepted \in Task : accepted = Accepted(task)
    BY <1>1
  <1>2. u = [accepted EXCEPT !.status = status, !.active = active]
    OBVIOUS
  <1> HIDE DEF u
  <1>3. status \in Statuses /\ active \in Nat
    OBVIOUS
  <1>4. u \in Task
    BY <1>2, <1>3 DEF Task
  <1>5. /\ u.phase = accepted.phase /\ u.status = status /\ u.activity = accepted.activity
        /\ u.active = active /\ u.recoveryFence = accepted.recoveryFence
        /\ u.lifecycleFence = accepted.lifecycleFence
        /\ u.latestRevision = accepted.latestRevision /\ u.cancel = accepted.cancel
        /\ u.edits = accepted.edits /\ u.reconstruct = accepted.reconstruct
    BY <1>2, <1>3 DEF Task
  <1> QED BY <1>1, <1>4, <1>5 DEF u

LEMMA Started ==
    ASSUME TypeOK, StatusFits
    PROVE  LET u == [Accepted(task) EXCEPT !.status = "Ready", !.activity = "Generation"]
           IN  /\ u \in Task
               /\ u.phase = task.phase /\ u.status = "Ready" /\ u.activity = "Generation"
               /\ u.active = task.active /\ u.recoveryFence = recovery.activityFence
               /\ u.lifecycleFence = task.lifecycleFence
               /\ u.latestRevision = task.latestRevision /\ u.cancel = task.cancel
               /\ u.edits = task.edits /\ u.reconstruct = task.reconstruct
  <1> DEFINE u == [Accepted(task) EXCEPT !.status = "Ready", !.activity = "Generation"]
  <1>1. /\ Accepted(task) \in Task /\ Accepted(task).recoveryFence = recovery.activityFence
        /\ Accepted(task).phase = task.phase /\ Accepted(task).active = task.active
        /\ Accepted(task).lifecycleFence = task.lifecycleFence
        /\ Accepted(task).latestRevision = task.latestRevision
        /\ Accepted(task).cancel = task.cancel /\ Accepted(task).edits = task.edits
        /\ Accepted(task).reconstruct = task.reconstruct
    BY CaughtUp DEF TypeOK
  <1> PICK accepted \in Task : accepted = Accepted(task)
    BY <1>1
  <1>2. u = [accepted EXCEPT !.status = "Ready", !.activity = "Generation"]
    OBVIOUS
  <1> HIDE DEF u
  <1>3. "Ready" \in Statuses /\ "Generation" \in Activities
    BY DEF Statuses, Activities
  <1>4. u \in Task
    BY <1>2, <1>3 DEF Task
  <1>5. /\ u.phase = accepted.phase /\ u.status = "Ready" /\ u.activity = "Generation"
        /\ u.active = accepted.active /\ u.recoveryFence = accepted.recoveryFence
        /\ u.lifecycleFence = accepted.lifecycleFence
        /\ u.latestRevision = accepted.latestRevision /\ u.cancel = accepted.cancel
        /\ u.edits = accepted.edits /\ u.reconstruct = accepted.reconstruct
    BY <1>2, <1>3 DEF Task
  <1> QED BY <1>1, <1>4, <1>5 DEF u

LEMMA Stopped ==
    ASSUME TypeOK, StatusFits, NEW fence \in Nat
    PROVE  LET u == [Accepted(task) EXCEPT !.lifecycleFence = fence, !.status = "Cancelled",
                                           !.cancel = "Cancelled", !.active = 0,
                                           !.activity = "none"]
           IN  /\ u \in Task
               /\ u.phase = task.phase /\ u.status = "Cancelled" /\ u.activity = "none"
               /\ u.active = 0 /\ u.recoveryFence = recovery.activityFence
               /\ u.lifecycleFence = fence /\ u.latestRevision = task.latestRevision
               /\ u.cancel = "Cancelled" /\ u.edits = task.edits
               /\ u.reconstruct = task.reconstruct
  <1> DEFINE u == [Accepted(task) EXCEPT !.lifecycleFence = fence, !.status = "Cancelled",
                                         !.cancel = "Cancelled", !.active = 0,
                                         !.activity = "none"]
  <1>1. /\ Accepted(task) \in Task /\ Accepted(task).recoveryFence = recovery.activityFence
        /\ Accepted(task).phase = task.phase
        /\ Accepted(task).latestRevision = task.latestRevision
        /\ Accepted(task).edits = task.edits
        /\ Accepted(task).reconstruct = task.reconstruct
    BY CaughtUp DEF TypeOK
  <1> PICK accepted \in Task : accepted = Accepted(task)
    BY <1>1
  <1>2. u = [accepted EXCEPT !.lifecycleFence = fence, !.status = "Cancelled",
                             !.cancel = "Cancelled", !.active = 0, !.activity = "none"]
    OBVIOUS
  <1> HIDE DEF u
  <1>3. "Cancelled" \in Statuses
    BY DEF Statuses
  <1>4. u \in Task
    BY <1>2, <1>3 DEF Task
  <1>5. /\ u.phase = accepted.phase /\ u.status = "Cancelled" /\ u.activity = "none"
        /\ u.active = 0 /\ u.recoveryFence = accepted.recoveryFence /\ u.lifecycleFence = fence
        /\ u.latestRevision = accepted.latestRevision /\ u.cancel = "Cancelled"
        /\ u.edits = accepted.edits /\ u.reconstruct = accepted.reconstruct
    BY <1>2, <1>3 DEF Task
  <1> QED BY <1>1, <1>4, <1>5 DEF u

LEMMA Observed ==
    ASSUME TypeOK, StatusFits, NEW fence \in Nat, NEW revision \in Nat
    PROVE  LET u == [Accepted(task) EXCEPT !.lifecycleFence = fence,
                                           !.latestRevision = revision]
           IN  /\ u \in Task
               /\ u.phase = task.phase /\ u.status = task.status /\ u.activity = task.activity
               /\ u.active = task.active /\ u.recoveryFence = recovery.activityFence
               /\ u.lifecycleFence = fence /\ u.latestRevision = revision
               /\ u.cancel = task.cancel /\ u.edits = task.edits
               /\ u.reconstruct = task.reconstruct
  <1> DEFINE u == [Accepted(task) EXCEPT !.lifecycleFence = fence,
                                         !.latestRevision = revision]
  <1>1. /\ Accepted(task) \in Task /\ Accepted(task).recoveryFence = recovery.activityFence
        /\ Accepted(task).phase = task.phase /\ Accepted(task).status = task.status
        /\ Accepted(task).activity = task.activity /\ Accepted(task).active = task.active
        /\ Accepted(task).cancel = task.cancel /\ Accepted(task).edits = task.edits
        /\ Accepted(task).reconstruct = task.reconstruct
    BY CaughtUp DEF TypeOK
  <1> PICK accepted \in Task : accepted = Accepted(task)
    BY <1>1
  <1>2. u = [accepted EXCEPT !.lifecycleFence = fence, !.latestRevision = revision]
    OBVIOUS
  <1> HIDE DEF u
  <1>3. fence \in Nat /\ revision \in Nat
    OBVIOUS
  <1>4. u \in Task
    BY <1>2, <1>3 DEF Task
  <1>5. /\ u.phase = accepted.phase /\ u.status = accepted.status
        /\ u.activity = accepted.activity /\ u.active = accepted.active
        /\ u.recoveryFence = accepted.recoveryFence /\ u.lifecycleFence = fence
        /\ u.latestRevision = revision /\ u.cancel = accepted.cancel /\ u.edits = accepted.edits
        /\ u.reconstruct = accepted.reconstruct
    BY <1>2, <1>3 DEF Task
  <1> QED BY <1>1, <1>4, <1>5 DEF u

LEMMA Reconstructed ==
    ASSUME TypeOK, StatusFits, NEW fence \in Nat, NEW revision \in Nat
    PROVE  LET u == [Accepted(task) EXCEPT !.reconstruct = "accepted",
                                           !.lifecycleFence = fence,
                                           !.latestRevision = revision]
           IN  /\ u \in Task
               /\ u.phase = task.phase /\ u.status = task.status /\ u.activity = task.activity
               /\ u.active = task.active /\ u.recoveryFence = recovery.activityFence
               /\ u.lifecycleFence = fence /\ u.latestRevision = revision
               /\ u.cancel = task.cancel /\ u.edits = task.edits /\ u.reconstruct = "accepted"
  <1> DEFINE u == [Accepted(task) EXCEPT !.reconstruct = "accepted",
                                         !.lifecycleFence = fence,
                                         !.latestRevision = revision]
  <1>1. /\ Accepted(task) \in Task /\ Accepted(task).recoveryFence = recovery.activityFence
        /\ Accepted(task).phase = task.phase /\ Accepted(task).status = task.status
        /\ Accepted(task).activity = task.activity /\ Accepted(task).active = task.active
        /\ Accepted(task).cancel = task.cancel /\ Accepted(task).edits = task.edits
    BY CaughtUp DEF TypeOK
  <1> PICK accepted \in Task : accepted = Accepted(task)
    BY <1>1
  <1>2. u = [accepted EXCEPT !.reconstruct = "accepted", !.lifecycleFence = fence,
                             !.latestRevision = revision]
    OBVIOUS
  <1> HIDE DEF u
  <1>3. fence \in Nat /\ revision \in Nat
    OBVIOUS
  <1>4. u \in Task
    BY <1>2, <1>3 DEF Task
  <1>5. /\ u.phase = accepted.phase /\ u.status = accepted.status
        /\ u.activity = accepted.activity /\ u.active = accepted.active
        /\ u.recoveryFence = accepted.recoveryFence /\ u.lifecycleFence = fence
        /\ u.latestRevision = revision /\ u.cancel = accepted.cancel /\ u.edits = accepted.edits
        /\ u.reconstruct = "accepted"
    BY <1>2, <1>3 DEF Task
  <1> QED BY <1>1, <1>4, <1>5 DEF u

LEMMA FinishMoves ==
    ASSUME DInv, task.cancel = "NotRequested", task.status \in {"Running", "AwaitingConfirmation"},
           Kind(task) # "Mutating", NEW kind, task' = Finished(task, kind),
           NEW validation, Decided("Succeeded", validation),
           validation = ActiveRun.validation \/ ActiveRun.validation = "none",
           UNCHANGED <<operations, recovery, c04>>
    PROVE  Moves
  <1> DEFINE last == task.phase = Len(Pipeline[task.activity])
  <1>2. /\ task \in Task /\ TypeOK /\ StatusFits /\ UNCHANGED <<workspace, view>>
        /\ recovery' = recovery /\ UNCHANGED <<operations, result>>
    BY DEF DInv, TypeOK, c04
  <1>3. /\ task' \in Task /\ task'.recoveryFence = recovery.activityFence
        /\ task'.active = 0 /\ task'.phase = task.phase + 1
        /\ task'.status = IF last THEN "Completed" ELSE "Running"
        /\ task'.activity = IF last THEN "none" ELSE task.activity
        /\ task'.lifecycleFence = task.lifecycleFence
        /\ task'.latestRevision = task.latestRevision
        /\ task'.cancel = "NotRequested" /\ task'.edits = task.edits
        /\ task'.reconstruct = task.reconstruct
    BY <1>2, Finishing
  <1>4. task.active # 0 /\ task.active \in DOMAIN runs /\ ActiveRun.outcome = "Running"
    <2>1. task.active \in DOMAIN runs /\ task.active # 0
      BY <1>2 DEF Decided, TypeOK
    <2> QED BY <2>1 DEF DInv, ActiveFits
  <1>5. task.reconstruct # "required"
    BY <1>2, <1>4 DEF StatusFits
  <1>6. RunsMove
    BY <1>4, DecisionMoves
  <1>7. TypeOK'
    BY <1>2, <1>3, MoveKeepsTypes DEF Decided, OperationsMove, TypeOK
  <1>8. ActiveFits'
    BY <1>3, MoveKeepsActive DEF Decided
  <1>9. StatusFits'
    <2>1. /\ task.activity \in Activities /\ task.phase \in 1..Len(Pipeline[task.activity])
      BY <1>2 DEF StatusFits, Waiting, Task
    <2>2. Len(Pipeline[task.activity]) \in Nat
      BY <2>1, PipelineKinds
    <2>3. ~last => task.phase + 1 \in 1..Len(Pipeline[task.activity])
      BY <2>1, <2>2
    <2>4. recovery.activityFence \in Nat
      BY <1>2 DEF TypeOK
    <2> QED BY <1>2, <1>3, <1>5, <2>1, <2>3, <2>4 DEF StatusFits, Waiting
  <1>10. TaskMoves
    <2>1. ~Committing
      BY DEF Committing
    <2>2. runs'[task.active].outcome = "Succeeded"
      BY DEF Decided
    <2> QED BY <1>3, <1>4, <1>5, <2>1, <2>2 DEF TaskMoves, PhaseMoves
  <1> QED BY <1>2, <1>6, <1>7, <1>8, <1>9, <1>10 DEF Moves, OperationsMove

LEMMA FailureMoves ==
    ASSUME DInv, task.cancel = "NotRequested", task.status # "Cancelling", task.activity # "none",
           ~Committing, task' = Failed(task), NEW validation, Decided("Failed", validation),
           task.phase \in 1..Len(Pipeline[task.activity]),
           validation = ActiveRun.validation \/ ActiveRun.validation = "none",
           UNCHANGED <<operations, recovery, c04>>
    PROVE  Moves
  <1>2. /\ task \in Task /\ TypeOK /\ StatusFits /\ UNCHANGED <<workspace, view>>
        /\ recovery' = recovery /\ UNCHANGED <<operations, result>>
    BY DEF DInv, TypeOK, c04
  <1>3. /\ task' \in Task /\ task'.recoveryFence = recovery.activityFence
        /\ task'.active = 0 /\ task'.phase = task.phase
        /\ task'.status = "Failed" /\ task'.activity = task.activity
        /\ task'.lifecycleFence = task.lifecycleFence
        /\ task'.latestRevision = task.latestRevision
        /\ task'.cancel = "NotRequested" /\ task'.edits = task.edits
        /\ task'.reconstruct = task.reconstruct
    BY <1>2, Failing
  <1>4. task.active # 0 /\ task.active \in DOMAIN runs /\ ActiveRun.outcome = "Running"
    <2>1. task.active \in DOMAIN runs /\ task.active # 0
      BY <1>2 DEF Decided, TypeOK
    <2> QED BY <2>1 DEF DInv, ActiveFits
  <1>5. task.reconstruct # "required"
    BY <1>2, <1>4 DEF StatusFits
  <1>6. RunsMove
    BY <1>4, DecisionMoves
  <1>7. TypeOK'
    BY <1>2, <1>3, MoveKeepsTypes DEF Decided, OperationsMove, TypeOK
  <1>8. ActiveFits'
    BY <1>3, MoveKeepsActive DEF Decided
  <1>9. StatusFits'
    <2>1. recovery.activityFence \in Nat
      BY <1>2 DEF TypeOK
    <2> QED BY <1>2, <1>3, <1>5, <2>1 DEF StatusFits, Waiting
  <1>10. TaskMoves
    BY <1>3, <1>4, <1>5 DEF TaskMoves, PhaseMoves
  <1> QED BY <1>2, <1>6, <1>7, <1>8, <1>9, <1>10 DEF Moves, OperationsMove

LEMMA ConfirmMoves ==
    ASSUME DInv, Confirm
    PROVE  Moves
  <1>1. /\ task.status = "AwaitingConfirmation" /\ task.cancel = "NotRequested"
        /\ task' = Finished(task, "ConfirmationGate") /\ UNCHANGED <<operations, recovery, c04>>
        /\ runs' = [runs EXCEPT ![task.active].outcome = "Succeeded"]
    BY DEF Confirm, NotCancelled
  <1>2. Kind(task) # "Mutating" /\ task.active # 0
    BY <1>1 DEF DInv, StatusFits
  <1>3. Decided("Succeeded", ActiveRun.validation)
    BY <1>1, <1>2, OutcomeWritten DEF DInv, ActiveFits
  <1> QED BY <1>1, <1>2, <1>3, FinishMoves

LEMMA RejectValidationMoves ==
    ASSUME DInv, RejectValidation
    PROVE  Moves
  <1>1. /\ task.status = "Running" /\ task.cancel = "NotRequested" /\ task.active # 0
        /\ ActiveRun.validation = "none"
        /\ task' = Failed(task) /\ UNCHANGED <<operations, recovery, c04>>
        /\ runs' = [runs EXCEPT ![task.active].validation = "Rejected",
                                ![task.active].outcome = "Failed"]
    BY DEF RejectValidation, Validating, NotCancelled
  <1>2. Decided("Failed", "Rejected")
    BY <1>1, ValidationWritten DEF DInv, ActiveFits
  <1>3. task.activity # "none" /\ task.phase \in 1..Len(Pipeline[task.activity])
    BY <1>1 DEF DInv, StatusFits, Waiting
  <1>4. ~Committing
    BY <1>1 DEF Committing
  <1> QED BY <1>1, <1>2, <1>3, <1>4, FailureMoves

LEMMA AcceptPublicationMoves ==
    ASSUME DInv, NEW outcome \in {"Succeeded", "Failed"}, AcceptPublication(outcome)
    PROVE  Moves
  <1>1. /\ task.cancel = "NotRequested" /\ task.active # 0 /\ Kind(task) = "Publication"
        /\ task' = IF outcome = "Succeeded" THEN Finished(task, "Publication") ELSE Failed(task)
        /\ runs' = [runs EXCEPT ![task.active].outcome = outcome]
        /\ UNCHANGED <<operations, recovery, c04>>
    BY DEF AcceptPublication, NotCancelled
  <1>2. Decided(outcome, ActiveRun.validation)
    BY <1>1, OutcomeWritten DEF DInv, ActiveFits
  <1>3. task.status = "Running"
    <2>1. task.status \in Statuses
      BY DEF DInv, TypeOK, Task
    <2> QED BY <1>1, <2>1 DEF DInv, StatusFits, Statuses
  <1>4. task.activity # "none" /\ task.phase \in 1..Len(Pipeline[task.activity])
    BY <1>3 DEF DInv, StatusFits, Waiting
  <1>5. ~Committing
    BY <1>1 DEF Committing
  <1>6. CASE outcome = "Succeeded"
    BY <1>1, <1>2, <1>3, <1>6, FinishMoves
  <1>7. CASE outcome = "Failed"
    BY <1>1, <1>2, <1>3, <1>4, <1>5, <1>7, FailureMoves
  <1> QED BY <1>6, <1>7

\* The record stays where it is: it catches up, or a row gains runtime evidence.
SameRecord ==
    /\ task'.status = task.status /\ task'.activity = task.activity /\ task'.phase = task.phase
    /\ task'.active = task.active /\ task'.latestRevision = task.latestRevision
    /\ task'.cancel = task.cancel /\ task'.edits = task.edits
    /\ task'.reconstruct = task.reconstruct
    /\ task'.lifecycleFence = task.lifecycleFence \/ task.cancel # "NotRequested"

LEMMA StayMoves ==
    ASSUME DInv, task' \in Task, SameRecord, task'.recoveryFence <= recovery'.activityFence,
           recovery' \in [epoch : Nat, activityFence : Nat, mode : {"FullReady", "ReadOnly"}],
           Kept,
           \A r \in DOMAIN runs : /\ runs'[r].outcome = runs[r].outcome
                                  /\ runs'[r].validation = runs[r].validation,
           OperationsMove, UNCHANGED <<workspace, view>>
    PROVE  Moves
  <1>1. TypeOK'
    BY MoveKeepsTypes DEF DInv
  <1>2. RunsMove
    BY DEF RunsMove
  <1>3. StatusFits'
    BY DEF DInv, StatusFits, SameRecord, Kind, Waiting
  <1>4. task.active # 0 => /\ task.active \in DOMAIN runs
                           /\ runs'[task.active].outcome = ActiveRun.outcome
                           /\ runs'[task.active].validation = ActiveRun.validation
    BY DEF DInv, ActiveFits, ActiveRun
  <1>5. ActiveFits'
    <2>1. task.active # 0 =>
             \/ runs'[task.active].outcome = "Running"
             \/ (task'.status = "Cancelling" /\ runs'[task.active].outcome = "Succeeded")
      BY <1>4 DEF DInv, ActiveFits, SameRecord
    <2> QED BY <2>1, MoveKeepsActive DEF SameRecord
  <1>6. Committing' = Committing
    BY <1>4 DEF Committing, SameRecord, Kind, ActiveRun
  <1>7. TaskMoves
    BY <1>6 DEF TaskMoves, PhaseMoves, SameRecord
  <1> QED BY <1>1, <1>2, <1>3, <1>5, <1>7 DEF Moves

\* A fence is committed for the run whose cancellation is pending.
LEMMA FenceAdmissible ==
    ASSUME DInv, NEW generation \in Nat, NEW epoch \in Nat, task.active # 0,
           Kind(task) = "Mutating", task'.cancel # "NotRequested",
           CommitOperation(NewOperation(task.active, "Fence", generation, epoch))
    PROVE  OperationsMove
  <1> DEFINE operation == NewOperation(task.active, "Fence", generation, epoch)
  <1>1. task.active \in DOMAIN runs /\ RunKind(task.active) = "Mutating" /\ task.active \in Nat
    BY DEF DInv, ActiveFits, ActiveRun, Kind, RunKind, TypeOK, Task
  <1>2. RequestFence \in Nat /\ RequestBase \in Nat
    BY Requested DEF DInv
  <1>3. operation \in Operation
    BY <1>1, <1>2 DEF NewOperation, Operation
  <1>4. Admissible(operation)
    BY <1>1 DEF Admissible, NewOperation
  <1> HIDE DEF operation
  <1> QED BY <1>3, <1>4 DEF OperationsMove, operation

LEMMA RetryRuntimeRunMoves ==
    ASSUME DInv, RetryRuntimeRun
    PROVE  Moves
  <1>1. TypeOK /\ StatusFits /\ task \in Task
    BY DEF DInv, TypeOK
  <1>2. task.active \in DOMAIN runs
    BY DEF RetryRuntimeRun, DInv, ActiveFits
  <1>3. ActiveRun \in PhaseRun
    BY <1>1, <1>2 DEF TypeOK, ActiveRun
  <1>4. EffectiveGeneration \in Nat /\ recovery.epoch \in Nat
    BY <1>1, CaughtUp DEF TypeOK
  <1>5. NewRuntime \in RuntimeRun
    BY <1>4 DEF NewRuntime, RuntimeRun
  <1>6. Append(ActiveRun.runtimes, NewRuntime) \in Seq(RuntimeRun)
    BY <1>3, <1>5 DEF PhaseRun
  <1>7. runs' = [runs EXCEPT ![task.active].runtimes = Append(ActiveRun.runtimes, NewRuntime)]
    BY DEF RetryRuntimeRun, ActiveRun
  <1>8. Decided(ActiveRun.outcome, ActiveRun.validation)
    BY <1>1, <1>2, <1>6, <1>7, RuntimesWritten
  <1>9. /\ task' = Accepted(task) /\ recovery' = recovery /\ UNCHANGED <<operations, result>>
        /\ UNCHANGED <<workspace, view>>
    BY DEF RetryRuntimeRun, c04
  <1>10. task' \in Task /\ SameRecord /\ task'.recoveryFence = recovery.activityFence
    BY <1>1, <1>9, CaughtUp DEF SameRecord
  <1>11. /\ recovery' \in [epoch : Nat, activityFence : Nat, mode : {"FullReady", "ReadOnly"}]
         /\ task'.recoveryFence <= recovery'.activityFence
    BY <1>1, <1>9, <1>10 DEF TypeOK
  <1>12. OperationsMove
    BY <1>9 DEF OperationsMove
  <1>13. /\ Kept
         /\ \A r \in DOMAIN runs : /\ runs'[r].outcome = runs[r].outcome
                                   /\ runs'[r].validation = runs[r].validation
    BY <1>8 DEF Decided, Kept, ActiveRun
  <1> QED BY <1>9, <1>10, <1>11, <1>12, <1>13, StayMoves

LEMMA AcceptRuntimeMoves ==
    ASSUME DInv, NEW i, NEW outcome \in {"Succeeded", "Failed"}, AcceptRuntime(i, outcome)
    PROVE  Moves
  <1>1. TypeOK /\ StatusFits /\ task \in Task
    BY DEF DInv, TypeOK
  <1>2. task.active \in DOMAIN runs /\ i \in DOMAIN ActiveRun.runtimes
    BY DEF AcceptRuntime, DInv, ActiveFits
  <1>3. ActiveRun.runtimes \in Seq(RuntimeRun)
    <2>1. ActiveRun \in PhaseRun
      BY <1>1, <1>2 DEF TypeOK, ActiveRun
    <2> QED BY <2>1 DEF PhaseRun
  <1>4. [ActiveRun.runtimes[i] EXCEPT !.outcome = outcome] \in RuntimeRun
    <2>1. ActiveRun.runtimes[i] \in RuntimeRun
      BY <1>2, <1>3
    <2> QED BY <2>1 DEF RuntimeRun
  <1> DEFINE runtimes == [ActiveRun.runtimes EXCEPT ![i] =
                             [ActiveRun.runtimes[i] EXCEPT !.outcome = outcome]]
  <1>5. runtimes \in Seq(RuntimeRun)
    BY <1>2, <1>3, <1>4
  <1>6. runs' = [runs EXCEPT ![task.active].runtimes = runtimes]
    BY DEF AcceptRuntime, ActiveRun
  <1> HIDE DEF runtimes
  <1>7. Decided(ActiveRun.outcome, ActiveRun.validation)
    BY <1>1, <1>2, <1>5, <1>6, RuntimesWritten
  <1>8. /\ task' = Accepted(task) /\ recovery' = recovery /\ UNCHANGED <<operations, result>>
        /\ UNCHANGED <<workspace, view>>
    BY DEF AcceptRuntime, c04
  <1>9. task' \in Task /\ SameRecord /\ task'.recoveryFence = recovery.activityFence
    BY <1>1, <1>8, CaughtUp DEF SameRecord
  <1>10. /\ recovery' \in [epoch : Nat, activityFence : Nat, mode : {"FullReady", "ReadOnly"}]
         /\ task'.recoveryFence <= recovery'.activityFence
    BY <1>1, <1>8, <1>9 DEF TypeOK
  <1>11. OperationsMove
    BY <1>8 DEF OperationsMove
  <1>12. /\ Kept
         /\ \A r \in DOMAIN runs : /\ runs'[r].outcome = runs[r].outcome
                                   /\ runs'[r].validation = runs[r].validation
    BY <1>7 DEF Decided, Kept, ActiveRun
  <1> QED BY <1>8, <1>9, <1>10, <1>11, <1>12, StayMoves

\* A recovery fence raised through the task moves its generation and, when a
\* cancellation is pending, requests a new fence.
LEMMA Raised ==
    ASSUME TypeOK, StatusFits, NEW fence \in Nat
    PROVE  LET caughtUp == [task EXCEPT !.generation = EffectiveGeneration + 1,
                                        !.recoveryFence = recovery.activityFence + 1]
               u == [caughtUp EXCEPT !.lifecycleFence = fence]
           IN  /\ caughtUp \in Task /\ caughtUp.phase = task.phase
               /\ caughtUp.status = task.status /\ caughtUp.activity = task.activity
               /\ caughtUp.active = task.active
               /\ caughtUp.recoveryFence = recovery.activityFence + 1
               /\ caughtUp.lifecycleFence = task.lifecycleFence
               /\ caughtUp.latestRevision = task.latestRevision
               /\ caughtUp.cancel = task.cancel /\ caughtUp.edits = task.edits
               /\ caughtUp.reconstruct = task.reconstruct
               /\ u \in Task /\ u.phase = task.phase /\ u.status = task.status
               /\ u.activity = task.activity /\ u.active = task.active
               /\ u.recoveryFence = recovery.activityFence + 1
               /\ u.latestRevision = task.latestRevision /\ u.cancel = task.cancel
               /\ u.edits = task.edits /\ u.reconstruct = task.reconstruct
  <1> DEFINE caughtUp == [task EXCEPT !.generation = EffectiveGeneration + 1,
                                      !.recoveryFence = recovery.activityFence + 1]
             u == [caughtUp EXCEPT !.lifecycleFence = fence]
  <1>1. /\ EffectiveGeneration + 1 \in Nat \ {0} /\ recovery.activityFence + 1 \in Nat
        /\ task \in Task
    <2>1. task \in Task /\ recovery.activityFence \in Nat
      BY DEF TypeOK
    <2>2. EffectiveGeneration \in Nat
      BY <2>1, CaughtUp
    <2> QED BY <2>1, <2>2
  <1>2. /\ caughtUp \in Task /\ caughtUp.phase = task.phase
        /\ caughtUp.status = task.status /\ caughtUp.activity = task.activity
        /\ caughtUp.active = task.active
        /\ caughtUp.recoveryFence = recovery.activityFence + 1
        /\ caughtUp.lifecycleFence = task.lifecycleFence
        /\ caughtUp.latestRevision = task.latestRevision
        /\ caughtUp.cancel = task.cancel /\ caughtUp.edits = task.edits
        /\ caughtUp.reconstruct = task.reconstruct
    BY <1>1 DEF Task
  <1> HIDE DEF caughtUp
  <1>3. u \in Task /\ u.phase = caughtUp.phase /\ u.status = caughtUp.status
        /\ u.activity = caughtUp.activity /\ u.active = caughtUp.active
        /\ u.recoveryFence = caughtUp.recoveryFence
        /\ u.latestRevision = caughtUp.latestRevision /\ u.cancel = caughtUp.cancel
        /\ u.edits = caughtUp.edits /\ u.reconstruct = caughtUp.reconstruct
    BY <1>2 DEF Task
  <1> HIDE DEF u
  <1>4. u.phase = task.phase /\ u.status = task.status
        /\ u.activity = task.activity /\ u.active = task.active
        /\ u.recoveryFence = recovery.activityFence + 1
        /\ u.latestRevision = task.latestRevision /\ u.cancel = task.cancel
        /\ u.edits = task.edits /\ u.reconstruct = task.reconstruct
    BY <1>2, <1>3
  <1> QED BY <1>2, <1>3, <1>4 DEF u, caughtUp

\* A task whose cancellation waits for C04 is in a mutating phase.
LEMMA Pending ==
    ASSUME DInv, task.cancel = "Cancelling"
    PROVE  Kind(task) = "Mutating" /\ task.status = "Cancelling"
  BY DEF DInv, StatusFits

LEMMA CatchUpMoves ==
    ASSUME DInv, CatchUp
    PROVE  Moves
  <1>1. /\ TypeOK /\ StatusFits /\ task \in Task /\ UNCHANGED <<runs, recovery, workspace, view>>
        /\ EffectiveGeneration \in Nat /\ recovery.epoch \in Nat
        /\ RequestFence \in Nat
    BY CaughtUp, Requested DEF DInv, TypeOK, CatchUp
  <1>2. \/ /\ task' = Accepted(task) /\ UNCHANGED <<operations, result>>
        \/ /\ task.cancel = "Cancelling" /\ task.active # 0
           /\ task' = [Accepted(task) EXCEPT !.lifecycleFence = RequestFence]
           /\ CommitOperation(NewOperation(task.active, "Fence", EffectiveGeneration,
                                           recovery.epoch))
    BY DEF CatchUp
  <1>3. task' \in Task /\ SameRecord /\ task'.recoveryFence = recovery.activityFence
    <2>1. CASE task' = Accepted(task)
      BY <1>1, <2>1, CaughtUp DEF SameRecord
    <2>2. CASE /\ task.cancel = "Cancelling"
               /\ task' = [Accepted(task) EXCEPT !.lifecycleFence = RequestFence]
      BY <1>1, <2>2, Refenced DEF SameRecord
    <2> QED BY <1>2, <2>1, <2>2
  <1>4. OperationsMove
    <2>1. CASE UNCHANGED <<operations, result>>
      BY <2>1 DEF OperationsMove
    <2>2. CASE /\ task.cancel = "Cancelling" /\ task.active # 0
               /\ CommitOperation(NewOperation(task.active, "Fence", EffectiveGeneration,
                                               recovery.epoch))
      BY <1>1, <1>3, <2>2, Pending, FenceAdmissible DEF SameRecord
    <2> QED BY <1>2, <2>1, <2>2
  <1>5. /\ recovery' \in [epoch : Nat, activityFence : Nat, mode : {"FullReady", "ReadOnly"}]
        /\ task'.recoveryFence <= recovery'.activityFence
    BY <1>1, <1>3 DEF TypeOK
  <1>6. Kept /\ \A r \in DOMAIN runs : /\ runs'[r].outcome = runs[r].outcome
                                       /\ runs'[r].validation = runs[r].validation
    BY <1>1, NoRowMoves
  <1> QED BY <1>1, <1>3, <1>4, <1>5, <1>6, StayMoves

LEMMA ApplyOperationalFenceMoves ==
    ASSUME DInv, NEW mode \in {"FullReady", "ReadOnly"}, ApplyOperationalFence(mode)
    PROVE  Moves
  <1> DEFINE generation == EffectiveGeneration + 1
             caughtUp == [task EXCEPT !.generation = generation,
                                      !.recoveryFence = recovery.activityFence + 1]
             fenced == [caughtUp EXCEPT !.lifecycleFence = RequestFence]
  <1>1. /\ TypeOK /\ StatusFits /\ task \in Task /\ UNCHANGED <<runs, workspace, view>>
        /\ generation \in Nat /\ recovery.epoch + 1 \in Nat /\ recovery.activityFence + 1 \in Nat
        /\ RequestFence \in Nat
    <2>1. /\ TypeOK /\ StatusFits /\ task \in Task /\ recovery.activityFence \in Nat
          /\ recovery.epoch \in Nat /\ UNCHANGED <<runs, workspace, view>>
      BY DEF DInv, TypeOK, ApplyOperationalFence
    <2>2. EffectiveGeneration \in Nat /\ RequestFence \in Nat
      BY <2>1, CaughtUp, Requested
    <2> QED BY <2>1, <2>2
  <1>2. \/ /\ task' = caughtUp /\ UNCHANGED <<operations, result>>
        \/ /\ task.cancel = "Cancelling" /\ task.active # 0
           /\ task' = fenced
           /\ CommitOperation(NewOperation(task.active, "Fence", generation, recovery.epoch + 1))
    BY DEF ApplyOperationalFence
  <1>3. /\ task' \in Task /\ SameRecord /\ task'.recoveryFence = recovery.activityFence + 1
    <2>1. CASE task' = caughtUp
      <3>1. /\ caughtUp \in Task /\ caughtUp.phase = task.phase
            /\ caughtUp.status = task.status /\ caughtUp.activity = task.activity
            /\ caughtUp.active = task.active
            /\ caughtUp.recoveryFence = recovery.activityFence + 1
            /\ caughtUp.lifecycleFence = task.lifecycleFence
            /\ caughtUp.latestRevision = task.latestRevision
            /\ caughtUp.cancel = task.cancel /\ caughtUp.edits = task.edits
            /\ caughtUp.reconstruct = task.reconstruct
        BY <1>1, Raised
      <3> HIDE DEF caughtUp
      <3> QED BY <2>1, <3>1 DEF SameRecord
    <2>2. CASE task.cancel = "Cancelling" /\ task' = fenced
      <3>1. /\ fenced \in Task /\ fenced.phase = task.phase /\ fenced.status = task.status
            /\ fenced.activity = task.activity /\ fenced.active = task.active
            /\ fenced.recoveryFence = recovery.activityFence + 1
            /\ fenced.latestRevision = task.latestRevision /\ fenced.cancel = task.cancel
            /\ fenced.edits = task.edits /\ fenced.reconstruct = task.reconstruct
        BY <1>1, Raised
      <3> HIDE DEF fenced
      <3> QED BY <2>2, <3>1 DEF SameRecord
    <2> QED BY <1>2, <2>1, <2>2
  <1> HIDE DEF generation, caughtUp, fenced
  <1>4. OperationsMove
    <2>1. CASE UNCHANGED <<operations, result>>
      BY <2>1 DEF OperationsMove
    <2>2. CASE /\ task.cancel = "Cancelling" /\ task.active # 0
               /\ CommitOperation(NewOperation(task.active, "Fence", generation,
                                               recovery.epoch + 1))
      BY <1>1, <1>3, <2>2, Pending, FenceAdmissible DEF SameRecord
    <2> QED BY <1>2, <2>1, <2>2
  <1>5. /\ recovery' \in [epoch : Nat, activityFence : Nat, mode : {"FullReady", "ReadOnly"}]
        /\ task'.recoveryFence <= recovery'.activityFence
    BY <1>1, <1>3 DEF ApplyOperationalFence
  <1>6. Kept /\ \A r \in DOMAIN runs : /\ runs'[r].outcome = runs[r].outcome
                                       /\ runs'[r].validation = runs[r].validation
    BY <1>1, NoRowMoves
  <1> QED BY <1>1, <1>3, <1>4, <1>5, <1>6, StayMoves

LEMMA RaisedElsewhereMoves ==
    ASSUME DInv, NEW mode \in {"FullReady", "ReadOnly"}, RaisedElsewhere(mode)
    PROVE  Moves
  <1>1. /\ TypeOK /\ StatusFits /\ task \in Task /\ UNCHANGED <<runs, workspace, view>>
        /\ UNCHANGED <<task, operations, result>>
        /\ recovery.epoch + 1 \in Nat /\ recovery.activityFence + 1 \in Nat
        /\ recovery.activityFence \in Nat /\ task.recoveryFence \in Nat
        /\ task.recoveryFence <= recovery.activityFence
        /\ recovery' = [epoch |-> recovery.epoch + 1,
                        activityFence |-> recovery.activityFence + 1, mode |-> mode]
    BY DEF DInv, TypeOK, Task, StatusFits, RaisedElsewhere, aggregate, c04
  <1>2. /\ recovery' \in [epoch : Nat, activityFence : Nat, mode : {"FullReady", "ReadOnly"}]
        /\ task'.recoveryFence <= recovery'.activityFence
    BY <1>1
  <1>3. Kept /\ \A r \in DOMAIN runs : /\ runs'[r].outcome = runs[r].outcome
                                       /\ runs'[r].validation = runs[r].validation
    BY <1>1, NoRowMoves
  <1>4. SameRecord /\ OperationsMove
    BY <1>1 DEF SameRecord, OperationsMove
  <1> QED BY <1>1, <1>2, <1>3, <1>4, StayMoves

LEMMA StartTaskMoves ==
    ASSUME DInv, StartTask
    PROVE  Moves
  <1>1. /\ TypeOK /\ StatusFits /\ task \in Task /\ UNCHANGED <<runs, workspace, view>>
        /\ recovery' = recovery /\ UNCHANGED <<operations, result>> /\ task.status = "Absent"
        /\ recovery.activityFence \in Nat
    BY DEF DInv, TypeOK, StartTask, c04
  <1>2. /\ task' \in Task /\ task'.phase = task.phase /\ task'.status = "Ready"
        /\ task'.activity = "Generation" /\ task'.active = task.active
        /\ task'.recoveryFence = recovery.activityFence
        /\ task'.lifecycleFence = task.lifecycleFence
        /\ task'.latestRevision = task.latestRevision /\ task'.cancel = task.cancel
        /\ task'.edits = task.edits /\ task'.reconstruct = task.reconstruct
    BY <1>1, Started DEF StartTask
  <1>3. /\ task.active = 0 /\ task.phase = 1 /\ task.cancel = "NotRequested"
        /\ task.reconstruct # "required"
    <2>1. task.cancel \in {"NotRequested", "Cancelling", "Cancelled"}
      BY <1>1 DEF Task
    <2> QED BY <1>1, <2>1 DEF StatusFits
  <1>4. Kept /\ RunsMove /\ OperationsMove
    BY <1>1, NoRowMoves DEF OperationsMove
  <1>5. TypeOK'
    BY <1>1, <1>2, <1>4, MoveKeepsTypes DEF TypeOK
  <1>6. StatusFits'
    <2>1. 1 \in 1..Len(Pipeline["Generation"])
      BY PipelineKinds DEF Activities
    <2> QED BY <1>1, <1>2, <1>3, <2>1 DEF StatusFits, Waiting
  <1>7. ActiveFits'
    BY <1>2, <1>3, <1>4, MoveKeepsActive
  <1>8. TaskMoves
    <2>1. ~Committing
      BY <1>3 DEF Committing
    <2> QED BY <1>2, <1>3, <2>1 DEF TaskMoves, PhaseMoves
  <1> QED BY <1>1, <1>4, <1>5, <1>6, <1>7, <1>8 DEF Moves

\* A cancellation that has nothing to wait for.
LEMMA CancelAtOnceMoves ==
    ASSUME DInv, task.cancel = "NotRequested", ~(task.active # 0 /\ Kind(task) = "Mutating"),
           task' = [Accepted(task) EXCEPT
                 !.generation = EffectiveGeneration + 1, !.status = "Cancelled",
                 !.cancel = "Cancelled", !.active = 0, !.activity = "none"],
           runs' = IF task.active = 0 THEN runs
                   ELSE [runs EXCEPT ![task.active].outcome = "Cancelled"],
           UNCHANGED <<operations, recovery, c04>>
    PROVE  Moves
  <1>1. /\ TypeOK /\ StatusFits /\ task \in Task /\ UNCHANGED <<workspace, view>>
        /\ recovery' = recovery /\ UNCHANGED <<operations, result>>
        /\ recovery.activityFence \in Nat
    BY DEF DInv, TypeOK, c04
  <1>2. /\ task' \in Task /\ task'.phase = task.phase /\ task'.status = "Cancelled"
        /\ task'.activity = "none" /\ task'.active = 0
        /\ task'.recoveryFence = recovery.activityFence
        /\ task'.cancel = "Cancelled" /\ task'.edits = task.edits
    BY <1>1, Cancelled
  <1>3. OperationsMove
    BY <1>1 DEF OperationsMove
  <1>4. Kept /\ RunsMove
    <2>1. CASE task.active = 0
      BY <1>1, <2>1, NoRowMoves
    <2>2. CASE task.active # 0
      <3>1. task.active \in DOMAIN runs /\ ActiveRun.outcome = "Running"
        BY <1>1, <2>2 DEF DInv, ActiveFits, StatusFits
      <3>2. Decided("Cancelled", ActiveRun.validation)
        BY <1>1, <2>2, <3>1, OutcomeWritten
      <3> QED BY <3>1, <3>2, DecisionMoves DEF Decided
    <2> QED BY <2>1, <2>2
  <1>5. TypeOK'
    BY <1>1, <1>2, <1>3, <1>4, MoveKeepsTypes DEF TypeOK
  <1>6. StatusFits'
    BY <1>1, <1>2 DEF StatusFits, Waiting
  <1>7. ActiveFits'
    BY <1>2, <1>4, MoveKeepsActive
  <1>8. TaskMoves
    BY <1>2 DEF TaskMoves, PhaseMoves, Committing
  <1> QED BY <1>1, <1>3, <1>4, <1>5, <1>6, <1>7, <1>8 DEF Moves

\* The cancellation of a mutating phase: it waits for C04 to fence the view.
LEMMA CancelMutatingMoves ==
    ASSUME DInv, task.cancel = "NotRequested", task.active # 0, Kind(task) = "Mutating",
           task' = [Accepted(task) EXCEPT
                 !.generation = EffectiveGeneration + 1, !.status = "Cancelling",
                 !.cancel = "Cancelling", !.lifecycleFence = RequestFence],
           CommitOperation(NewOperation(task.active, "Fence", EffectiveGeneration + 1,
                                        recovery.epoch)),
           UNCHANGED <<runs, recovery, workspace, view>>
    PROVE  Moves
  <1>1. /\ TypeOK /\ StatusFits /\ task \in Task
        /\ recovery.activityFence \in Nat /\ recovery.epoch \in Nat
    BY DEF DInv, TypeOK
  <1>2. /\ task' \in Task /\ task'.phase = task.phase /\ task'.status = "Cancelling"
        /\ task'.activity = task.activity /\ task'.active = task.active
        /\ task'.recoveryFence = recovery.activityFence
        /\ task'.cancel = "Cancelling" /\ task'.edits = task.edits
    BY <1>1, Cancelling
  <1>3. EffectiveGeneration + 1 \in Nat
    <2>1. EffectiveGeneration \in Nat
      BY <1>1, CaughtUp
    <2> QED BY <2>1
  <1>4. OperationsMove
    BY <1>1, <1>2, <1>3, FenceAdmissible
  <1>5. Kept /\ RunsMove
    BY <1>1, NoRowMoves
  <1>6. TypeOK'
    BY <1>1, <1>2, <1>4, <1>5, MoveKeepsTypes DEF TypeOK
  <1>7. task.status = "Running"
    <2>1. task.status \in Statuses
      BY <1>1 DEF Task
    <2> QED BY <1>1, <2>1 DEF StatusFits, Statuses
  <1>8. StatusFits'
    BY <1>1, <1>2, <1>7 DEF StatusFits, Waiting, Kind
  <1>9. ActiveFits'
    <2>1. runs'[task.active].outcome = "Running"
      BY <1>7 DEF DInv, ActiveFits, ActiveRun
    <2> QED BY <1>2, <1>5, <2>1, MoveKeepsActive
  <1>10. TaskMoves
    BY <1>2 DEF TaskMoves, PhaseMoves
  <1> QED BY <1>4, <1>5, <1>6, <1>8, <1>9, <1>10 DEF Moves

LEMMA CancelTaskMoves ==
    ASSUME DInv, CancelTask
    PROVE  Moves
  <1>1. CASE task.active # 0 /\ Kind(task) = "Mutating"
    BY <1>1, CancelMutatingMoves DEF CancelTask, NotCancelled
  <1>2. CASE ~(task.active # 0 /\ Kind(task) = "Mutating")
    BY <1>2, CancelAtOnceMoves DEF CancelTask, NotCancelled, c04
  <1> QED BY <1>1, <1>2

LEMMA AcceptValidationMoves ==
    ASSUME DInv, AcceptValidation
    PROVE  Moves
  <1>1. /\ task.status = "Running" /\ task.cancel = "NotRequested" /\ task.active # 0
        /\ ActiveRun.validation = "none" /\ UNCHANGED <<recovery, workspace, view>>
        /\ TypeOK /\ StatusFits /\ task \in Task /\ recovery.activityFence \in Nat
        /\ recovery.epoch \in Nat
    BY DEF AcceptValidation, Validating, NotCancelled, DInv, TypeOK
  <1>2. task.active \in DOMAIN runs /\ ActiveRun.outcome = "Running" /\ task.active \in Nat
    BY <1>1 DEF DInv, ActiveFits, Task
  <1>3. CASE Kind(task) = "NonMutating"
    <2>1. Decided("Succeeded", "Accepted")
      BY <1>1, <1>2, <1>3, ValidationWritten DEF AcceptValidation
    <2>2. UNCHANGED <<operations, recovery, c04>> /\ task' = Finished(task, "NonMutating")
      BY <1>1, <1>3 DEF AcceptValidation, c04
    <2> QED BY <1>1, <1>3, <2>1, <2>2, FinishMoves
  <1>4. CASE Kind(task) # "NonMutating"
    <2> DEFINE operation == NewOperation(task.active, "Commit", EffectiveGeneration,
                                         recovery.epoch)
    <2>1. /\ Kind(task) = "Mutating" /\ CommitOperation(operation)
          /\ task' = [Accepted(task) EXCEPT !.lifecycleFence = RequestFence]
          /\ runs' = [runs EXCEPT ![task.active].validation = "Accepted"]
      BY <1>4 DEF AcceptValidation, Validating
    <2>2. Decided("Running", "Accepted")
      BY <1>1, <1>2, <2>1, AcceptedWritten
    <2>3. EffectiveGeneration \in Nat /\ RequestFence \in Nat /\ RequestBase \in Nat
      BY <1>1, CaughtUp, Requested
    <2>4. /\ task' \in Task /\ task'.phase = task.phase /\ task'.status = task.status
          /\ task'.activity = task.activity /\ task'.active = task.active
          /\ task'.recoveryFence = recovery.activityFence
          /\ task'.cancel = task.cancel /\ task'.edits = task.edits
          /\ task'.reconstruct = task.reconstruct
      BY <1>1, <2>1, <2>3, Refenced
    <2>5. Kept /\ RunsMove
      BY <1>1, <1>2, <2>2, DecisionMoves DEF Decided
    <2>6. OperationsMove
      <3>1. operation \in Operation
        BY <1>1, <1>2, <2>3 DEF NewOperation, Operation
      <3>2. RunKind(task.active) = "Mutating"
        BY <1>1, <2>1 DEF DInv, ActiveFits, ActiveRun, Kind, RunKind
      <3>3. Admissible(operation)
        BY <1>2, <2>2, <2>4, <3>2 DEF Admissible, NewOperation, Decided
      <3> HIDE DEF operation
      <3> QED BY <2>1, <3>1, <3>3 DEF OperationsMove
    <2>7. TypeOK'
      BY <1>1, <2>4, <2>5, <2>6, MoveKeepsTypes DEF TypeOK
    <2>8. StatusFits'
      BY <1>1, <2>4 DEF StatusFits, Waiting, Kind
    <2>9. ActiveFits'
      BY <2>2, <2>4, <2>5, MoveKeepsActive DEF Decided
    <2>10. TaskMoves
      <3>1. Committing'
        BY <1>1, <2>1, <2>2, <2>4 DEF Committing, Decided, ActiveRun, Kind
      <3> QED BY <1>1, <2>4, <3>1 DEF TaskMoves, PhaseMoves
    <2> QED BY <1>1, <2>5, <2>6, <2>7, <2>8, <2>9, <2>10 DEF Moves
  <1> QED BY <1>3, <1>4

\* The record of a task whose manual edit is begun.
LEMMA Edited ==
    ASSUME TypeOK, StatusFits, task.edits < MaxEdits, NEW reconstruct \in BOOLEAN
    PROVE  LET u == [Accepted(task) EXCEPT
                 !.generation = task.generation + 1, !.status = "Running",
                 !.activity = "ManualEdit", !.phase = 1, !.edits = @ + 1,
                 !.reconstruct = IF reconstruct THEN "required" ELSE "no",
                 !.lifecycleFence = IF reconstruct THEN RequestFence ELSE @]
           IN  /\ u \in Task /\ u.phase = 1 /\ u.status = "Running" /\ u.activity = "ManualEdit"
               /\ u.active = task.active /\ u.recoveryFence = recovery.activityFence
               /\ u.latestRevision = task.latestRevision /\ u.cancel = task.cancel
               /\ u.reconstruct = IF reconstruct THEN "required" ELSE "no"
               /\ ~reconstruct => u.lifecycleFence = task.lifecycleFence
  <1> DEFINE u == [Accepted(task) EXCEPT
                 !.generation = task.generation + 1, !.status = "Running",
                 !.activity = "ManualEdit", !.phase = 1, !.edits = @ + 1,
                 !.reconstruct = IF reconstruct THEN "required" ELSE "no",
                 !.lifecycleFence = IF reconstruct THEN RequestFence ELSE @]
  <1>1. /\ Accepted(task) \in Task /\ Accepted(task).recoveryFence = recovery.activityFence
        /\ Accepted(task).lifecycleFence = task.lifecycleFence
        /\ Accepted(task).latestRevision = task.latestRevision
        /\ Accepted(task).cancel = task.cancel /\ Accepted(task).active = task.active
        /\ Accepted(task).edits = task.edits /\ task \in Task
    BY CaughtUp DEF TypeOK
  <1>2. PICK accepted \in Task : accepted = Accepted(task)
    BY <1>1
  <1>3. PICK generation \in Nat \ {0} : generation = task.generation + 1
    <2>1. task.generation + 1 \in Nat \ {0}
      BY <1>1 DEF Task
    <2> QED BY <2>1
  <1>4. PICK edits \in 0..MaxEdits : edits = task.edits + 1
    <2>1. task.edits \in 0..MaxEdits /\ MaxEdits \in Nat
      BY <1>1, TaskAssumption DEF Task
    <2>2. task.edits + 1 \in 0..MaxEdits
      BY <2>1
    <2> QED BY <2>2
  <1>5. PICK required \in {"no", "required", "accepted"} :
              required = IF reconstruct THEN "required" ELSE "no"
    OBVIOUS
  <1>6. PICK fence \in Nat :
              fence = IF reconstruct THEN RequestFence ELSE accepted.lifecycleFence
    <2>1. accepted.lifecycleFence \in Nat
      BY DEF Task
    <2> QED BY <2>1, Requested
  <1>7. u = [accepted EXCEPT !.generation = generation, !.status = "Running",
                             !.activity = "ManualEdit", !.phase = 1, !.edits = edits,
                             !.reconstruct = required, !.lifecycleFence = fence]
    <2>1. u = [accepted EXCEPT !.generation = task.generation + 1, !.status = "Running",
                  !.activity = "ManualEdit", !.phase = 1, !.edits = accepted.edits + 1,
                  !.reconstruct = IF reconstruct THEN "required" ELSE "no",
                  !.lifecycleFence = IF reconstruct THEN RequestFence
                                                    ELSE accepted.lifecycleFence]
      BY <1>2 DEF Task
    <2>2. /\ task.generation + 1 = generation /\ accepted.edits + 1 = edits
          /\ (IF reconstruct THEN "required" ELSE "no") = required
          /\ (IF reconstruct THEN RequestFence ELSE accepted.lifecycleFence) = fence
      BY <1>1, <1>2, <1>3, <1>4, <1>5, <1>6
    <2> HIDE DEF u
    <2> QED BY <2>1, <2>2, Zenon
  <1> HIDE DEF u
  <1>8. "Running" \in Statuses /\ "ManualEdit" \in Activities
    BY DEF Statuses, Activities
  <1>9. u \in Task
    BY <1>7, <1>8 DEF Task
  <1>10. /\ u.phase = 1 /\ u.status = "Running" /\ u.activity = "ManualEdit"
         /\ u.active = accepted.active /\ u.recoveryFence = accepted.recoveryFence
         /\ u.latestRevision = accepted.latestRevision /\ u.cancel = accepted.cancel
         /\ u.reconstruct = required /\ u.lifecycleFence = fence
    BY <1>7, <1>8 DEF Task
  <1> QED BY <1>1, <1>2, <1>5, <1>6, <1>9, <1>10 DEF u

LEMMA BeginManualEditMoves ==
    ASSUME DInv, NEW reconstruct \in BOOLEAN, BeginManualEdit(reconstruct)
    PROVE  Moves
  <1>1. /\ TypeOK /\ StatusFits /\ task \in Task /\ UNCHANGED <<runs, workspace, view>>
        /\ recovery' = recovery /\ recovery.activityFence \in Nat /\ recovery.epoch \in Nat
        /\ task.status = "Completed" /\ task.cancel = "NotRequested" /\ task.edits < MaxEdits
    BY DEF DInv, TypeOK, BeginManualEdit, NotCancelled
  <1>2. /\ task' \in Task /\ task'.phase = 1 /\ task'.status = "Running"
        /\ task'.activity = "ManualEdit" /\ task'.active = task.active
        /\ task'.recoveryFence = recovery.activityFence
        /\ task'.latestRevision = task.latestRevision /\ task'.cancel = task.cancel
        /\ task'.reconstruct = IF reconstruct THEN "required" ELSE "no"
        /\ ~reconstruct => task'.lifecycleFence = task.lifecycleFence
    BY <1>1, Edited DEF BeginManualEdit
  <1>3. task.active = 0 /\ task.reconstruct # "required"
    BY <1>1 DEF StatusFits
  <1>4. Kept /\ RunsMove
    BY <1>1, NoRowMoves
  <1>5. OperationsMove
    <2> DEFINE operation == NewOperation(0, "Reconstruct", task.generation + 1, recovery.epoch)
    <2>1. CASE UNCHANGED <<operations, result>>
      BY <2>1 DEF OperationsMove
    <2>2. CASE reconstruct /\ CommitOperation(operation)
      <3>1. task.generation + 1 \in Nat /\ RequestFence \in Nat /\ RequestBase \in Nat
        BY <1>1, Requested DEF Task
      <3>2. operation \in Operation
        BY <1>1, <3>1 DEF NewOperation, Operation
      <3>3. Admissible(operation)
        BY <1>2, <1>3, <2>2 DEF Admissible, NewOperation
      <3> HIDE DEF operation
      <3> QED BY <2>2, <3>2, <3>3 DEF OperationsMove
    <2> QED BY <2>1, <2>2 DEF BeginManualEdit
  <1>6. TypeOK'
    BY <1>1, <1>2, <1>4, <1>5, MoveKeepsTypes DEF TypeOK
  <1>7. StatusFits'
    <2>1. 1 \in 1..Len(Pipeline["ManualEdit"])
      BY PipelineKinds DEF Activities
    <2> QED BY <1>1, <1>2, <1>3, <2>1 DEF StatusFits, Waiting
  <1>8. ActiveFits'
    BY <1>2, <1>3, <1>4, MoveKeepsActive
  <1>9. TaskMoves
    <2>1. ~Committing
      BY <1>3 DEF Committing
    <2> QED BY <1>1, <1>2, <1>3, <2>1 DEF TaskMoves, PhaseMoves
  <1> QED BY <1>1, <1>4, <1>5, <1>6, <1>7, <1>8, <1>9 DEF Moves

-----------------------------------------------------------------------------
(* A phase is begun: a new run, the active one. *)

LEMMA BeginGrows ==
    ASSUME DInv, task.status \in {"Ready", "Running", "Failed"}, Begin(task)
    PROVE  \E row \in PhaseRun, status \in {"AwaitingConfirmation", "Running"} :
              /\ runs' = Append(runs, row) /\ row.activity = task.activity
              /\ row.edit = task.edits /\ row.phase = task.phase /\ row.outcome = "Running"
              /\ row.validation = "none"
              /\ status = "AwaitingConfirmation" <=> Kind(task) = "ConfirmationGate"
              /\ task' \in Task /\ task'.phase = task.phase /\ task'.status = status
              /\ task'.activity = task.activity /\ task'.active = Len(runs) + 1
              /\ task'.recoveryFence = recovery.activityFence
              /\ task'.lifecycleFence = task.lifecycleFence
              /\ task'.latestRevision = task.latestRevision /\ task'.cancel = task.cancel
              /\ task'.edits = task.edits /\ task'.reconstruct = task.reconstruct
  <1> DEFINE runtimes == IF Kind(task) \in {"Mutating", "NonMutating"}
                         THEN [i \in 1..RequiredRuntimes |-> NewRuntime] ELSE <<>>
             status == IF Kind(task) = "ConfirmationGate" THEN "AwaitingConfirmation"
                                                          ELSE "Running"
             row == [activity |-> task.activity, edit |-> task.edits, phase |-> task.phase,
                     outcome |-> "Running", runtimes |-> runtimes,
                     validation |-> "none", generation |-> EffectiveGeneration,
                     epoch |-> recovery.epoch, revision |-> 0]
  <1>1. /\ TypeOK /\ StatusFits /\ task \in Task /\ recovery.epoch \in Nat
    BY DEF DInv, TypeOK
  <1>2. EffectiveGeneration \in Nat
    BY <1>1, CaughtUp
  <1>3. task.activity \in Activities
    <2>1. task.status \in Waiting
      BY DEF Waiting
    <2> QED BY <1>1, <2>1 DEF StatusFits, Task
  <1>4. runtimes \in Seq(RuntimeRun)
    <2>1. NewRuntime \in RuntimeRun
      BY <1>1, <1>2 DEF NewRuntime, RuntimeRun
    <2>2. RequiredRuntimes \in Nat
      BY TaskAssumption
    <2>3. [i \in 1..RequiredRuntimes |-> NewRuntime] \in Seq(RuntimeRun)
      BY <2>1, <2>2
    <2> QED BY <2>3
  <1>5. runs' = Append(runs, row) /\ task' = [Accepted(task) EXCEPT !.status = status,
                                                  !.active = Len(runs) + 1]
    BY DEF Begin
  <1>6. row \in PhaseRun
    <2> HIDE DEF runtimes
    <2>1. task.edits \in 0..MaxEdits /\ task.phase \in Nat
      BY <1>1 DEF Task
    <2> QED BY <1>1, <1>2, <1>3, <1>4, <2>1 DEF PhaseRun
  <1>7. /\ row.activity = task.activity
        /\ row.edit = task.edits /\ row.phase = task.phase /\ row.outcome = "Running"
        /\ row.validation = "none"
    OBVIOUS
  <1>8. status \in {"AwaitingConfirmation", "Running"}
        /\ (status = "AwaitingConfirmation" <=> Kind(task) = "ConfirmationGate")
    OBVIOUS
  <1> HIDE DEF row, status
  <1> DEFINE u == [Accepted(task) EXCEPT !.status = status, !.active = Len(runs) + 1]
  <1>9. /\ u \in Task /\ u.phase = task.phase /\ u.status = status
        /\ u.activity = task.activity /\ u.active = Len(runs) + 1
        /\ u.recoveryFence = recovery.activityFence
        /\ u.lifecycleFence = task.lifecycleFence
        /\ u.latestRevision = task.latestRevision /\ u.cancel = task.cancel
        /\ u.edits = task.edits /\ u.reconstruct = task.reconstruct
    <2>1. status \in Statuses /\ Len(runs) + 1 \in Nat
      BY <1>1, <1>8 DEF Statuses, TypeOK
    <2> QED BY <1>1, <2>1, Begun
  <1>10. task' = u
    BY <1>5
  <1> HIDE DEF u
  <1> QED BY <1>5, <1>6, <1>7, <1>8, <1>9, <1>10

LEMMA BeginKeeps ==
    ASSUME DInv, task.cancel = "NotRequested", task.status \in {"Ready", "Running", "Failed"},
           Begin(task)
    PROVE  DInv' /\ \A r \in DOMAIN runs : runs'[r] = runs[r]
  <1>1. /\ TypeOK /\ StatusFits /\ task \in Task /\ runs \in Seq(PhaseRun)
        /\ view \in Seq({"none", "open", "committed", "fenced", "discarded"})
        /\ DOMAIN runs = 1..Len(runs) /\ Len(runs) \in Nat /\ Len(view) = Len(runs)
        /\ recovery.activityFence \in Nat /\ DOMAIN view = DOMAIN runs
    BY DEF DInv, TypeOK
  <1>2. /\ task.active = 0 /\ task.reconstruct # "required" /\ view' = Append(view, "none")
        /\ UNCHANGED <<operations, recovery, workspace, result>>
    BY DEF Begin
  <1> PICK row \in PhaseRun, status \in {"AwaitingConfirmation", "Running"} :
              /\ runs' = Append(runs, row) /\ row.activity = task.activity
              /\ row.edit = task.edits /\ row.phase = task.phase /\ row.outcome = "Running"
              /\ row.validation = "none"
              /\ status = "AwaitingConfirmation" <=> Kind(task) = "ConfirmationGate"
              /\ task' \in Task /\ task'.phase = task.phase /\ task'.status = status
              /\ task'.activity = task.activity /\ task'.active = Len(runs) + 1
              /\ task'.recoveryFence = recovery.activityFence
              /\ task'.lifecycleFence = task.lifecycleFence
              /\ task'.latestRevision = task.latestRevision /\ task'.cancel = task.cancel
              /\ task'.edits = task.edits /\ task'.reconstruct = task.reconstruct
    BY BeginGrows
  <1> PICK n \in Nat \ {0} : n = Len(runs) + 1
    BY <1>1
  <1>3. /\ task' \in Task /\ task'.phase = task.phase /\ task'.status = status
        /\ task'.activity = task.activity /\ task'.active = n
        /\ task'.recoveryFence = recovery.activityFence
        /\ task'.lifecycleFence = task.lifecycleFence
        /\ task'.latestRevision = task.latestRevision /\ task'.cancel = task.cancel
        /\ task'.edits = task.edits /\ task'.reconstruct = task.reconstruct
    OBVIOUS
  <1>4. /\ runs' \in Seq(PhaseRun) /\ Len(runs') = n /\ DOMAIN runs' = DOMAIN runs \cup {n}
        /\ runs'[n] = row /\ n \notin DOMAIN runs
        /\ \A r \in DOMAIN runs : runs'[r] = runs[r]
    BY <1>1
  <1>5. /\ view' \in Seq({"none", "open", "committed", "fenced", "discarded"})
        /\ Len(view') = n /\ view'[n] = "none" /\ \A r \in DOMAIN runs : view'[r] = view[r]
    BY <1>1, <1>2
  <1>6. TypeOK'
    BY <1>1, <1>2, <1>3, <1>4, <1>5 DEF TypeOK
  <1>7. task.activity \in Activities /\ task.phase \in 1..Len(Pipeline[task.activity])
    BY <1>1 DEF StatusFits, Waiting, Task
  <1>8. StatusFits'
    BY <1>1, <1>2, <1>3, <1>7 DEF StatusFits, Waiting, Kind
  <1>9. ActiveFits'
    <2>1. \A r \in DOMAIN runs' : runs'[r].phase \in 1..Len(Pipeline[runs'[r].activity])
      BY <1>4, <1>7 DEF DInv, ActiveFits
    <2> QED BY <1>3, <1>4, <2>1 DEF ActiveFits, ActiveRun
  <1>10. \A activity, edit, phase, before :
            before \in 0..Len(runs) /\ Done(activity, edit, phase, before) =>
               \E q \in 1..before :
                  /\ runs'[q].activity = activity /\ runs'[q].edit = edit
                  /\ runs'[q].phase = phase /\ runs'[q].outcome = "Succeeded"
    <2>1. \A before \in 0..Len(runs) : \A q \in 1..before : q \in DOMAIN runs
      BY <1>1
    <2> QED BY <1>4, <2>1 DEF Done
  <1>11. PhasesDone'
    <2>1. ASSUME NEW r \in DOMAIN runs', NEW p \in 1..(runs'[r].phase - 1)
          PROVE  \E q \in 1..(r - 1) :
                    /\ runs'[q].activity = runs'[r].activity /\ runs'[q].edit = runs'[r].edit
                    /\ runs'[q].phase = p /\ runs'[q].outcome = "Succeeded"
      <3>1. CASE r \in DOMAIN runs
        <4>1. runs'[r] = runs[r] /\ r - 1 \in 0..Len(runs)
          BY <1>1, <1>4, <3>1
        <4>2. Done(runs[r].activity, runs[r].edit, p, r - 1)
          BY <2>1, <3>1, <4>1 DEF DInv, PhasesDone, PhasesInOrder
        <4> QED BY <1>10, <4>1, <4>2
      <3>2. CASE r = n
        <4>1. Done(task.activity, task.edits, p, Len(runs))
          BY <1>4, <1>7, <2>1, <3>2 DEF DInv, PhasesDone, Activities
        <4>2. r - 1 = Len(runs) /\ Len(runs) \in 0..Len(runs)
          BY <1>1, <3>2
        <4> QED BY <1>4, <1>10, <3>2, <4>1, <4>2
      <3> QED BY <1>4, <3>1, <3>2
    <2>2. PhasesInOrder'
      BY <2>1 DEF PhasesInOrder, Done
    <2>3. ASSUME NEW p \in 1..(task.phase - 1)
          PROVE  \E q \in 1..n :
                    /\ runs'[q].activity = task.activity /\ runs'[q].edit = task.edits
                    /\ runs'[q].phase = p /\ runs'[q].outcome = "Succeeded"
      <3>1. Done(task.activity, task.edits, p, Len(runs))
        BY <1>7 DEF DInv, PhasesDone, Activities
      <3>2. Len(runs) \in 0..Len(runs) /\ \A q \in 1..Len(runs) : q \in 1..n
        BY <1>1
      <3> QED BY <1>10, <3>1, <3>2
    <2> QED BY <1>3, <1>4, <2>2, <2>3 DEF PhasesDone, Done
  <1>12. LedgerMatchesWorkspace'
    <2>1. ASSUME NEW r \in DOMAIN runs, RunKind(r) = "Mutating"
          PROVE  /\ runs[r].outcome = "Succeeded" => view[r] = "committed"
                 /\ view[r] = "committed" => runs[r].outcome = "Succeeded"
      BY <1>1, <1>2, <2>1 DEF DInv, LedgerMatchesWorkspace
    <2> QED BY <1>4, <1>5, <2>1 DEF LedgerMatchesWorkspace, RunKind
  <1>13. ASSUME NEW i \in DOMAIN operations
         PROVE  /\ operations[i].purpose \in {"Commit", "Fence"} =>
                      operations[i].run \in DOMAIN runs
                /\ operations[i].purpose = "Commit" => operations[i].run # task.active
    <2>1. OperationFits(i)
      BY DEF DInv, OperationsFit
    <2> QED BY <1>1, <1>2, <2>1 DEF OperationFits
  <1>14. OperationsFit'
    <2>1. ASSUME NEW i \in DOMAIN operations
          PROVE  OperationFits(i)'
      <3>1. OperationFits(i)
        BY DEF DInv, OperationsFit
      <3> QED BY <1>2, <1>3, <1>4, <1>5, <1>13, <3>1 DEF OperationFits, RunKind
    <2> QED BY <1>2, <2>1 DEF OperationsFit
  <1>15. OneReconstruction'
    BY <1>2, <1>3 DEF DInv, OneReconstruction
  <1>16. AnswersFit'
    BY <1>2, <1>4, <1>5, <1>13 DEF DInv, AnswersFit
  <1>17. RecordFits'
    <2>1. ~Committing /\ Synced
      BY <1>2 DEF DInv, RecordFits, Committing
    <2>2. Synced'
      BY <1>2, <1>3, <2>1 DEF Synced
    <2>3. \A i \in DOMAIN operations : ~(result[i].outcome = "Committed" /\ operations[i].run = n)
      BY <1>4, <1>13 DEF DInv, AnswersFit
    <2>4. \A i \in DOMAIN operations :
             result[i].outcome = "Reconstructed" /\ ~operations[i].terminal => Tells(i)
      BY DEF DInv, RecordFits
    <2> QED BY <1>2, <1>3, <2>2, <2>3, <2>4 DEF RecordFits, Tells
  <1> QED BY <1>4, <1>6, <1>8, <1>9, <1>11, <1>12, <1>14, <1>15, <1>16, <1>17 DEF DInv

-----------------------------------------------------------------------------
(* Evidence of C04 is recorded and closes its operation. *)

LEMMA Closed ==
    ASSUME TypeOK, NEW i \in DOMAIN operations, Close(i)
    PROVE  /\ operations' \in Seq(Operation) /\ Len(operations') = Len(operations)
           /\ DOMAIN operations' = DOMAIN operations
           /\ \A j \in DOMAIN operations :
                 /\ operations'[j].run = operations[j].run
                 /\ operations'[j].purpose = operations[j].purpose
                 /\ operations'[j].terminal <=> (operations[j].terminal \/ j = i)
  <1>1. operations \in Seq(Operation)
    BY DEF TypeOK
  <1> DEFINE closed == [operations[i] EXCEPT !.terminal = TRUE]
  <1>2. /\ closed \in Operation /\ closed.run = operations[i].run
        /\ closed.purpose = operations[i].purpose /\ closed.terminal
    <2>1. operations[i] \in Operation
      BY <1>1
    <2> QED BY <2>1 DEF Operation
  <1>3. operations' = [operations EXCEPT ![i] = closed]
    BY DEF Close
  <1> HIDE DEF closed
  <1> QED BY <1>1, <1>2, <1>3

LEMMA CloseKeeps ==
    ASSUME DInv, NEW i \in DOMAIN operations, Close(i), result[i].outcome # "none",
           ~operations[i].terminal,
           Kept, UNCHANGED <<view, result>>,
           \A r \in DOMAIN runs : runs'[r].validation = runs[r].validation,
           SuccessStands,
           \/ task'.active = task.active
           \/ task.active # 0 => \/ runs'[task.active].outcome = "Succeeded"
                                 \/ view[task.active] = "fenced",
           task'.cancel = "NotRequested" => task.cancel = "NotRequested",
           task.cancel # "NotRequested" => task'.cancel # "NotRequested",
           \/ task'.reconstruct = task.reconstruct \/ operations[i].purpose = "Reconstruct"
    PROVE  OperationsFit' /\ OneReconstruction' /\ AnswersFit'
  <1>1. /\ DOMAIN runs' = DOMAIN runs
        /\ \A r \in DOMAIN runs : Pipeline[runs'[r].activity][runs'[r].phase] = RunKind(r)
    BY DEF Kept, RunKind
  <1>2. /\ DOMAIN operations' = DOMAIN operations
        /\ \A j \in DOMAIN operations :
              /\ operations'[j].run = operations[j].run
              /\ operations'[j].purpose = operations[j].purpose
              /\ operations'[j].terminal <=> (operations[j].terminal \/ j = i)
    BY Closed DEF DInv
  <1>3. ASSUME NEW j \in DOMAIN operations
        PROVE  OperationFits(j)'
    <2>1. OperationFits(j)
      BY DEF DInv, OperationsFit
    <2>2. operations[j].purpose \in {"Commit", "Fence"} =>
             operations[j].run \in DOMAIN runs'
             /\ Pipeline[runs'[operations[j].run].activity][runs'[operations[j].run].phase]
                = "Mutating"
      BY <1>1, <2>1 DEF OperationFits
    <2>3. ASSUME operations[j].purpose = "Commit"
          PROVE  /\ runs'[operations[j].run].validation = "Accepted"
                 /\ \/ operations[j].run = task'.active
                    \/ runs'[operations[j].run].outcome = "Succeeded"
                    \/ view[operations[j].run] = "fenced"
      <3>1. /\ operations[j].run \in DOMAIN runs
            /\ runs[operations[j].run].validation = "Accepted"
            /\ \/ operations[j].run = task.active
               \/ runs[operations[j].run].outcome = "Succeeded"
               \/ view[operations[j].run] = "fenced"
        BY <2>1, <2>3 DEF OperationFits
      <3>2. operations[j].run # 0
        BY <3>1 DEF DInv, TypeOK
      <3> QED BY <3>1, <3>2 DEF SuccessStands
    <2>4. ASSUME operations[j].purpose = "Reconstruct", ~operations'[j].terminal,
                 task'.cancel = "NotRequested"
          PROVE  task'.reconstruct = "required"
      <3>1. j # i /\ ~operations[j].terminal /\ task.cancel = "NotRequested"
        BY <1>2, <2>4
      <3>2. task.reconstruct = "required"
        BY <2>1, <2>4, <3>1 DEF OperationFits
      <3>3. operations[i].purpose # "Reconstruct" \/ operations[i].terminal
        BY <2>4, <3>1 DEF DInv, OneReconstruction
      <3> QED BY <3>2, <3>3
    <2>5. operations'[j].terminal => result[j].outcome # "none"
      BY <1>2, <2>1 DEF OperationFits
    <2>6. operations[j].purpose = "Fence" => task'.cancel # "NotRequested"
      BY <2>1 DEF OperationFits
    <2>7. operations[j].purpose = "Reconstruct" => operations[j].run = 0
      BY <2>1 DEF OperationFits
    <2> QED BY <1>2, <2>2, <2>3, <2>4, <2>5, <2>6, <2>7 DEF OperationFits, RunKind
  <1>4. OperationsFit'
    BY <1>2, <1>3 DEF OperationsFit
  <1>5. OneReconstruction'
    BY <1>2 DEF DInv, OneReconstruction
  <1>6. AnswersFit'
    BY <1>1, <1>2 DEF DInv, AnswersFit
  <1> QED BY <1>4, <1>5, <1>6

\* What the record becomes when a commit is recorded: on to the next phase, or
\* still waiting for its cancellation.
LEMMA CommitRecorded ==
    ASSUME DInv, NEW i \in DOMAIN operations, AcceptCommitted(i)
    PROVE  /\ task' \in Task /\ task'.recoveryFence = recovery.activityFence
           /\ task'.lifecycleFence = result[i].fence /\ task'.latestRevision = result[i].revision
           /\ task'.cancel = task.cancel /\ task'.edits = task.edits
           /\ task'.reconstruct = task.reconstruct
           /\ \/ /\ task.cancel = "NotRequested" /\ task.status = "Running"
                 /\ task'.active = 0 /\ task'.phase = task.phase + 1
                 /\ IF task.phase = Len(Pipeline[task.activity])
                    THEN task'.status = "Completed" /\ task'.activity = "none"
                    ELSE task'.status = "Running" /\ task'.activity = task.activity
              \/ /\ task.cancel = "Cancelling" /\ task.status = "Cancelling"
                 /\ task'.active = task.active /\ task'.phase = task.phase
                 /\ task'.status = task.status /\ task'.activity = task.activity
  <1> DEFINE fence == result[i].fence
             revision == result[i].revision
             observed == [Accepted(task) EXCEPT !.lifecycleFence = fence,
                                                !.latestRevision = revision]
  <1>1. TypeOK /\ StatusFits /\ task \in Task
    BY DEF DInv, TypeOK
  <1>2. fence \in Nat /\ revision \in Nat
    <2>1. result[i] \in Result
      BY <1>1 DEF TypeOK
    <2> QED BY <2>1 DEF Result
  <1>3. \/ /\ task.cancel = "NotRequested" /\ task.status = "Running"
           /\ task' = Finished(observed, "Mutating")
        \/ /\ task.cancel = "Cancelling" /\ task.status = "Cancelling" /\ task' = observed
    BY DEF AcceptCommitted, NotCancelled
  <1> HIDE DEF fence, revision
  <1>4. /\ observed \in Task /\ observed.phase = task.phase /\ observed.status = task.status
        /\ observed.activity = task.activity /\ observed.active = task.active
        /\ observed.recoveryFence = recovery.activityFence
        /\ observed.lifecycleFence = fence /\ observed.latestRevision = revision
        /\ observed.cancel = task.cancel /\ observed.edits = task.edits
        /\ observed.reconstruct = task.reconstruct
    BY <1>1, <1>2, Observed, ZenonT(60)
  <1> HIDE DEF observed
  <1>5. LET u == Finished(observed, "Mutating")
            last == observed.phase = Len(Pipeline[observed.activity])
        IN  /\ u \in Task /\ u.active = 0 /\ u.phase = observed.phase + 1
            /\ u.status = IF last THEN "Completed" ELSE "Running"
            /\ u.activity = IF last THEN "none" ELSE observed.activity
            /\ u.recoveryFence = recovery.activityFence
            /\ u.lifecycleFence = observed.lifecycleFence
            /\ u.latestRevision = observed.latestRevision
            /\ u.cancel = observed.cancel /\ u.edits = observed.edits
            /\ u.reconstruct = observed.reconstruct
    BY <1>1, <1>4, Finishing
  <1>6. CASE task' = observed /\ task.cancel = "Cancelling" /\ task.status = "Cancelling"
    BY <1>4, <1>6 DEF fence, revision
  <1>7. CASE /\ task.cancel = "NotRequested" /\ task.status = "Running"
             /\ task' = Finished(observed, "Mutating")
    BY <1>4, <1>5, <1>7 DEF fence, revision
  <1> QED BY <1>3, <1>6, <1>7

LEMMA AcceptCommittedKeeps ==
    ASSUME DInv, NEW i \in DOMAIN operations, AcceptCommitted(i)
    PROVE  /\ DInv' /\ UNCHANGED <<workspace, view>>
           /\ \A r \in DOMAIN runs :
                 runs[r].outcome # "Running" => runs'[r].outcome = runs[r].outcome
  <1>1. /\ TypeOK /\ StatusFits /\ task \in Task /\ recovery.activityFence \in Nat
    BY DEF DInv, TypeOK
  <1>2. /\ ~operations[i].terminal /\ result[i].outcome = "Committed" /\ Close(i)
        /\ operations[i].run = task.active
        /\ UNCHANGED <<recovery, workspace, view, result>>
        /\ runs' = [runs EXCEPT ![task.active].outcome = "Succeeded",
                                ![task.active].revision = result[i].revision]
    BY DEF AcceptCommitted, Evident, c04
  <1>3. /\ task' \in Task /\ task'.recoveryFence = recovery.activityFence
        /\ task'.lifecycleFence = result[i].fence /\ task'.latestRevision = result[i].revision
        /\ task'.cancel = task.cancel /\ task'.edits = task.edits
        /\ task'.reconstruct = task.reconstruct
        /\ \/ /\ task.cancel = "NotRequested" /\ task.status = "Running"
              /\ task'.active = 0 /\ task'.phase = task.phase + 1
              /\ IF task.phase = Len(Pipeline[task.activity])
                 THEN task'.status = "Completed" /\ task'.activity = "none"
                 ELSE task'.status = "Running" /\ task'.activity = task.activity
           \/ /\ task.cancel = "Cancelling" /\ task.status = "Cancelling"
              /\ task'.active = task.active /\ task'.phase = task.phase
              /\ task'.status = task.status /\ task'.activity = task.activity
    BY CommitRecorded
  <1>4. /\ operations[i].purpose = "Commit" /\ view[task.active] = "committed"
        /\ task.active \in DOMAIN runs /\ RunKind(task.active) = "Mutating"
    BY <1>2 DEF DInv, AnswersFit, OperationsFit, OperationFits
  <1>5. /\ task.active # 0 /\ ActiveRun.outcome \in {"Running", "Succeeded"}
        /\ task.reconstruct # "required" \/ task.cancel # "NotRequested"
    <2>1. task.active # 0
      BY <1>1, <1>4 DEF TypeOK
    <2> QED BY <1>1, <2>1 DEF DInv, ActiveFits, StatusFits
  <1>6. Decided("Succeeded", ActiveRun.validation)
    <2>1. result[i].revision \in Nat
      BY <1>3 DEF Task
    <2> QED BY <1>1, <1>2, <1>4, <2>1, RevisionWritten
  <1>7. /\ Kept /\ SuccessStands
        /\ \A r \in DOMAIN runs : runs'[r].validation = runs[r].validation
        /\ runs'[task.active].outcome = "Succeeded"
        /\ \A r \in DOMAIN runs :
              runs[r].outcome # "Running" => runs'[r].outcome = runs[r].outcome
    BY <1>5, <1>6 DEF Decided, Kept, SuccessStands, ActiveRun
  <1>8. PhasesDone'
    <2>1. PhaseMoves
      BY <1>3, <1>5, <1>7 DEF PhaseMoves
    <2> QED BY <1>7, <2>1, PhasesKept
  <1>9. TypeOK'
    <2>1. /\ operations' \in Seq(Operation) /\ Len(operations') = Len(operations)
      BY <1>1, <1>2, Closed
    <2> QED BY <1>1, <1>2, <1>3, <1>7, <2>1 DEF TypeOK, Kept
  <1>10. StatusFits'
    <2>1. task.activity # "none" /\ task.phase \in 1..Len(Pipeline[task.activity])
          /\ task.activity \in Activities
      BY <1>1, <1>3 DEF StatusFits, Waiting, Task
    <2>2. Len(Pipeline[task.activity]) \in Nat
      BY <2>1, PipelineKinds
    <2>3. task.phase # Len(Pipeline[task.activity]) =>
             task.phase + 1 \in 1..Len(Pipeline[task.activity])
      BY <2>1, <2>2
    <2>4. CASE task'.active = 0
      BY <1>1, <1>2, <1>3, <1>5, <2>1, <2>3, <2>4 DEF StatusFits, Waiting
    <2>5. CASE task'.active = task.active
      BY <1>1, <1>2, <1>3, <1>5, <2>1, <2>5 DEF StatusFits, Waiting, Kind
    <2> QED BY <1>3, <2>4, <2>5
  <1>11. ActiveFits'
    BY <1>3, <1>7, MoveKeepsActive
  <1>12. LedgerMatchesWorkspace'
    <2>1. \A r \in DOMAIN runs : Pipeline[runs'[r].activity][runs'[r].phase] = RunKind(r)
      BY <1>7 DEF Kept, RunKind
    <2> QED BY <1>2, <1>4, <1>7, <2>1 DEF DInv, LedgerMatchesWorkspace, RunKind, Kept
  <1>13. OperationsFit' /\ OneReconstruction' /\ AnswersFit'
    BY <1>2, <1>3, <1>4, <1>7, CloseKeeps
  <1>14. RecordFits'
    <2>1. CASE task'.cancel # "NotRequested"
      BY <2>1 DEF RecordFits
    <2>2. CASE task'.cancel = "NotRequested"
      <3>1. task'.active = 0 /\ task.cancel = "NotRequested"
        BY <1>3, <2>2
      <3>2. Tells(i)
        BY <1>2, <3>1 DEF DInv, RecordFits
      <3>3. Synced'
        BY <1>2, <1>3, <3>2 DEF Synced, Tells
      <3>4. \A j \in DOMAIN operations' :
               ~(result'[j].outcome = "Committed" /\ operations'[j].run = task'.active)
        <4>1. 0 \notin DOMAIN runs
          BY <1>1 DEF TypeOK
        <4>2. \A j \in DOMAIN operations :
                 result[j].outcome = "Committed" => operations[j].run \in DOMAIN runs
          BY DEF DInv, AnswersFit, OperationsFit, OperationFits
        <4> QED BY <1>1, <1>2, <3>1, <4>1, <4>2, Closed
      <3>5. \A j \in DOMAIN operations' :
               result'[j].outcome = "Reconstructed" /\ ~operations'[j].terminal => Tells(j)'
        BY <1>1, <1>2, <3>1, Closed DEF DInv, RecordFits, Tells
      <3> QED BY <3>3, <3>4, <3>5 DEF RecordFits
    <2> QED BY <2>1, <2>2
  <1> QED BY <1>2, <1>7, <1>8, <1>9, <1>10, <1>11, <1>12, <1>13, <1>14 DEF DInv

LEMMA AcceptFencedKeeps ==
    ASSUME DInv, NEW i \in DOMAIN operations, AcceptFenced(i)
    PROVE  /\ DInv' /\ UNCHANGED <<workspace, view>>
           /\ \A r \in DOMAIN runs :
                 runs[r].outcome # "Running" => runs'[r].outcome = runs[r].outcome
  <1> DEFINE u == [Accepted(task) EXCEPT
                     !.lifecycleFence = result[i].fence, !.status = "Cancelled",
                     !.cancel = "Cancelled", !.active = 0, !.activity = "none"]
  <1>1. /\ TypeOK /\ StatusFits /\ task \in Task /\ recovery.activityFence \in Nat
        /\ result[i].fence \in Nat
    <2>1. result[i] \in Result
      BY DEF DInv, TypeOK
    <2> QED BY <2>1 DEF DInv, TypeOK, Result
  <1>2. /\ ~operations[i].terminal /\ result[i].outcome = "Fenced" /\ Close(i)
        /\ operations[i].run = task.active /\ task.status = "Cancelling"
        /\ UNCHANGED <<recovery, workspace, view, result>> /\ task' = u
        /\ runs' = [runs EXCEPT ![task.active].outcome = "Cancelled"]
    BY DEF AcceptFenced, Evident, c04
  <1>3. /\ task' \in Task /\ task'.phase = task.phase /\ task'.status = "Cancelled"
        /\ task'.activity = "none" /\ task'.active = 0
        /\ task'.recoveryFence = recovery.activityFence
        /\ task'.cancel = "Cancelled" /\ task'.reconstruct = task.reconstruct
    <2>1. /\ u \in Task /\ u.phase = task.phase /\ u.status = "Cancelled"
          /\ u.activity = "none" /\ u.active = 0 /\ u.recoveryFence = recovery.activityFence
          /\ u.cancel = "Cancelled" /\ u.reconstruct = task.reconstruct
      BY <1>1, Stopped
    <2> HIDE DEF u
    <2> QED BY <1>2, <2>1
  <1> HIDE DEF u
  <1>4. /\ operations[i].purpose = "Fence" /\ view[task.active] = "fenced"
        /\ task.active \in DOMAIN runs /\ RunKind(task.active) = "Mutating"
    BY <1>2 DEF DInv, AnswersFit, OperationsFit, OperationFits
  <1>5. task.active # 0 /\ task.cancel = "Cancelling"
    BY <1>1, <1>2 DEF StatusFits
  <1>6. ActiveRun.outcome = "Running"
    <2>1. ActiveRun.outcome # "Succeeded"
      BY <1>4 DEF DInv, LedgerMatchesWorkspace, ActiveRun
    <2> QED BY <1>5, <2>1 DEF DInv, ActiveFits
  <1>7. Decided("Cancelled", ActiveRun.validation)
    BY <1>1, <1>2, <1>4, OutcomeWritten
  <1>8. /\ Kept /\ SuccessStands
        /\ \A r \in DOMAIN runs : runs'[r].validation = runs[r].validation
        /\ runs'[task.active].outcome = "Cancelled"
        /\ \A r \in DOMAIN runs :
              runs[r].outcome # "Running" => runs'[r].outcome = runs[r].outcome
    BY <1>6, <1>7 DEF Decided, Kept, SuccessStands, ActiveRun
  <1>9. PhasesDone'
    <2>1. PhaseMoves
      BY <1>3 DEF PhaseMoves
    <2> QED BY <1>8, <2>1, PhasesKept
  <1>10. TypeOK'
    <2>1. operations' \in Seq(Operation) /\ Len(operations') = Len(operations)
      BY <1>1, <1>2, Closed
    <2> QED BY <1>1, <1>2, <1>3, <1>8, <2>1 DEF TypeOK, Kept
  <1>11. StatusFits'
    BY <1>1, <1>2, <1>3 DEF StatusFits, Waiting
  <1>12. ActiveFits'
    BY <1>3, <1>8, MoveKeepsActive
  <1>13. LedgerMatchesWorkspace'
    <2>1. \A r \in DOMAIN runs : Pipeline[runs'[r].activity][runs'[r].phase] = RunKind(r)
      BY <1>8 DEF Kept, RunKind
    <2> QED BY <1>2, <1>4, <1>8, <2>1 DEF DInv, LedgerMatchesWorkspace, RunKind, Kept
  <1>14. OperationsFit' /\ OneReconstruction' /\ AnswersFit'
    BY <1>2, <1>3, <1>4, <1>5, <1>8, CloseKeeps
  <1>15. RecordFits'
    BY <1>3 DEF RecordFits
  <1> QED BY <1>2, <1>8, <1>9, <1>10, <1>11, <1>12, <1>13, <1>14, <1>15 DEF DInv

LEMMA AcceptReconstructedKeeps ==
    ASSUME DInv, NEW i \in DOMAIN operations, AcceptReconstructed(i)
    PROVE  DInv' /\ UNCHANGED <<runs, workspace, view>>
  <1> DEFINE fence == result[i].fence
             revision == result[i].revision
             u == [Accepted(task) EXCEPT !.reconstruct = "accepted",
                                         !.lifecycleFence = fence,
                                         !.latestRevision = revision]
  <1>1. /\ TypeOK /\ StatusFits /\ task \in Task /\ recovery.activityFence \in Nat
        /\ result[i].fence \in Nat /\ result[i].revision \in Nat
    <2>1. result[i] \in Result
      BY DEF DInv, TypeOK
    <2> QED BY <2>1 DEF DInv, TypeOK, Result
  <1>2. /\ ~operations[i].terminal /\ result[i].outcome = "Reconstructed" /\ Close(i)
        /\ task.cancel = "NotRequested" /\ task.reconstruct = "required"
        /\ UNCHANGED <<runs, recovery, workspace, view, result>> /\ task' = u
    BY DEF AcceptReconstructed, Evident, NotCancelled, c04
  <1>3. /\ task' \in Task /\ task'.phase = task.phase /\ task'.status = task.status
        /\ task'.activity = task.activity /\ task'.active = task.active
        /\ task'.recoveryFence = recovery.activityFence
        /\ task'.lifecycleFence = result[i].fence /\ task'.latestRevision = result[i].revision
        /\ task'.cancel = task.cancel /\ task'.edits = task.edits
        /\ task'.reconstruct = "accepted"
    <2>1. fence \in Nat /\ revision \in Nat /\ TypeOK /\ StatusFits
      BY <1>1
    <2> HIDE DEF fence, revision
    <2>2. /\ u \in Task /\ u.phase = task.phase /\ u.status = task.status
          /\ u.activity = task.activity /\ u.active = task.active
          /\ u.recoveryFence = recovery.activityFence
          /\ u.lifecycleFence = fence /\ u.latestRevision = revision
          /\ u.cancel = task.cancel /\ u.edits = task.edits
          /\ u.reconstruct = "accepted"
      BY <2>1, Reconstructed, ZenonT(60)
    <2> HIDE DEF u
    <2> QED BY <1>2, <2>2 DEF fence, revision
  <1> HIDE DEF u
  <1>4. operations[i].purpose = "Reconstruct" /\ task.active = 0 /\ Tells(i)
    BY <1>1, <1>2 DEF DInv, AnswersFit, StatusFits, RecordFits
  <1>5. Kept /\ SuccessStands
    BY <1>1, <1>2, NoRowMoves DEF SuccessStands
  <1>6. PhasesDone'
    <2>1. PhaseMoves
      BY <1>3 DEF PhaseMoves
    <2> QED BY <1>5, <2>1, PhasesKept
  <1>7. TypeOK'
    <2>1. operations' \in Seq(Operation) /\ Len(operations') = Len(operations)
      BY <1>1, <1>2, Closed
    <2> QED BY <1>1, <1>2, <1>3, <2>1 DEF TypeOK
  <1>8. StatusFits'
    BY <1>1, <1>2, <1>3, <1>4 DEF StatusFits, Waiting, Kind
  <1>9. ActiveFits'
    BY <1>3, <1>4, <1>5, MoveKeepsActive
  <1>10. LedgerMatchesWorkspace'
    BY <1>2, <1>3 DEF DInv, LedgerMatchesWorkspace, RunKind
  <1>11. OperationsFit' /\ OneReconstruction' /\ AnswersFit'
    BY <1>2, <1>3, <1>4, <1>5, CloseKeeps
  <1>12. RecordFits'
    <2>1. Synced'
      BY <1>2, <1>3, <1>4 DEF Synced, Tells
    <2>2. /\ DOMAIN operations' = DOMAIN operations
          /\ \A j \in DOMAIN operations :
                /\ operations'[j].run = operations[j].run
                /\ operations'[j].purpose = operations[j].purpose
                /\ operations'[j].terminal <=> (operations[j].terminal \/ j = i)
      BY <1>1, <1>2, Closed
    <2>3. \A j \in DOMAIN operations' :
             ~(result'[j].outcome = "Committed" /\ operations'[j].run = task'.active)
      <3>1. 0 \notin DOMAIN runs
        BY <1>1 DEF TypeOK
      <3>2. \A j \in DOMAIN operations :
               result[j].outcome = "Committed" => operations[j].run \in DOMAIN runs
        BY DEF DInv, AnswersFit, OperationsFit, OperationFits
      <3> QED BY <1>2, <1>3, <1>4, <2>2, <3>1, <3>2
    <2>4. \A j \in DOMAIN operations' :
             result'[j].outcome = "Reconstructed" /\ ~operations'[j].terminal => Tells(j)'
      BY <1>2, <2>2 DEF DInv, RecordFits, Tells
    <2> QED BY <2>1, <2>3, <2>4 DEF RecordFits
  <1> QED BY <1>2, <1>6, <1>7, <1>8, <1>9, <1>10, <1>11, <1>12 DEF DInv

-----------------------------------------------------------------------------
(* C04 acts: the record stays as it is. *)

\* A view that has its terminal decision keeps it, one is committed only for the
\* active run's accepted work, and an answer, given once, fits its operation.
ViewsStand ==
    \A r \in DOMAIN runs :
        /\ view[r] \in {"committed", "fenced"} => view'[r] = view[r]
        /\ view'[r] = "committed" =>
              view[r] = "committed" \/ (r = task.active /\ runs[r].validation = "Accepted")

AnswersStand ==
    \A j \in DOMAIN operations :
        \/ result'[j] = result[j]
        \/ /\ result[j].outcome = "none" /\ result'[j].outcome # "none"
           /\ result'[j].outcome = "Committed" =>
                 operations[j].purpose = "Commit" /\ view'[operations[j].run] = "committed"
           /\ result'[j].outcome = "Fenced" =>
                 operations[j].purpose = "Fence" /\ view'[operations[j].run] = "fenced"
           /\ result'[j].outcome = "Reconstructed" => operations[j].purpose = "Reconstruct"

LEMMA WorkspaceKeeps ==
    ASSUME DInv, UNCHANGED <<aggregate, recovery>>, TypeOK', ViewsStand, AnswersStand,
           RecordFits'
    PROVE  DInv'
  <1>1. UNCHANGED <<task, runs, operations, recovery>>
    BY DEF aggregate
  <1>2. StatusFits' /\ ActiveFits' /\ PhasesDone' /\ OneReconstruction'
    BY <1>1 DEF DInv, StatusFits, ActiveFits, ActiveRun, Kind, PhasesDone, PhasesInOrder, Done,
                OneReconstruction
  <1>3. LedgerMatchesWorkspace'
    BY <1>1 DEF DInv, LedgerMatchesWorkspace, RunKind, ViewsStand
  <1>4. ASSUME NEW j \in DOMAIN operations
        PROVE  /\ operations[j].purpose \in {"Commit", "Fence"} =>
                     operations[j].run \in DOMAIN runs
               /\ OperationFits(j)
    BY DEF DInv, OperationsFit, OperationFits
  <1>5. OperationsFit'
    <2>1. ASSUME NEW j \in DOMAIN operations
          PROVE  OperationFits(j)'
      BY <1>1, <1>4 DEF OperationFits, RunKind, ViewsStand, AnswersStand
    <2> QED BY <1>1, <2>1 DEF OperationsFit
  <1>6. AnswersFit'
    <2>1. \A r \in DOMAIN runs : view'[r] = "committed" => runs[r].validation = "Accepted"
      BY DEF DInv, AnswersFit, ViewsStand
    <2>2. ASSUME NEW j \in DOMAIN operations
          PROVE  /\ result'[j].outcome = "Committed" =>
                       operations[j].purpose = "Commit" /\ view'[operations[j].run] = "committed"
                 /\ result'[j].outcome = "Fenced" =>
                       operations[j].purpose = "Fence" /\ view'[operations[j].run] = "fenced"
                 /\ result'[j].outcome = "Reconstructed" => operations[j].purpose = "Reconstruct"
      <3>1. CASE result'[j] = result[j]
        BY <1>4, <3>1 DEF DInv, AnswersFit, ViewsStand
      <3>2. CASE result'[j] # result[j]
        BY <3>2 DEF AnswersStand
      <3> QED BY <3>1, <3>2
    <2> QED BY <1>1, <2>1, <2>2 DEF AnswersFit
  <1> QED BY <1>2, <1>3, <1>5, <1>6 DEF DInv

\* What the record knows stays so while C04 keeps its workspace.
LEMMA QuietKeepsRecord ==
    ASSUME DInv, UNCHANGED <<aggregate, recovery, workspace>>, 
           \A j \in DOMAIN operations :
              result'[j] = result[j] \/ result'[j].outcome = "Refused"
    PROVE  RecordFits'
  <1>1. UNCHANGED <<task, runs, operations, workspace>>
    BY DEF aggregate
  <1>2. /\ Committing' = Committing /\ Synced' = Synced
    BY <1>1 DEF Committing, Synced, Kind, ActiveRun
  <1>3. \A j \in DOMAIN operations :
           result'[j].outcome \in {"Committed", "Reconstructed"} => result'[j] = result[j]
    OBVIOUS
  <1> QED BY <1>1, <1>2, <1>3 DEF DInv, RecordFits, Tells

LEMMA OpenViewKeeps ==
    ASSUME DInv, NEW r \in DOMAIN runs, OpenView(r)
    PROVE  DInv' /\ UNCHANGED <<runs, workspace>>
  <1>1. /\ r \in DOMAIN view /\ view[r] = "none" /\ view' = [view EXCEPT ![r] = "open"]
        /\ UNCHANGED <<aggregate, recovery, workspace, result>>
        /\ view \in Seq({"none", "open", "committed", "fenced", "discarded"})
    BY DEF OpenView, DInv, TypeOK
  <1>2. /\ view' \in Seq({"none", "open", "committed", "fenced", "discarded"})
        /\ Len(view') = Len(view) /\ view'[r] = "open"
        /\ \A q \in DOMAIN view : q # r => view'[q] = view[q]
    BY <1>1
  <1>3. TypeOK'
    BY <1>1, <1>2 DEF DInv, TypeOK, aggregate
  <1>4. DOMAIN runs = DOMAIN view
    BY DEF DInv, TypeOK
  <1>5. ViewsStand /\ AnswersStand
    BY <1>1, <1>2, <1>4 DEF ViewsStand, AnswersStand
  <1>6. RecordFits'
    BY <1>1, QuietKeepsRecord
  <1> QED BY <1>1, <1>3, <1>5, <1>6, WorkspaceKeeps DEF aggregate

LEMMA DiscardViewKeeps ==
    ASSUME DInv, NEW r \in DOMAIN runs, DiscardView(r)
    PROVE  DInv' /\ UNCHANGED <<runs, workspace>>
  <1>1. /\ r \in DOMAIN view /\ view[r] = "open" /\ view' = [view EXCEPT ![r] = "discarded"]
        /\ UNCHANGED <<aggregate, recovery, workspace, result>>
        /\ view \in Seq({"none", "open", "committed", "fenced", "discarded"})
    BY DEF DiscardView, DInv, TypeOK
  <1>2. /\ view' \in Seq({"none", "open", "committed", "fenced", "discarded"})
        /\ Len(view') = Len(view) /\ view'[r] = "discarded"
        /\ \A q \in DOMAIN view : q # r => view'[q] = view[q]
    BY <1>1
  <1>3. TypeOK'
    BY <1>1, <1>2 DEF DInv, TypeOK, aggregate
  <1>4. DOMAIN runs = DOMAIN view
    BY DEF DInv, TypeOK
  <1>5. ViewsStand /\ AnswersStand
    BY <1>1, <1>2, <1>4 DEF ViewsStand, AnswersStand
  <1>6. RecordFits'
    BY <1>1, QuietKeepsRecord
  <1> QED BY <1>1, <1>3, <1>5, <1>6, WorkspaceKeeps DEF aggregate

\* An answer of C04 to one operation.
LEMMA AnswerWritten ==
    ASSUME TypeOK, NEW i \in DOMAIN operations, NEW answer \in Result,
           result' = [result EXCEPT ![i] = answer]
    PROVE  /\ result' \in Seq(Result) /\ Len(result') = Len(result) /\ result'[i] = answer
           /\ \A j \in DOMAIN operations : j # i => result'[j] = result[j]
  BY DEF TypeOK

LEMMA RefuseKeeps ==
    ASSUME DInv, NEW i \in DOMAIN operations, Refuse(i)
    PROVE  DInv' /\ UNCHANGED <<runs, workspace>>
  <1> DEFINE answer == [result[i] EXCEPT !.outcome = "Refused"]
  <1>1. /\ UNCHANGED <<aggregate, recovery, workspace, view>> /\ result[i].outcome = "none"
        /\ result' = [result EXCEPT ![i] = answer] /\ result[i] \in Result /\ TypeOK
    BY DEF Refuse, Deliverable, DInv, TypeOK
  <1>2. answer \in Result /\ answer.outcome = "Refused"
    BY <1>1 DEF Result
  <1> HIDE DEF answer
  <1>3. /\ result' \in Seq(Result) /\ Len(result') = Len(result) /\ result'[i] = answer
        /\ \A j \in DOMAIN operations : j # i => result'[j] = result[j]
    BY <1>1, <1>2, AnswerWritten
  <1>4. TypeOK'
    BY <1>1, <1>3 DEF TypeOK, aggregate
  <1>5. ViewsStand /\ AnswersStand
    BY <1>1, <1>2, <1>3 DEF ViewsStand, AnswersStand
  <1>6. RecordFits'
    BY <1>1, <1>2, <1>3, QuietKeepsRecord
  <1> QED BY <1>1, <1>4, <1>5, <1>6, WorkspaceKeeps DEF aggregate

LEMMA AnswerGiven ==
    ASSUME TypeOK, NEW i \in DOMAIN operations, workspace' \in [fence : Nat, revision : Nat],
           NEW outcome \in {"Committed", "Fenced", "Reconstructed"}, NEW revision \in Nat,
           Answered(i, outcome, revision)
    PROVE  /\ result' \in Seq(Result) /\ Len(result') = Len(result)
           /\ result'[i].outcome = outcome /\ result'[i].fence = workspace'.fence
           /\ result'[i].revision = revision
           /\ \A j \in DOMAIN operations : j # i => result'[j] = result[j]
  <1> DEFINE answer == [outcome |-> outcome, fence |-> workspace'.fence, revision |-> revision]
  <1>1. answer \in Result /\ answer.outcome = outcome /\ answer.fence = workspace'.fence
        /\ answer.revision = revision
    BY DEF Result
  <1>2. result' = [result EXCEPT ![i] = answer]
    BY DEF Answered
  <1> HIDE DEF answer
  <1>3. /\ result' \in Seq(Result) /\ Len(result') = Len(result) /\ result'[i] = answer
        /\ \A j \in DOMAIN operations : j # i => result'[j] = result[j]
    BY <1>1, <1>2, AnswerWritten
  <1> QED BY <1>1, <1>3

\* A commit C04 can enact is of the active run, whose work was accepted.
LEMMA CommitIsActive ==
    ASSUME DInv, NEW i \in DOMAIN operations, operations[i].purpose = "Commit",
           view[operations[i].run] = "open"
    PROVE  /\ operations[i].run = task.active /\ task.active \in DOMAIN runs
           /\ task.active # 0 /\ Committing
  <1> DEFINE r == operations[i].run
  <1>1. /\ r \in DOMAIN runs /\ RunKind(r) = "Mutating" /\ runs[r].validation = "Accepted"
        /\ r = task.active \/ runs[r].outcome = "Succeeded" \/ view[r] = "fenced"
    BY DEF DInv, OperationsFit, OperationFits
  <1>2. r = task.active
    BY <1>1 DEF DInv, LedgerMatchesWorkspace
  <1>3. r # 0
    BY <1>1 DEF DInv, TypeOK
  <1>4. Kind(task) = "Mutating"
    BY <1>1, <1>2, <1>3 DEF DInv, ActiveFits, ActiveRun, Kind, RunKind
  <1> QED BY <1>1, <1>2, <1>3, <1>4 DEF Committing, ActiveRun

LEMMA EnactCommitKeeps ==
    ASSUME DInv, NEW i \in DOMAIN operations, EnactCommit(i)
    PROVE  DInv' /\ UNCHANGED runs /\ task.active # 0
  <1>1. /\ operations[i].purpose = "Commit" /\ result[i].outcome = "none"
        /\ view[operations[i].run] = "open" /\ UNCHANGED <<aggregate, recovery>>
        /\ workspace' = [fence |-> workspace.fence + 1, revision |-> workspace.revision + 1]
        /\ Answered(i, "Committed", workspace.revision + 1)
        /\ view' = [view EXCEPT ![operations[i].run] = "committed"]
    BY DEF EnactCommit, Deliverable, OpenFor
  <1>2. /\ operations[i].run = task.active /\ task.active \in DOMAIN runs
        /\ task.active # 0 /\ Committing
    BY <1>1, CommitIsActive
  <1>3. /\ TypeOK /\ DOMAIN runs = DOMAIN view
        /\ view \in Seq({"none", "open", "committed", "fenced", "discarded"})
        /\ workspace.revision + 1 \in Nat /\ workspace.fence + 1 \in Nat
    BY DEF DInv, TypeOK
  <1>4. workspace' \in [fence : Nat, revision : Nat]
        /\ workspace'.revision = workspace.revision + 1
    BY <1>1, <1>3
  <1>5. /\ result' \in Seq(Result) /\ Len(result') = Len(result)
        /\ result'[i].outcome = "Committed" /\ result'[i].fence = workspace'.fence
        /\ result'[i].revision = workspace.revision + 1
        /\ \A j \in DOMAIN operations : j # i => result'[j] = result[j]
    BY <1>1, <1>3, <1>4, AnswerGiven
  <1>6. /\ view' \in Seq({"none", "open", "committed", "fenced", "discarded"})
        /\ Len(view') = Len(view) /\ view'[task.active] = "committed"
        /\ \A q \in DOMAIN view : q # task.active => view'[q] = view[q]
    BY <1>1, <1>2, <1>3
  <1>7. TypeOK'
    BY <1>1, <1>3, <1>4, <1>5, <1>6 DEF TypeOK, aggregate
  <1>8. ViewsStand
    BY <1>1, <1>2, <1>3, <1>6 DEF ViewsStand, Committing, ActiveRun
  <1>9. AnswersStand
    BY <1>1, <1>2, <1>5, <1>6 DEF AnswersStand
  <1>10. UNCHANGED <<task, runs, operations>>
    BY <1>1 DEF aggregate
  <1>11. RecordFits'
    <2>1. Committing'
      BY <1>2, <1>10 DEF Committing, Kind, ActiveRun
    <2>2. ASSUME NEW j \in DOMAIN operations, result'[j].outcome = "Committed",
                 operations[j].run = task.active
          PROVE  Tells(j)'
      <3>1. j = i
        BY <1>1, <1>2, <1>5, <2>2 DEF DInv, AnswersFit
      <3> QED BY <1>4, <1>5, <3>1 DEF Tells
    <2>3. ASSUME NEW j \in DOMAIN operations, result'[j].outcome = "Reconstructed",
                 ~operations[j].terminal, task.cancel = "NotRequested"
          PROVE  FALSE
      <3>1. result[j].outcome = "Reconstructed"
        BY <1>5, <2>3
      <3>2. operations[j].purpose = "Reconstruct"
        BY <3>1 DEF DInv, AnswersFit
      <3>3. task.reconstruct = "required"
        BY <2>3, <3>2 DEF DInv, OperationsFit, OperationFits
      <3> QED BY <1>2, <2>3, <3>3 DEF DInv, StatusFits
    <2> QED BY <1>10, <2>1, <2>2, <2>3 DEF RecordFits
  <1> QED BY <1>1, <1>2, <1>7, <1>8, <1>9, <1>10, <1>11, WorkspaceKeeps

LEMMA EnactFenceKeeps ==
    ASSUME DInv, NEW i \in DOMAIN operations, EnactFence(i)
    PROVE  DInv' /\ UNCHANGED runs /\ workspace'.revision = workspace.revision
  <1>1. /\ operations[i].purpose = "Fence" /\ result[i].outcome = "none"
        /\ view[operations[i].run] = "open" /\ UNCHANGED <<aggregate, recovery>>
        /\ workspace' = [workspace EXCEPT !.fence = @ + 1]
        /\ Answered(i, "Fenced", workspace.revision)
        /\ view' = [view EXCEPT ![operations[i].run] = "fenced"]
    BY DEF EnactFence, Deliverable, OpenFor
  <1>2. operations[i].run \in DOMAIN runs /\ task.cancel # "NotRequested"
    BY <1>1 DEF DInv, OperationsFit, OperationFits
  <1>3. /\ TypeOK /\ DOMAIN runs = DOMAIN view
        /\ view \in Seq({"none", "open", "committed", "fenced", "discarded"})
        /\ workspace \in [fence : Nat, revision : Nat]
    BY DEF DInv, TypeOK
  <1>4. /\ workspace' \in [fence : Nat, revision : Nat]
        /\ workspace'.revision = workspace.revision /\ workspace.revision \in Nat
    BY <1>1, <1>3
  <1>5. /\ result' \in Seq(Result) /\ Len(result') = Len(result)
        /\ result'[i].outcome = "Fenced"
        /\ \A j \in DOMAIN operations : j # i => result'[j] = result[j]
    BY <1>1, <1>3, <1>4, AnswerGiven
  <1>6. /\ view' \in Seq({"none", "open", "committed", "fenced", "discarded"})
        /\ Len(view') = Len(view) /\ view'[operations[i].run] = "fenced"
        /\ \A q \in DOMAIN view : q # operations[i].run => view'[q] = view[q]
    BY <1>1, <1>2, <1>3
  <1>7. TypeOK'
    BY <1>1, <1>3, <1>4, <1>5, <1>6 DEF TypeOK, aggregate
  <1>8. ViewsStand
    BY <1>1, <1>2, <1>3, <1>6 DEF ViewsStand
  <1>9. AnswersStand
    BY <1>1, <1>2, <1>5, <1>6 DEF AnswersStand
  <1>10. RecordFits'
    BY <1>1, <1>2 DEF RecordFits, aggregate
  <1> QED BY <1>1, <1>4, <1>7, <1>8, <1>9, <1>10, WorkspaceKeeps DEF aggregate

LEMMA EnactReconstructKeeps ==
    ASSUME DInv, NEW i \in DOMAIN operations, EnactReconstruct(i)
    PROVE  DInv' /\ UNCHANGED runs /\ workspace'.revision = workspace.revision
  <1>1. /\ operations[i].purpose = "Reconstruct" /\ result[i].outcome = "none"
        /\ UNCHANGED <<aggregate, recovery, view>>
        /\ workspace' = [workspace EXCEPT !.fence = @ + 1]
        /\ Answered(i, "Reconstructed", workspace.revision)
    BY DEF EnactReconstruct, Deliverable
  <1>2. /\ TypeOK /\ workspace \in [fence : Nat, revision : Nat]
    BY DEF DInv, TypeOK
  <1>3. /\ workspace' \in [fence : Nat, revision : Nat]
        /\ workspace'.revision = workspace.revision /\ workspace.revision \in Nat
    BY <1>1, <1>2
  <1>4. /\ result' \in Seq(Result) /\ Len(result') = Len(result)
        /\ result'[i].outcome = "Reconstructed" /\ result'[i].fence = workspace'.fence
        /\ result'[i].revision = workspace.revision
        /\ \A j \in DOMAIN operations : j # i => result'[j] = result[j]
    BY <1>1, <1>2, <1>3, AnswerGiven
  <1>5. TypeOK'
    BY <1>1, <1>2, <1>3, <1>4 DEF TypeOK, aggregate
  <1>6. ViewsStand /\ AnswersStand
    BY <1>1, <1>4 DEF ViewsStand, AnswersStand
  <1>7. UNCHANGED <<task, runs, operations>>
    BY <1>1 DEF aggregate
  <1>8. RecordFits'
    <2>1. SUFFICES ASSUME task.cancel = "NotRequested"
                   PROVE  RecordFits'
      BY <1>7 DEF RecordFits
    <2>2. ~operations[i].terminal
      BY <1>1 DEF DInv, OperationsFit, OperationFits
    <2>3. task.reconstruct = "required" /\ task.active = 0
      BY <1>1, <2>1, <2>2 DEF DInv, OperationsFit, OperationFits, StatusFits
    <2>4. \A j \in DOMAIN operations :
             ~(result'[j].outcome = "Committed" /\ operations[j].run = task.active)
      <3>1. 0 \notin DOMAIN runs
        BY <1>2 DEF TypeOK
      <3>2. \A j \in DOMAIN operations :
               result[j].outcome = "Committed" => operations[j].run \in DOMAIN runs
        BY DEF DInv, AnswersFit, OperationsFit, OperationFits
      <3> QED BY <1>4, <2>3, <3>1, <3>2
    <2>5. ASSUME NEW j \in DOMAIN operations, result'[j].outcome = "Reconstructed",
                 ~operations[j].terminal
          PROVE  Tells(j)'
      <3>1. operations[j].purpose = "Reconstruct"
        BY <1>1, <1>4, <2>5 DEF DInv, AnswersFit
      <3>2. j = i
        BY <1>1, <2>1, <2>2, <2>5, <3>1 DEF DInv, OneReconstruction
      <3> QED BY <1>3, <1>4, <3>2 DEF Tells
    <2> QED BY <1>7, <2>3, <2>4, <2>5 DEF RecordFits
  <1> QED BY <1>1, <1>3, <1>5, <1>6, <1>7, <1>8, WorkspaceKeeps

-----------------------------------------------------------------------------
(* The record at every moment of a task's life. *)

LEMMA DInit == Init => DInv
  <1> SUFFICES ASSUME Init PROVE DInv
    OBVIOUS
  <1>1. TypeOK
    BY TaskAssumption DEF Init, TypeOK, Task, Statuses
  <1>2. StatusFits /\ ActiveFits
    BY DEF Init, StatusFits, ActiveFits, Waiting
  <1>3. PhasesDone /\ LedgerMatchesWorkspace /\ OperationsFit /\ OneReconstruction /\ AnswersFit
    BY DEF Init, PhasesDone, PhasesInOrder, LedgerMatchesWorkspace, OperationsFit,
           OneReconstruction, AnswersFit
  <1>4. RecordFits
    BY DEF Init, RecordFits, Synced
  <1> QED BY <1>1, <1>2, <1>3, <1>4 DEF DInv

\* What the steps of a task never do.
DecidedStand ==
    \A r \in DOMAIN runs : runs[r].outcome # "Running" => runs'[r].outcome = runs[r].outcome

RevisionStands == task.status = "Cancelled" => workspace'.revision = workspace.revision

LEMMA MoveStands ==
    ASSUME DInv, Moves
    PROVE  DInv' /\ DecidedStand /\ RevisionStands
  BY MoveKeeps DEF Moves, RunsMove, DecidedStand, RevisionStands

LEMMA DecisionStands ==
    ASSUME DInv,
           \/ StartTask \/ MakeWorkAvailable \/ RetryPhase \/ RetryRuntimeRun \/ Confirm
           \/ \E i \in 1..MaxRuntimes, outcome \in {"Succeeded", "Failed"} :
                 AcceptRuntime(i, outcome)
           \/ RejectValidation \/ AcceptValidation
           \/ \E outcome \in {"Succeeded", "Failed"} : AcceptPublication(outcome)
           \/ CancelTask
           \/ \E reconstruct \in BOOLEAN : BeginManualEdit(reconstruct)
    PROVE  DInv' /\ DecidedStand /\ RevisionStands
  <1>1. CASE StartTask
    BY <1>1, StartTaskMoves, MoveStands
  <1>2. CASE MakeWorkAvailable \/ RetryPhase
    <2>1. /\ task.cancel = "NotRequested" /\ task.status \in {"Ready", "Running", "Failed"}
          /\ Begin(task)
      BY <1>2 DEF MakeWorkAvailable, RetryPhase, NotCancelled
    <2>2. workspace' = workspace
      BY <2>1 DEF Begin
    <2> QED BY <2>1, <2>2, BeginKeeps DEF DecidedStand, RevisionStands
  <1>3. CASE RetryRuntimeRun
    BY <1>3, RetryRuntimeRunMoves, MoveStands
  <1>4. CASE Confirm
    BY <1>4, ConfirmMoves, MoveStands
  <1>5. CASE \E i \in 1..MaxRuntimes, outcome \in {"Succeeded", "Failed"} :
                AcceptRuntime(i, outcome)
    BY <1>5, AcceptRuntimeMoves, MoveStands
  <1>6. CASE RejectValidation
    BY <1>6, RejectValidationMoves, MoveStands
  <1>7. CASE AcceptValidation
    BY <1>7, AcceptValidationMoves, MoveStands
  <1>8. CASE \E outcome \in {"Succeeded", "Failed"} : AcceptPublication(outcome)
    BY <1>8, AcceptPublicationMoves, MoveStands
  <1>9. CASE CancelTask
    BY <1>9, CancelTaskMoves, MoveStands
  <1>10. CASE \E reconstruct \in BOOLEAN : BeginManualEdit(reconstruct)
    BY <1>10, BeginManualEditMoves, MoveStands
  <1> QED BY <1>1, <1>2, <1>3, <1>4, <1>5, <1>6, <1>7, <1>8, <1>9, <1>10

LEMMA RecoveryStands ==
    ASSUME DInv,
           \/ \E mode \in {"FullReady", "ReadOnly"} :
                 ApplyOperationalFence(mode) \/ RaisedElsewhere(mode)
           \/ CatchUp
    PROVE  DInv' /\ DecidedStand /\ RevisionStands
  <1>1. CASE CatchUp
    BY <1>1, CatchUpMoves, MoveStands
  <1>2. CASE \E mode \in {"FullReady", "ReadOnly"} :
                ApplyOperationalFence(mode) \/ RaisedElsewhere(mode)
    BY <1>2, ApplyOperationalFenceMoves, RaisedElsewhereMoves, MoveStands
  <1> QED BY <1>1, <1>2

LEMMA WorkspaceStands ==
    ASSUME DInv,
           \/ \E r \in DOMAIN runs : OpenView(r) \/ DiscardView(r)
           \/ \E i \in DOMAIN operations : Enact(i) \/ AcceptEvidence(i)
    PROVE  DInv' /\ DecidedStand /\ RevisionStands
  <1>1. CASE \E r \in DOMAIN runs : OpenView(r) \/ DiscardView(r)
    BY <1>1, OpenViewKeeps, DiscardViewKeeps DEF DecidedStand, RevisionStands
  <1>2. ASSUME NEW i \in DOMAIN operations, EnactCommit(i)
        PROVE  DInv' /\ DecidedStand /\ RevisionStands
    <2>1. task.status # "Cancelled"
      BY <1>2, EnactCommitKeeps DEF DInv, StatusFits
    <2> QED BY <1>2, <2>1, EnactCommitKeeps DEF DecidedStand, RevisionStands
  <1>3. ASSUME NEW i \in DOMAIN operations, EnactFence(i) \/ EnactReconstruct(i) \/ Refuse(i)
        PROVE  DInv' /\ DecidedStand /\ RevisionStands
    BY <1>3, EnactFenceKeeps, EnactReconstructKeeps, RefuseKeeps
       DEF DecidedStand, RevisionStands
  <1>4. ASSUME NEW i \in DOMAIN operations, AcceptEvidence(i)
        PROVE  DInv' /\ DecidedStand /\ RevisionStands
    BY <1>4, AcceptCommittedKeeps, AcceptFencedKeeps, AcceptReconstructedKeeps
       DEF AcceptEvidence, DecidedStand, RevisionStands
  <1> QED BY <1>1, <1>2, <1>3, <1>4 DEF Enact

LEMMA StepStands ==
    ASSUME DInv, [Next]_vars
    PROVE  DInv' /\ (UNCHANGED vars \/ (DecidedStand /\ RevisionStands))
  <1>1. CASE UNCHANGED vars
    <2>1. UNCHANGED <<task, runs, operations, recovery, workspace, view, result>>
      BY <1>1 DEF vars, aggregate, c04
    <2> QED BY <1>1, <2>1 DEF DInv, TypeOK, StatusFits, ActiveFits, ActiveRun, Kind, PhasesDone,
               PhasesInOrder, Done, LedgerMatchesWorkspace, RunKind, OperationsFit,
               OperationFits, OneReconstruction, AnswersFit, RecordFits, Committing, Synced, Tells
  <1>2. CASE Next
    BY <1>2, DecisionStands, RecoveryStands, WorkspaceStands DEF Next
  <1> QED BY <1>1, <1>2

(* Whatever is decided, delivered, answered and recovered, in any order,    *)
(* the status of a task fits its activity, its active run and its           *)
(* cancellation, every operation belongs to a run it may still be of, and   *)
(* the record differs from the workspace only while an operation that       *)
(* accounts for it is under way (beginAggregatePhase,                       *)
(* buildCancellationEnactments,                                             *)
(* acceptAggregateTaskWorkspaceLifecycleEvidence).                          *)
THEOREM DecisionsInvariant == Spec => []DInv
  <1>1. DInv /\ [Next]_vars => DInv'
    BY StepStands
  <1> QED BY <1>1, DInit, PTL DEF Spec

(* At every moment of a task's life the phases were begun in order, each    *)
(* after the one before it succeeded in the same activity, and the record   *)
(* and the Task Workspace agree on what was committed: for every pipeline   *)
(* and any number of retries, edits, cancellations and recoveries           *)
(* (beginAggregatePhase, acceptAggregateTaskWorkspaceLifecycleEvidence,     *)
(* CommitRuntimeView).                                                      *)
THEOREM RecordHolds == Spec => []RecordInvariant
  <1>1. DInv => RecordInvariant
    BY DEF DInv, PhasesDone, RecordInvariant
  <1> QED BY <1>1, DecisionsInvariant, PTL

(* Whenever the next phase can be begun the record knows the revision and   *)
(* the fence of the workspace, so the requests its operations will carry    *)
(* are ones the Task Workspace accepts (beginAggregatePhase,                *)
(* downstream_taskworkspace.go).                                            *)
THEOREM RecordKnowsTheWorkspace == Spec => []RecordUpToDateAtRest
  <1>1. ASSUME DInv PROVE RecordUpToDateAtRest
    <2>1. SUFFICES ASSUME task.status \in {"Ready", "Running", "Failed", "Completed"},
                          task.active = 0, task.reconstruct # "required"
                   PROVE  RequestBase = workspace.revision /\ RequestFence = workspace.fence
      BY DEF RecordUpToDateAtRest
    <2>2. task.cancel = "NotRequested"
      <3>1. task.cancel \in {"NotRequested", "Cancelling", "Cancelled"}
        BY <1>1 DEF DInv, TypeOK, Task
      <3> QED BY <1>1, <2>1, <3>1 DEF DInv, StatusFits
    <2>3. Synced
      BY <1>1, <2>1, <2>2 DEF DInv, RecordFits, Committing
    <2> QED BY <2>3 DEF Synced, RequestBase, RequestFence
  <1>2. DInv => RecordUpToDateAtRest
    BY <1>1
  <1> QED BY <1>2, DecisionsInvariant, PTL

(* The outcome of a phase run is decided once: what the workspace answers   *)
(* late, a cancellation, a retry or a recovery never overwrites it          *)
(* (acceptAggregateTaskWorkspaceLifecycleEvidence, cancelAggregateTask).    *)
THEOREM DecidedOnce == Spec => OutcomesStand
  <1>1. DInv /\ [Next]_vars =>
           [\A r \in DOMAIN runs :
               runs[r].outcome # "Running" => runs'[r].outcome = runs[r].outcome]_vars
    BY StepStands DEF DecidedStand
  <1> QED BY <1>1, DecisionsInvariant, PTL DEF Spec, OutcomesStand

(* The workspace of a cancelled task gets no further revision: a commit     *)
(* still on its way finds the view fenced (buildCancellationEnactments,     *)
(* CommitRuntimeView).                                                      *)
THEOREM CancelledIsFinal == Spec => NoRevisionAfterCancelled
  <1>1. DInv /\ [Next]_vars =>
           [task.status = "Cancelled" => workspace'.revision = workspace.revision]_vars
    BY StepStands DEF RevisionStands
  <1> QED BY <1>1, DecisionsInvariant, PTL DEF Spec, NoRevisionAfterCancelled

=============================================================================
