--------------------------- MODULE TaskExecution ---------------------------
(***************************************************************************)
(* One task of the task service: the calls of its owner (start, confirm,   *)
(* continue, cancel, retry) and the workers that claim it and carry its    *)
(* pipeline phases out.  Every write of the row compares the status and    *)
(* the claim token the writer read before; everything else a worker does   *)
(* (the exchange of the canonical project, the published files, the        *)
(* artifact version) happens between such writes, and a worker whose claim *)
(* was taken over goes on until its next one.                              *)
(*                                                                         *)
(* A claim has no clock: it is live until Lapse, and every write made with *)
(* its token revives it.  Tokens are numbered in the order of the claims.  *)
(* The contents of the project and of the contracts are abstracted to the  *)
(* verdict a phase ends with.                                              *)
(***************************************************************************)
EXTENDS Naturals, FiniteSets

CONSTANTS Workers,         \* worker processes
          Callers,         \* API requests in progress at a time
          WorkerStatuses,  \* the statuses a worker claims a task in
          Chained,         \* those of them a worker goes on to in the same claim
          Onward,          \* the state machine's forward transitions of the route
          Start,           \* the first worker status of the route
          Erasing,         \* worker statuses whose retry deletes what was published
          MaxReturns,      \* bound: calls that send the task back
          MaxFaults        \* bound: crashes, database errors, premature lapses

Nobody == "nobody"
Deriving == "realization_deriving"
Publishing == "publishing"
Open == DOMAIN Onward
Statuses == Open \cup {"failed", "cancelled", "completed"}
Awaiting == (Open \ WorkerStatuses) \ {"uploaded", Deriving}

ASSUME TaskExecutionAssumption ==
    /\ Chained \subseteq WorkerStatuses /\ Erasing \subseteq WorkerStatuses
    /\ Start \in WorkerStatuses /\ Publishing \in WorkerStatuses
    /\ WorkerStatuses \cup {"uploaded"} \subseteq Open
    /\ Open \cap {"failed", "cancelled", "completed"} = {}
    /\ Onward \in [Open -> SUBSET (Open \cup {"completed"})]
    /\ Onward["uploaded"] = {Start} /\ Onward[Publishing] = {"completed"}
    /\ \A s \in Open : "completed" \in Onward[s] => s = Publishing
    /\ \A s \in WorkerStatuses : Onward[s] # {}
    /\ Nobody \notin Workers
    /\ MaxReturns \in Nat /\ MaxFaults \in Nat

VARIABLES task,       \* the row: status, claim token (0: none), whether the claim is stale
          runs,       \* phase and runtime runs
          project,    \* the claim whose tree the canonical project is, 0: none yet
          artifacts,  \* claims whose published artifacts are stored
          versions,   \* claims whose artifact version is active
          lock,       \* who holds the project promotion lock
          worker,     \* each worker's place and its copy of the row
          call,       \* each request's place and its copy of the row
          minted,     \* claim tokens handed out
          returns, faults

outputs == <<project, artifacts, versions>>
bounds == <<returns, faults>>
vars == <<task, runs, outputs, lock, worker, call, minted, bounds>>

Places == {"idle", "claim", "begin", "launch", "agent", "apply", "lock", "renew",
           "exchange", "publish", "activate", "finish", "move", "failing", "fail", "release"}

IdleWorker == [at |-> "idle", status |-> Start, token |-> 0, good |-> TRUE]
IdleCall == [at |-> "idle", from |-> "uploaded", token |-> 0, to |-> "uploaded"]

Run == [claim : Nat, at : WorkerStatuses, kind : {"phase", "runtime"},
        state : {"running", "succeeded", "failed"}]

Init == /\ task = [status |-> "uploaded", token |-> 0, stale |-> FALSE]
        /\ runs = {} /\ project = 0 /\ artifacts = {} /\ versions = {}
        /\ lock = Nobody
        /\ worker = [w \in Workers |-> IdleWorker]
        /\ call = [c \in Callers |-> IdleCall]
        /\ minted = 0 /\ returns = 0 /\ faults = 0

-----------------------------------------------------------------------------
\* The row and the runs, as the repository's transactions change them.

CanTransition(from, to) ==
    \/ from = to
    \/ from \in Open /\ to \in Onward[from] \cup {"failed", "cancelled"}
    \/ from = "failed" /\ to \in WorkerStatuses \cup {"cancelled"}

\* Variant: a claim never goes stale.
UnclaimedOnly == task.token = 0

Claimable == task.token = 0 \/ task.stale

\* Variant: the status is not compared.
CurrentClaim(status, token) == task.token = token

\* The comparison of a write made under a claim: commitWithTaskExecutionClaim,
\* SaveTaskIfStatus.
Current(status, token) == task.status = status /\ task.token = token

Abandoned == {IF r.state = "running" THEN [r EXCEPT !.state = "failed"] ELSE r : r \in runs}

\* SaveTaskIfStatus by the holder of token: the claim stays and is renewed;
\* leaving a status abandons what ran in it, when the writer knew of a claim.
Saved(status, token) ==
    /\ task' = [task EXCEPT !.status = status, !.stale = FALSE]
    /\ runs' = IF token # 0 /\ status # task.status THEN Abandoned ELSE runs

Renewed == task' = [task EXCEPT !.stale = FALSE]

Holds(w) == Current(worker[w].status, worker[w].token)

OwnRun(w, kind) == {r \in runs : /\ r.claim = worker[w].token /\ r.at = worker[w].status
                                 /\ r.kind = kind /\ r.state = "running"}

Opened(w, kind) == runs \cup {[claim |-> worker[w].token, at |-> worker[w].status,
                               kind |-> kind, state |-> "running"]}

Ended(w, kind, state) ==
    (runs \ OwnRun(w, kind)) \cup {[r EXCEPT !.state = state] : r \in OwnRun(w, kind)}

Goto(w, place) == worker' = [worker EXCEPT ![w].at = place]

\* The CAS of a run's outcome failed: it is abandoned if the claim still stands,
\* whatever the status.
Abandon(w, kind) ==
    IF task.token = worker[w].token
    THEN Renewed /\ runs' = Ended(w, kind, "failed")
    ELSE UNCHANGED <<task, runs>>

-----------------------------------------------------------------------------
\* Claiming: the poll reads the row, the claim compares the status it read.

Look(w) ==
    /\ worker[w].at = "idle" /\ task.status \in WorkerStatuses /\ Claimable
    /\ worker' = [worker EXCEPT ![w] = [IdleWorker EXCEPT !.at = "claim", !.status = task.status]]
    /\ UNCHANGED <<task, runs, outputs, lock, call, minted, bounds>>

\* Variant: a takeover leaves the runs of the claim before.
ClaimKeepsRuns(w) ==
    /\ worker[w].at = "claim"
    /\ IF task.status = worker[w].status /\ Claimable
       THEN /\ minted' = minted + 1
            /\ task' = [task EXCEPT !.token = minted + 1, !.stale = FALSE]
            /\ worker' = [worker EXCEPT ![w].at = "begin", ![w].token = minted + 1]
       ELSE worker' = [worker EXCEPT ![w] = IdleWorker] /\ UNCHANGED <<task, minted>>
    /\ UNCHANGED <<runs, outputs, lock, call, bounds>>

Claim(w) ==
    /\ worker[w].at = "claim"
    /\ \/ /\ task.status = worker[w].status /\ Claimable
          /\ minted' = minted + 1
          /\ task' = [task EXCEPT !.token = minted + 1, !.stale = FALSE]
          /\ runs' = Abandoned
          /\ worker' = [worker EXCEPT ![w].at = "begin", ![w].token = minted + 1]
       \/ /\ ~(task.status = worker[w].status /\ Claimable)
          /\ worker' = [worker EXCEPT ![w] = IdleWorker]
          /\ UNCHANGED <<task, runs, minted>>
    /\ UNCHANGED <<outputs, lock, call, bounds>>

\* A phase: its run is recorded, the agent runs, the project it leaves is
\* promoted, its contract decides, the task moves on.

Begin(w) ==
    /\ worker[w].at = "begin"
    /\ \/ /\ Holds(w) /\ Renewed /\ runs' = Opened(w, "phase")
          /\ Goto(w, IF worker[w].status = Publishing THEN "publish" ELSE "launch")
       \/ /\ ~Holds(w) /\ Goto(w, "fail") /\ UNCHANGED <<task, runs>>
    /\ UNCHANGED <<outputs, lock, call, minted, bounds>>

Launch(w) ==
    /\ worker[w].at = "launch"
    /\ \/ Holds(w) /\ Renewed /\ runs' = Opened(w, "runtime") /\ Goto(w, "agent")
       \/ ~Holds(w) /\ Goto(w, "failing") /\ UNCHANGED <<task, runs>>
    /\ UNCHANGED <<outputs, lock, call, minted, bounds>>

\* The agent's result.  A result that cannot be recorded counts as a failure.
Report(w) ==
    /\ worker[w].at = "agent"
    /\ \E good \in BOOLEAN :
         LET recorded == Holds(w) /\ OwnRun(w, "runtime") # {}
         IN /\ \/ recorded /\ Renewed /\ runs' = Ended(w, "runtime", IF good THEN "succeeded" ELSE "failed")
               \/ ~recorded /\ Abandon(w, "runtime")
            /\ worker' = [worker EXCEPT ![w].at = "apply", ![w].good = good /\ recorded]
    /\ UNCHANGED <<outputs, lock, call, minted, bounds>>

Apply(w) ==
    /\ worker[w].at = "apply"
    /\ \/ Holds(w) /\ Renewed /\ Goto(w, IF worker[w].good THEN "lock" ELSE "failing")
       \/ ~Holds(w) /\ Goto(w, "failing") /\ UNCHANGED task
    /\ UNCHANGED <<runs, outputs, lock, call, minted, bounds>>

Lock(w) ==
    /\ worker[w].at = "lock" /\ lock = Nobody
    /\ lock' = w /\ Goto(w, "renew")
    /\ UNCHANGED <<task, runs, outputs, call, minted, bounds>>

\* Variant: the claim is not compared under the lock.
RenewUnchecked(w) ==
    /\ worker[w].at = "renew" /\ Goto(w, "exchange")
    /\ UNCHANGED <<task, runs, outputs, lock, call, minted, bounds>>

Renew(w) ==
    /\ worker[w].at = "renew"
    /\ \/ Holds(w) /\ Renewed /\ Goto(w, "exchange") /\ UNCHANGED lock
       \/ ~Holds(w) /\ Goto(w, "failing") /\ lock' = Nobody /\ UNCHANGED task
    /\ UNCHANGED <<runs, outputs, call, minted, bounds>>

\* The exchange may fail, and a project that was exchanged may break the
\* phase's contract.
Exchange(w) ==
    /\ worker[w].at = "exchange"
    /\ lock' = Nobody
    /\ \/ project' = worker[w].token /\ Goto(w, "finish")
       \/ project' \in {project, worker[w].token} /\ Goto(w, "failing")
    /\ UNCHANGED <<task, runs, artifacts, versions, call, minted, bounds>>

\* Variant: the version is not activated before the run is closed.
PublishUnactivated(w) ==
    /\ worker[w].at = "publish"
    /\ artifacts' = artifacts \cup {worker[w].token} /\ Goto(w, "finish")
    /\ UNCHANGED <<task, runs, project, versions, lock, call, minted, bounds>>

\* Publication: the files and their rows, then the version's activation; a
\* failure deletes this attempt's files and rows.  No write compares the claim.
Publish(w) ==
    /\ worker[w].at = "publish"
    /\ \/ artifacts' = artifacts \cup {worker[w].token} /\ Goto(w, "activate")
       \/ Goto(w, "failing") /\ UNCHANGED artifacts
    /\ UNCHANGED <<task, runs, project, versions, lock, call, minted, bounds>>

Activate(w) ==
    /\ worker[w].at = "activate"
    /\ \/ /\ versions' = versions \cup {worker[w].token} /\ Goto(w, "finish")
          /\ UNCHANGED artifacts
       \/ /\ artifacts' = artifacts \ {worker[w].token} /\ Goto(w, "failing")
          /\ UNCHANGED versions
    /\ UNCHANGED <<task, runs, project, lock, call, minted, bounds>>

Finish(w) ==
    /\ worker[w].at = "finish"
    /\ \/ /\ Holds(w) /\ OwnRun(w, "phase") # {}
          /\ Renewed /\ runs' = Ended(w, "phase", "succeeded") /\ Goto(w, "move")
       \/ /\ ~(Holds(w) /\ OwnRun(w, "phase") # {})
          /\ Abandon(w, "phase") /\ Goto(w, "release")
    /\ UNCHANGED <<outputs, lock, call, minted, bounds>>

\* Whether a user is asked before the next phase is the task's choice where the
\* state machine allows both.
Move(w) ==
    /\ worker[w].at = "move"
    /\ \/ /\ Holds(w)
          /\ \E to \in Onward[worker[w].status] :
               /\ Saved(to, worker[w].token)
               /\ worker' = [worker EXCEPT ![w].at = IF to \in Chained THEN "begin" ELSE "release",
                                           ![w].status = IF to \in Chained THEN to ELSE @]
       \/ ~Holds(w) /\ Goto(w, "release") /\ UNCHANGED <<task, runs>>
    /\ UNCHANGED <<outputs, lock, call, minted, bounds>>

\* The error path: the phase run is closed as failed, then the task fails if the
\* claim and the status still stand.
Failing(w) ==
    /\ worker[w].at = "failing"
    /\ Abandon(w, "phase") /\ Goto(w, "fail")
    /\ UNCHANGED <<outputs, lock, call, minted, bounds>>

FailTask(w) ==
    /\ worker[w].at = "fail"
    /\ \/ Holds(w) /\ Saved("failed", worker[w].token)
       \/ ~Holds(w) /\ UNCHANGED <<task, runs>>
    /\ Goto(w, "release")
    /\ UNCHANGED <<outputs, lock, call, minted, bounds>>

Release(w) ==
    /\ worker[w].at = "release"
    /\ task' = IF task.token = worker[w].token THEN [task EXCEPT !.token = 0, !.stale = FALSE] ELSE task
    /\ worker' = [worker EXCEPT ![w] = IdleWorker]
    /\ UNCHANGED <<runs, outputs, lock, call, minted, bounds>>

-----------------------------------------------------------------------------
\* The owner's calls: each reads the row, then writes it if it is as it was read.

\* What a call may ask for, given the status it read.
Asked(from) ==
    CASE from = "uploaded" -> {Start, "cancelled"}
      [] from \in Awaiting -> Onward[from] \cup {"cancelled"}
      [] from = "failed"   -> WorkerStatuses \cup {"cancelled"}
      [] from = "completed" -> {}
      [] OTHER -> {"cancelled"}

SendsBack(from, to) == from = "failed" /\ to # "cancelled"

Ask(c) ==
    /\ call[c].at = "idle"
    /\ \E to \in Asked(task.status) :
         /\ SendsBack(task.status, to) => returns < MaxReturns
         /\ returns' = IF SendsBack(task.status, to) THEN returns + 1 ELSE returns
         /\ call' = [call EXCEPT ![c] =
              [at |-> IF SendsBack(task.status, to) /\ to \in Erasing THEN "erase" ELSE "save",
               from |-> task.status, token |-> task.token, to |-> to]]
    /\ UNCHANGED <<task, runs, outputs, lock, worker, minted, faults>>

\* Before image acquisition is retried every published artifact is deleted.
Erase(c) ==
    /\ call[c].at = "erase"
    /\ artifacts' = {}
    /\ call' = [call EXCEPT ![c].at = "save"]
    /\ UNCHANGED <<task, runs, project, versions, lock, worker, minted, bounds>>

\* A confirmed anchor is written twice: the recommendations are derived between.
Save(c) ==
    /\ call[c].at = "save"
    /\ \/ /\ Current(call[c].from, call[c].token) /\ CanTransition(call[c].from, call[c].to)
          /\ Saved(call[c].to, call[c].token)
          /\ IF call[c].to = Deriving
             THEN \E to \in Onward[Deriving] \cup {"failed"} :
                    call' = [call EXCEPT ![c].from = Deriving, ![c].to = to]
             ELSE call' = [call EXCEPT ![c] = IdleCall]
       \/ /\ ~Current(call[c].from, call[c].token)
          /\ call' = [call EXCEPT ![c] = IdleCall]
          /\ UNCHANGED <<task, runs>>
    /\ UNCHANGED <<outputs, lock, worker, minted, bounds>>

-----------------------------------------------------------------------------
\* Faults.

Fault == faults < MaxFaults /\ faults' = faults + 1

Alive(token) == \E w \in Workers : worker[w].token = token

\* A worker dies; the kernel frees its file lock, its claim stays.
Crash(w) ==
    /\ worker[w].at # "idle" /\ Fault
    /\ worker' = [worker EXCEPT ![w] = IdleWorker]
    /\ lock' = IF lock = w THEN Nobody ELSE lock
    /\ UNCHANGED <<task, runs, outputs, call, minted, returns>>

\* A run's outcome meets a database error, and so does everything after it that
\* would have told: the worker returns with the run still running.
Drop(w) ==
    /\ worker[w].at \in {"launch", "failing", "finish"} /\ Fault
    /\ Goto(w, "release")
    /\ UNCHANGED <<task, runs, outputs, lock, call, minted, returns>>

DropCall(c) ==
    /\ call[c].at # "idle" /\ Fault
    /\ call' = [call EXCEPT ![c] = IdleCall]
    /\ UNCHANGED <<task, runs, outputs, lock, worker, minted, returns>>

\* The claim's lease duration has passed, its holder dead or only slow.
Lapse ==
    /\ task.token # 0 /\ ~task.stale
    /\ IF Alive(task.token) THEN Fault ELSE UNCHANGED faults
    /\ task' = [task EXCEPT !.stale = TRUE]
    /\ UNCHANGED <<runs, outputs, lock, worker, call, minted, returns>>

Work(w) ==
    \/ Look(w) \/ Claim(w) \/ Begin(w) \/ Launch(w) \/ Report(w) \/ Apply(w)
    \/ Lock(w) \/ Renew(w) \/ Exchange(w) \/ Publish(w) \/ Activate(w)
    \/ Finish(w) \/ Move(w) \/ Failing(w) \/ FailTask(w) \/ Release(w)

Next ==
    \/ \E w \in Workers : Work(w) \/ Crash(w) \/ Drop(w)
    \/ \E c \in Callers : Ask(c) \/ Erase(c) \/ Save(c) \/ DropCall(c)
    \/ Lapse

Spec == Init /\ [][Next]_vars

\* A worker that lives goes on: its polling loop, the agent's timeout and the
\* database's answers see to it; the time of a claim passes.
FairSpec == Spec /\ (\A w \in Workers : WF_vars(Work(w)))
                 /\ WF_vars(Lapse /\ ~Alive(task.token))

-----------------------------------------------------------------------------
\* Properties.

\* Type correctness; a claim is held by at most one worker, and the promotion
\* lock by the worker that is promoting.
TypeOK ==
    /\ task \in [status : Statuses, token : 0..minted, stale : BOOLEAN]
    /\ runs \subseteq Run
    /\ project \in 0..minted
    /\ artifacts \subseteq 1..minted /\ versions \subseteq 1..minted
    /\ lock \in Workers \cup {Nobody}
    /\ worker \in [Workers -> [at : Places, status : WorkerStatuses, token : 0..minted, good : BOOLEAN]]
    /\ call \in [Callers -> [at : {"idle", "erase", "save"}, from : Statuses,
                             token : 0..minted, to : Statuses]]
    /\ \A v, w \in Workers : worker[v].token = worker[w].token /\ v # w => worker[v].token = 0
    /\ \A w \in Workers : lock = w <=> worker[w].at \in {"renew", "exchange"}

Running(kind) == {r \in runs : r.state = "running" /\ r.kind = kind}

\* At most one phase run and one runtime run are running, and a running run
\* belongs to the task's claim, or is one nobody closed on a task nobody claims
\* (repository: CreatePhaseRun, ClaimTaskExecution's abandonRunningTaskAttempts).
RunningIsOwned ==
    \A kind \in {"phase", "runtime"} :
        /\ Cardinality(Running(kind)) <= 1
        /\ \A r \in Running(kind) : task.token \in {0, r.claim}

\* The rows are well formed and running work has one owner.
ExecutionInvariant == TypeOK /\ RunningIsOwned

\* A completed task has an active version published by a claim whose publish
\* run succeeded (processPublish).
CompletedIsPublished ==
    task.status = "completed" =>
        \E r \in runs : /\ r.at = Publishing /\ r.kind = "phase" /\ r.state = "succeeded"
                        /\ r.claim \in versions

\* The canonical project is never put back to the tree of an earlier claim: a
\* stale worker's promotion fails once a successor promoted
\* (promoteStagedProjectValidatedWithFence).
PromotionsInOrder == [][project' >= project]_vars

\* Cancelled and completed tasks stay so, and the recorded outcome of a run is
\* never rewritten, whoever answers late (SaveTaskIfStatus, SavePhaseRun).
OutcomesStand ==
    [][/\ task.status \in {"cancelled", "completed"} => task'.status = task.status
       /\ \A r \in runs : r.state # "running" => r \in runs']_vars

\* A task queued for the workers is not left there: a dead worker's claim lapses
\* and another takes the task up (ListClaimableTasksByStatuses).
QueuedTaskSettles == task.status \in WorkerStatuses ~> task.status \notin WorkerStatuses

\* An active artifact version keeps its artifacts.
ActiveVersionsAreWhole == versions \subseteq artifacts
=============================================================================
