------------------------ MODULE TaskExecutionProofs ------------------------
(***************************************************************************)
(* What the claim token and the promotion lock guarantee for any number of *)
(* workers, requests, faults and any route: the canonical project never    *)
(* goes back to an earlier claim's tree, outcomes are never rewritten, the *)
(* running work has one owner and a completed task is published.           *)
(***************************************************************************)
EXTENDS TaskExecution, FiniteSetTheorems, TLAPS

\* The row carries the last token handed out, or none.
LastClaim == task \in [status : Statuses, token : {0, minted}, stale : BOOLEAN]

Working(w) == worker[w].at \notin {"idle", "claim"}

\* A working worker's token was handed out, its status is one a worker claims.
Workforce ==
    /\ minted \in Nat
    /\ worker \in [Workers -> [at : Places, status : WorkerStatuses, token : 0..minted, good : BOOLEAN]]
    /\ \A w \in Workers : Working(w) => worker[w].token > 0

Locking == \A w \in Workers : worker[w].at \in {"renew", "exchange"} => lock = w

\* Whoever may exchange the project does not put back an earlier claim's tree:
\* it held the newest claim when it compared it, and it has the lock since.
Promoting ==
    /\ project \in 0..minted
    /\ \A w \in Workers : worker[w].at = "exchange" => project <= worker[w].token

IInv == LastClaim /\ Workforce /\ Locking /\ Promoting

Record == [at : Places, status : WorkerStatuses, token : 0..minted, good : BOOLEAN]

LEMMA InitHolds == Init => IInv
  BY TaskExecutionAssumption, SMTT(30)
  DEF Init, IInv, LastClaim, Workforce, Working, Locking, Promoting, IdleWorker, Statuses,
      Open, Places

\* A worker that goes to a place where it promotes nothing.
LEMMA Moving ==
    ASSUME IInv, NEW w \in Workers, LastClaim', UNCHANGED <<minted, project>>,
           NEW r \in Record, worker' = [worker EXCEPT ![w] = r],
           r.at \notin {"renew", "exchange"},
           r.at \in {"idle", "claim"} \/ r.token > 0,
           lock' = lock \/ (lock = w /\ lock' = Nobody)
    PROVE  IInv'
  <1>1. Workforce'
    BY DEF IInv, Workforce, Working, Record
  <1>2. Locking'
    BY DEF IInv, Workforce, Locking, Record
  <1>3. Promoting'
    BY DEF IInv, Workforce, Promoting, Record
  <1> QED BY <1>1, <1>2, <1>3 DEF IInv

\* The same of a worker that keeps its copy of the row.
LEMMA Going ==
    ASSUME IInv, NEW w \in Workers, LastClaim', UNCHANGED <<minted, project>>, Working(w),
           NEW place \in Places \ {"renew", "exchange"}, Goto(w, place),
           lock' = lock \/ (lock = w /\ lock' = Nobody)
    PROVE  IInv'
  <1> DEFINE r == [worker[w] EXCEPT !.at = place]
  <1>1. r \in Record /\ r.at = place /\ r.token > 0
    BY DEF IInv, Workforce, Working, Record
  <1>2. worker' = [worker EXCEPT ![w] = r]
    BY DEF Goto
  <1> HIDE DEF r
  <1> QED BY <1>1, <1>2, Moving

\* A step that leaves the workers, the tokens and the project as they are.
LEMMA Standing ==
    ASSUME IInv, LastClaim', UNCHANGED <<minted, project, worker, lock>>
    PROVE  IInv'
  BY DEF IInv, Workforce, Working, Locking, Promoting

\* The writes of the row keep the token it carries.
LEMMA Writing ==
    ASSUME LastClaim, minted' = minted,
           \/ UNCHANGED task
           \/ Renewed
           \/ \E token : \E status \in Statuses : Saved(status, token)
    PROVE  LastClaim' /\ task'.token = task.token
  BY DEF LastClaim, Renewed, Saved

LEMMA Holding ==
    ASSUME IInv, NEW w \in Workers, Working(w), Holds(w)
    PROVE  worker[w].token = minted /\ task.token = minted
  BY DEF IInv, LastClaim, Workforce, Holds, Current

\* The steps of a worker, each with its place and what it writes.
LEMMA WorkKeeps ==
    ASSUME IInv, NEW w \in Workers, Work(w)
    PROVE  IInv'
  <1> USE TaskExecutionAssumption
  <1>0. worker[w] \in Record
    BY DEF IInv, Workforce, Record
  <1>1. CASE Look(w)
    <2> DEFINE r == [IdleWorker EXCEPT !.at = "claim", !.status = task.status]
    <2>1. task.status \in WorkerStatuses /\ IdleWorker \in Record
      BY <1>1 DEF Look, IdleWorker, Record, Places, IInv, Workforce
    <2>2. r \in Record /\ r.at = "claim"
      BY <2>1 DEF Record, Places
    <2>3. worker' = [worker EXCEPT ![w] = r] /\ UNCHANGED <<task, minted, project, lock>>
      BY <1>1 DEF Look, outputs
    <2> HIDE DEF r
    <2> QED BY <2>2, <2>3, Moving DEF IInv, LastClaim
  <1>2. CASE Claim(w)
    <2>1. CASE task.status = worker[w].status /\ Claimable
      <3>1. /\ minted' = minted + 1
            /\ task' = [task EXCEPT !.token = minted + 1, !.stale = FALSE]
            /\ worker' = [worker EXCEPT ![w].at = "begin", ![w].token = minted + 1]
            /\ UNCHANGED <<project, lock>>
        BY <1>2, <2>1 DEF Claim, outputs
      <3>2. LastClaim' /\ Workforce'
        BY <3>1 DEF IInv, LastClaim, Workforce, Working, Places
      <3>3. Locking' /\ Promoting'
        BY <3>1 DEF IInv, Workforce, Locking, Promoting
      <3> QED BY <3>2, <3>3 DEF IInv
    <2>2. CASE ~(task.status = worker[w].status /\ Claimable)
      <3>1. IdleWorker \in Record /\ IdleWorker.at = "idle"
        BY DEF IdleWorker, Record, Places, IInv, Workforce
      <3>2. worker' = [worker EXCEPT ![w] = IdleWorker] /\ UNCHANGED <<task, minted, project, lock>>
        BY <1>2, <2>2 DEF Claim, outputs
      <3> QED BY <3>1, <3>2, Moving DEF IInv, LastClaim
    <2> QED BY <2>1, <2>2
  <1>3. CASE Begin(w)
    <2> DEFINE place == IF ~Holds(w) THEN "fail"
                        ELSE IF worker[w].status = Publishing THEN "publish" ELSE "launch"
    <2>1. /\ Goto(w, place) /\ Working(w) /\ place \in Places \ {"renew", "exchange"}
          /\ UNCHANGED task \/ Renewed
          /\ UNCHANGED <<minted, project, lock>>
      BY <1>3 DEF Begin, Working, Places, outputs
    <2> HIDE DEF place
    <2> QED BY <2>1, Writing, Going DEF IInv
  <1>4. CASE Launch(w)
    <2>1. \E place \in Places \ {"renew", "exchange"} :
          /\ Goto(w, place) /\ Working(w)
          /\ UNCHANGED task \/ Renewed
          /\ UNCHANGED <<minted, project, lock>>
      BY <1>4 DEF Launch, Working, Places, outputs
    <2> QED BY <2>1, Writing, Going DEF IInv
  <1>5. CASE Report(w)
    <2>1. PICK good \in BOOLEAN :
             worker' = [worker EXCEPT ![w].at = "apply",
                                      ![w].good = good /\ Holds(w) /\ OwnRun(w, "runtime") # {}]
      BY <1>5 DEF Report
    <2> DEFINE r == [worker[w] EXCEPT !.at = "apply",
                                      !.good = good /\ Holds(w) /\ OwnRun(w, "runtime") # {}]
    <2>2. r \in Record /\ r.at = "apply" /\ r.token > 0
      BY <1>0, <1>5 DEF Report, IInv, Workforce, Working, Record, Places
    <2>3. worker' = [worker EXCEPT ![w] = r] /\ UNCHANGED <<minted, project, lock>>
      BY <2>1, <1>5, <1>0 DEF Report, outputs, Record, IInv, Workforce
    <2>4. UNCHANGED task \/ Renewed
      BY <1>5 DEF Report, Abandon
    <2> HIDE DEF r
    <2> QED BY <2>2, <2>3, <2>4, Writing, Moving DEF IInv
  <1>6. CASE Apply(w)
    <2>1. \E place \in Places \ {"renew", "exchange"} :
          /\ Goto(w, place) /\ Working(w)
          /\ UNCHANGED task \/ Renewed
          /\ UNCHANGED <<minted, project, lock>>
      BY <1>6 DEF Apply, Working, Places, outputs
    <2> QED BY <2>1, Writing, Going DEF IInv
  <1>7. CASE Lock(w)
    <2>1. /\ worker' = [worker EXCEPT ![w].at = "renew"] /\ worker[w].at = "lock"
          /\ lock = Nobody /\ lock' = w /\ UNCHANGED <<task, minted, project>>
      BY <1>7 DEF Lock, Goto, outputs
    <2>2. LastClaim' /\ Workforce' /\ Promoting'
      BY <2>1 DEF IInv, LastClaim, Workforce, Working, Promoting, Places
    <2>3. Locking'
      BY <2>1 DEF IInv, Locking, Workforce
    <2> QED BY <2>2, <2>3 DEF IInv
  <1>8. CASE Renew(w)
    <2>0. Working(w) /\ lock = w
      BY <1>8 DEF Renew, Working, IInv, Locking
    <2>1. CASE Holds(w)
      <3>1. /\ worker' = [worker EXCEPT ![w].at = "exchange"]
            /\ Renewed /\ UNCHANGED <<minted, project, lock>>
        BY <1>8, <2>1 DEF Renew, Goto, outputs
      <3>2. LastClaim' /\ Workforce'
        BY <3>1, <2>0, Writing DEF IInv, Workforce, Working, Places
      <3>3. Locking'
        BY <3>1, <2>0 DEF IInv, Locking, Workforce
      <3>4. Promoting'
        BY <3>1, <2>0, <2>1, Holding DEF IInv, Promoting, Workforce
      <3> QED BY <3>2, <3>3, <3>4 DEF IInv
    <2>2. CASE ~Holds(w)
      <3>1. /\ Goto(w, "failing") /\ lock' = Nobody /\ "failing" \in Places \ {"renew", "exchange"}
            /\ UNCHANGED <<task, minted, project>>
        BY <1>8, <2>2 DEF Renew, outputs, Places
      <3> QED BY <3>1, <2>0, Going DEF IInv, LastClaim
    <2> QED BY <2>1, <2>2
  <1>9. CASE Exchange(w)
    <2>1. /\ worker[w].at = "exchange" /\ lock = w /\ Working(w) /\ lock' = Nobody
          /\ project' \in {project, worker[w].token} /\ UNCHANGED <<task, minted>>
          /\ \E place \in {"finish", "failing"} : Goto(w, place)
      BY <1>9 DEF Exchange, IInv, Locking, Working
    <2>2. LastClaim' /\ Workforce'
      BY <2>1 DEF IInv, LastClaim, Workforce, Working, Goto, Places
    <2>3. Locking'
      BY <2>1 DEF IInv, Locking, Workforce, Goto
    <2>4. \A v \in Workers : worker'[v].at # "exchange"
      BY <2>1 DEF IInv, Locking, Workforce, Goto
    <2>5. Promoting'
      BY <2>1, <2>4 DEF IInv, Promoting, Workforce
    <2> QED BY <2>2, <2>3, <2>5 DEF IInv
  <1>10. CASE Publish(w) \/ Activate(w)
    <2>1. \E place \in Places \ {"renew", "exchange"} :
          /\ Goto(w, place) /\ Working(w) /\ UNCHANGED <<task, minted, project, lock>>
      BY <1>10 DEF Publish, Activate, Working, Places
    <2> QED BY <2>1, Going DEF IInv, LastClaim
  <1>11. CASE Finish(w) \/ Failing(w)
    <2>1. \E place \in Places \ {"renew", "exchange"} :
          /\ Goto(w, place) /\ Working(w)
          /\ UNCHANGED task \/ Renewed
          /\ UNCHANGED <<minted, project, lock>>
      BY <1>11 DEF Finish, Failing, Abandon, Working, Places, outputs
    <2> QED BY <2>1, Writing, Going DEF IInv
  <1>12. CASE Move(w)
    <2>1. CASE Holds(w)
      <3>1. PICK to \in Onward[worker[w].status] :
               /\ Saved(to, worker[w].token)
               /\ worker' = [worker EXCEPT ![w].at = IF to \in Chained THEN "begin" ELSE "release",
                                           ![w].status = IF to \in Chained THEN to ELSE @]
        BY <1>12, <2>1 DEF Move
      <3> DEFINE r == [worker[w] EXCEPT !.at = IF to \in Chained THEN "begin" ELSE "release",
                                        !.status = IF to \in Chained THEN to ELSE @]
      <3>2. r \in Record /\ r.at \in {"begin", "release"} /\ r.token > 0
        BY <1>0, <1>12 DEF Move, IInv, Workforce, Working, Record, Places
      <3>3. worker' = [worker EXCEPT ![w] = r] /\ UNCHANGED <<minted, project, lock>>
        BY <3>1, <1>12, <1>0 DEF Move, outputs, Record, IInv, Workforce
      <3>4. to \in Statuses
        BY <1>0 DEF Record, Statuses
      <3>5. LastClaim'
        BY <3>1, <3>3, <3>4, Writing DEF IInv
      <3> HIDE DEF r
      <3> QED BY <3>2, <3>3, <3>5, Moving
    <2>2. CASE ~Holds(w)
      <3>1. /\ Goto(w, "release") /\ Working(w) /\ "release" \in Places \ {"renew", "exchange"}
            /\ UNCHANGED <<task, minted, project, lock>>
        BY <1>12, <2>2 DEF Move, outputs, Working, Places
      <3> QED BY <3>1, Going DEF IInv, LastClaim
    <2> QED BY <2>1, <2>2
  <1>13. CASE FailTask(w)
    <2>1. /\ Goto(w, "release") /\ Working(w) /\ "release" \in Places \ {"renew", "exchange"}
          /\ UNCHANGED task \/ Saved("failed", worker[w].token)
          /\ UNCHANGED <<minted, project, lock>>
      BY <1>13 DEF FailTask, Working, Places, outputs
    <2>2. "failed" \in Statuses
      BY DEF Statuses
    <2> QED BY <2>1, <2>2, Writing, Going DEF IInv
  <1>14. CASE Release(w)
    <2>1. IdleWorker \in Record /\ IdleWorker.at = "idle"
      BY DEF IdleWorker, Record, Places, IInv, Workforce
    <2>2. worker' = [worker EXCEPT ![w] = IdleWorker] /\ UNCHANGED <<minted, project, lock>>
      BY <1>14 DEF Release, outputs
    <2>3. LastClaim'
      BY <1>14 DEF Release, IInv, LastClaim
    <2> QED BY <2>1, <2>2, <2>3, Moving
  <1> QED BY <1>1, <1>2, <1>3, <1>4, <1>5, <1>6, <1>7, <1>8, <1>9, <1>10, <1>11, <1>12,
             <1>13, <1>14 DEF Work

\* The calls write statuses of the state machine.
CallInv == call \in [Callers -> [at : {"idle", "erase", "save"}, from : Statuses,
                                 token : Nat, to : Statuses]]

LEMMA AskedIsStatus ==
    ASSUME NEW from \in Statuses PROVE Asked(from) \subseteq Statuses
  BY TaskExecutionAssumption DEF Asked, Statuses, Open, Awaiting

LEMMA CallWrites ==
    ASSUME NEW S, NEW r \in [at : {"idle", "erase", "save"}, from : S, token : Nat, to : S],
           NEW from \in S, NEW to \in S
    PROVE [r EXCEPT !.from = from, !.to = to]
            \in [at : {"idle", "erase", "save"}, from : S, token : Nat, to : S]
  OBVIOUS

LEMMA CallsStay ==
    ASSUME IInv, CallInv, [Next]_vars
    PROVE  CallInv'
  <1> USE TaskExecutionAssumption
  <1>1. CASE \E c \in Callers : Ask(c)
    <2>1. PICK c \in Callers : Ask(c)
      BY <1>1
    <2>2. PICK to \in Asked(task.status) :
            call' = [call EXCEPT ![c] =
              [at |-> IF SendsBack(task.status, to) /\ to \in Erasing THEN "erase" ELSE "save",
               from |-> task.status, token |-> task.token, to |-> to]]
      BY <2>1 DEF Ask
    <2>3. task.status \in Statuses /\ task.token \in Nat
      BY DEF IInv, LastClaim, Workforce
    <2>4. to \in Statuses
      BY <2>3, AskedIsStatus
    <2> QED BY <2>2, <2>3, <2>4 DEF CallInv
  <1>2. CASE \E c \in Callers : Save(c)
    <2>1. PICK c \in Callers : Save(c)
      BY <1>2
    <2>2. IdleCall \in [at : {"idle", "erase", "save"}, from : Statuses, token : Nat, to : Statuses]
      BY DEF IdleCall, Statuses, Open
    <2>3. CASE call' = [call EXCEPT ![c] = IdleCall]
      BY <2>2, <2>3 DEF CallInv
    <2>4. CASE /\ call[c].to = Deriving
               /\ \E to \in Onward[Deriving] \cup {"failed"} :
                     call' = [call EXCEPT ![c].from = Deriving, ![c].to = to]
      <3>1. Deriving \in Statuses
        BY <2>4 DEF CallInv
      <3>2. Deriving \in Open
        BY <3>1 DEF Deriving, Statuses
      <3>3. Onward[Deriving] \cup {"failed"} \subseteq Statuses
        BY <3>2 DEF Statuses
      <3>4. PICK to \in Statuses : call' = [call EXCEPT ![c].from = Deriving, ![c].to = to]
        BY <2>4, <3>3
      <3>5. [call[c] EXCEPT !.from = Deriving, !.to = to]
               \in [at : {"idle", "erase", "save"}, from : Statuses, token : Nat, to : Statuses]
        BY <3>1, CallWrites DEF CallInv
      <3>6. call' = [call EXCEPT ![c] = [call[c] EXCEPT !.from = Deriving, !.to = to]]
        BY <3>4
      <3> QED BY <3>5, <3>6 DEF CallInv
    <2> QED BY <2>1, <2>3, <2>4 DEF Save
  <1>3. CASE \E c \in Callers : Erase(c) \/ DropCall(c)
    <2>1. IdleCall \in [at : {"idle", "erase", "save"}, from : Statuses, token : Nat, to : Statuses]
      BY DEF IdleCall, Statuses, Open
    <2> QED BY <1>3, <2>1 DEF Erase, DropCall, CallInv
  <1>4. CASE UNCHANGED call
    BY <1>4 DEF CallInv
  <1> QED
    BY <1>1, <1>2, <1>3, <1>4
    DEF Next, vars, Work, Look, Claim, Begin, Launch, Report, Apply, Lock, Renew, Exchange,
        Publish, Activate, Finish, Move, Failing, FailTask, Release, Crash, Drop, Lapse

LEMMA NextHolds ==
    ASSUME IInv, CallInv, [Next]_vars
    PROVE  IInv'
  <1>1. CASE \E w \in Workers : Work(w)
    BY <1>1, WorkKeeps
  <1>2. CASE \E w \in Workers : Crash(w)
    <2>1. PICK w \in Workers : Crash(w)
      BY <1>2
    <2>2. IdleWorker \in Record /\ IdleWorker.at = "idle"
      BY TaskExecutionAssumption DEF IdleWorker, Record, Places, IInv, Workforce
    <2>3. /\ worker' = [worker EXCEPT ![w] = IdleWorker] /\ UNCHANGED <<task, minted, project>>
          /\ lock' = lock \/ (lock = w /\ lock' = Nobody)
      BY <2>1 DEF Crash, outputs
    <2> QED BY <2>2, <2>3, Moving DEF IInv, LastClaim
  <1>3. CASE \E w \in Workers : Drop(w)
    <2>1. PICK w \in Workers : Drop(w)
      BY <1>3
    <2>2. /\ Goto(w, "release") /\ Working(w) /\ "release" \in Places \ {"renew", "exchange"}
          /\ UNCHANGED <<task, minted, project, lock>>
      BY <2>1 DEF Drop, outputs, Working, Places
    <2> QED BY <2>2, Going DEF IInv, LastClaim
  <1>4. CASE \E c \in Callers : Save(c)
    <2>1. PICK c \in Callers : Save(c)
      BY <1>4
    <2>2. /\ UNCHANGED task \/ Saved(call[c].to, call[c].token)
          /\ UNCHANGED <<minted, project, worker, lock>> /\ call[c].to \in Statuses
      BY <2>1 DEF Save, outputs, CallInv
    <2> QED BY <2>2, Writing, Standing DEF IInv
  <1>5. CASE Lapse
    <2>1. LastClaim'
      BY <1>5 DEF Lapse, IInv, LastClaim
    <2> QED BY <1>5, <2>1, Standing DEF Lapse, outputs
  <1>6. CASE UNCHANGED <<task, minted, project, worker, lock>>
    BY <1>6, Standing DEF IInv, LastClaim
  <1>7. CASE \E c \in Callers : Ask(c) \/ Erase(c) \/ DropCall(c)
    BY <1>6, <1>7 DEF Ask, Erase, DropCall, outputs
  <1> QED BY <1>1, <1>2, <1>3, <1>4, <1>5, <1>6, <1>7 DEF Next, vars, outputs

LEMMA Invariance == Spec => [](IInv /\ CallInv)
  <1>1. Init => CallInv
    BY TaskExecutionAssumption DEF Init, CallInv, IdleCall, Statuses, Open
  <1> QED BY <1>1, InitHolds, NextHolds, CallsStay, PTL DEF Spec

\* The project is only ever exchanged for the tree of the newest claim that had
\* one: for every number of workers, whenever claims lapse and are taken over,
\* promoteStagedProjectValidatedWithFence never restores an older tree.
THEOREM ProjectNeverGoesBack == Spec => PromotionsInOrder
  <1>1. ASSUME IInv, CallInv, [Next]_vars
        PROVE  project' >= project
    <2>1. CASE \E w \in Workers : Exchange(w)
      <3>1. PICK w \in Workers : Exchange(w)
        BY <2>1
      <3>2. worker[w].at = "exchange" /\ project' \in {project, worker[w].token}
        BY <3>1 DEF Exchange
      <3>3. project \in Nat /\ worker[w].token \in Nat /\ project <= worker[w].token
        BY <1>1, <3>2 DEF IInv, Promoting, Workforce
      <3> QED BY <3>2, <3>3
    <2>2. CASE UNCHANGED project
      BY <1>1, <2>2 DEF IInv, Promoting, Workforce
    <2> QED
      BY <1>1, <2>1, <2>2
      DEF Next, vars, outputs, Work, Look, Claim, Begin, Launch, Report, Apply, Lock, Renew,
          Publish, Activate, Finish, Move, Failing, FailTask, Release, Crash, Drop, Lapse,
          Ask, Erase, Save, DropCall
  <1>2. [](IInv /\ CallInv) /\ [][Next]_vars => [][project' >= project]_vars
    BY <1>1, PTL
  <1> QED BY <1>2, Invariance, PTL DEF Spec, PromotionsInOrder

\* What a step may not do to the row and the runs.
RowStands == task.status \in {"cancelled", "completed"} => task'.status = task.status
RunsStand == \A r \in runs : r.state # "running" => r \in runs'

LEMMA AbandonedKeeps ==
    ASSUME NEW r \in runs, r.state # "running" PROVE r \in Abandoned
  BY DEF Abandoned

LEMMA EndedKeeps ==
    ASSUME NEW w, NEW kind, NEW state, NEW r \in runs, r.state # "running"
    PROVE  r \in Ended(w, kind, state)
  BY DEF Ended, OwnRun

LEMMA SavingStands ==
    ASSUME NEW status, NEW token, Saved(status, token)
    PROVE  RunsStand
  BY AbandonedKeeps DEF Saved, RunsStand

LEMMA RenewingStands ==
    ASSUME LastClaim, UNCHANGED task \/ Renewed PROVE RowStands
  BY DEF LastClaim, Renewed, RowStands

LEMMA AbandoningStands ==
    ASSUME LastClaim, NEW w, NEW kind, Abandon(w, kind) PROVE RowStands /\ RunsStand
  BY RenewingStands, EndedKeeps DEF Abandon, RunsStand

\* A worker that holds its claim holds it in a worker status.
LEMMA HeldStatus ==
    ASSUME IInv, NEW w \in Workers, Holds(w)
    PROVE  task.status \notin {"cancelled", "completed"}
  BY TaskExecutionAssumption DEF IInv, Workforce, Holds, Current, Open

LEMMA WorkStands ==
    ASSUME IInv, NEW w \in Workers, Work(w)
    PROVE  RowStands /\ RunsStand
  <1>1. CASE Look(w) \/ Apply(w) \/ Lock(w) \/ Renew(w) \/ Exchange(w) \/ Publish(w) \/ Activate(w)
    <2>1. UNCHANGED runs /\ (UNCHANGED task \/ Renewed)
      BY <1>1 DEF Look, Apply, Lock, Renew, Exchange, Publish, Activate
    <2> QED BY <2>1, RenewingStands DEF IInv, RunsStand
  <1>2. CASE Claim(w)
    <2>1. RowStands
      BY <1>2 DEF Claim, RowStands, IInv, LastClaim
    <2>2. runs' = Abandoned \/ UNCHANGED runs
      BY <1>2 DEF Claim
    <2> QED BY <2>1, <2>2, AbandonedKeeps DEF RunsStand
  <1>3. CASE Begin(w) \/ Launch(w)
    <2>1. /\ UNCHANGED task \/ Renewed
          /\ \/ UNCHANGED runs
             \/ \E kind \in {"phase", "runtime"} : runs' = Opened(w, kind)
      BY <1>3 DEF Begin, Launch
    <2>2. RunsStand
      BY <2>1 DEF Opened, RunsStand
    <2> QED BY <2>1, <2>2, RenewingStands DEF IInv
  <1>4. CASE Report(w)
    <2>1. \/ Renewed /\ \E state \in {"succeeded", "failed"} : runs' = Ended(w, "runtime", state)
          \/ Abandon(w, "runtime")
      BY <1>4 DEF Report
    <2> QED BY <2>1, RenewingStands, AbandoningStands, EndedKeeps DEF IInv, RunsStand
  <1>5. CASE Finish(w)
    <2>1. \/ Renewed /\ runs' = Ended(w, "phase", "succeeded")
          \/ Abandon(w, "phase")
      BY <1>5 DEF Finish
    <2> QED BY <2>1, RenewingStands, AbandoningStands, EndedKeeps DEF IInv, RunsStand
  <1>6. CASE Failing(w)
    BY <1>6, AbandoningStands DEF Failing, IInv
  <1>7. CASE Move(w) \/ FailTask(w)
    <2>1. CASE Holds(w)
      <3>1. RowStands
        BY <2>1, HeldStatus DEF RowStands
      <3>2. \E status, token : Saved(status, token)
        BY <1>7, <2>1 DEF Move, FailTask
      <3> QED BY <3>1, <3>2, SavingStands
    <2>2. CASE ~Holds(w)
      BY <1>7, <2>2 DEF Move, FailTask, RowStands, RunsStand
    <2> QED BY <2>1, <2>2
  <1>8. CASE Release(w)
    BY <1>8 DEF Release, RowStands, RunsStand, IInv, LastClaim
  <1> QED BY <1>1, <1>2, <1>3, <1>4, <1>5, <1>6, <1>7, <1>8 DEF Work

LEMMA SaveStands ==
    ASSUME IInv, CallInv, NEW c \in Callers, Save(c)
    PROVE  RowStands /\ RunsStand
  <1>1. CASE Current(call[c].from, call[c].token) /\ CanTransition(call[c].from, call[c].to)
             /\ Saved(call[c].to, call[c].token)
    <2>1. task.status \in {"cancelled", "completed"} => call[c].to = task.status
      BY <1>1, TaskExecutionAssumption DEF Current, CanTransition, Open
    <2>2. task'.status = call[c].to
      BY <1>1 DEF Saved, IInv, LastClaim
    <2> QED BY <1>1, <2>1, <2>2, SavingStands DEF RowStands
  <1>2. CASE UNCHANGED <<task, runs>>
    BY <1>2 DEF RowStands, RunsStand
  <1> QED BY <1>1, <1>2 DEF Save

\* A cancelled or completed task stays so and no run's outcome is rewritten: the
\* status and token comparison of SaveTaskIfStatus and SavePhaseRun suffices, for
\* every route, number of workers and requests, crash, lapse and takeover.
THEOREM OutcomesAlwaysStand == Spec => OutcomesStand
  <1>1. ASSUME IInv, CallInv, [Next]_vars
        PROVE  RowStands /\ RunsStand
    <2>1. CASE \E w \in Workers : Work(w)
      BY <1>1, <2>1, WorkStands
    <2>2. CASE \E c \in Callers : Save(c)
      BY <1>1, <2>2, SaveStands
    <2>3. CASE Lapse
      BY <1>1, <2>3 DEF Lapse, RowStands, RunsStand, IInv, LastClaim
    <2>4. CASE UNCHANGED <<task, runs>>
      BY <2>4 DEF RowStands, RunsStand
    <2> QED
      BY <1>1, <2>1, <2>2, <2>3, <2>4 DEF Next, vars, Crash, Drop, Ask, Erase, DropCall
  <1>2. [](IInv /\ CallInv) /\ [][Next]_vars => [][RowStands /\ RunsStand]_vars
    BY <1>1, PTL
  <1> QED BY <1>2, Invariance, PTL DEF Spec, OutcomesStand, RowStands, RunsStand

-----------------------------------------------------------------------------
\* Who may hold what: tokens are not shared, the lock is free unless its holder
\* promotes, and what is stored was stored under a claim.
TokensUnique ==
    \A v, w \in Workers : worker[v].token = worker[w].token /\ v # w => worker[v].token = 0

LockKept ==
    /\ lock \in Workers \cup {Nobody}
    /\ \A w \in Workers : lock = w => worker[w].at \in {"renew", "exchange"}

Stored ==
    /\ artifacts \subseteq 1..minted /\ versions \subseteq 1..minted
    /\ \A c \in Callers : call[c].token \in 0..minted

Live == {r \in runs : r.state = "running"}

\* A running run is the only one of its kind and was opened under the claim the
\* row carries, in the status its worker still works in.
Owned ==
    /\ runs \subseteq Run
    /\ \A r, s \in Live : r.kind = s.kind => r = s
    /\ \A r \in Live : task.token \in {0, r.claim}
    /\ \A w \in Workers : \A r \in Live :
          Working(w) /\ r.claim = worker[w].token => r.at = worker[w].status

\* A worker whose claim stands finds nothing running of the kind it opens next:
\* its agent's run was closed before it went on, its phase's before it moved.
BeforePhase == {"begin", "move"}
BeforeRuntime == Places \ {"idle", "claim", "agent", "failing", "fail", "release"}

Clear ==
    \A w \in Workers : \A r \in Live :
        worker[w].token = task.token =>
            /\ worker[w].at \in BeforePhase => r.kind # "phase"
            /\ worker[w].at \in BeforeRuntime => r.kind # "runtime"

\* The publishing phase runs no agent, and its run is closed after activation.
PublishedRun(token, vs, rs) ==
    /\ token \in vs
    /\ \E r \in rs : /\ r.at = Publishing /\ r.kind = "phase" /\ r.state = "succeeded"
                    /\ r.claim = token

PublishOrder ==
    /\ \A w \in Workers : worker[w].status = Publishing =>
          /\ worker[w].at \notin {"launch", "agent", "apply", "lock", "renew", "exchange"}
          /\ worker[w].at = "finish" => worker[w].token \in versions
          /\ worker[w].at = "move" => PublishedRun(worker[w].token, versions, runs)
    /\ \A c \in Callers : call[c].to # "completed"
    /\ task.status = "completed" => \E token \in versions : PublishedRun(token, versions, runs)

EInv == TokensUnique /\ LockKept /\ Stored /\ Owned /\ Clear /\ PublishOrder

LEMMA EInitHolds == Init => EInv
  <1> SUFFICES ASSUME Init PROVE EInv
    OBVIOUS
  <1> USE TaskExecutionAssumption
  <1>1. TokensUnique /\ LockKept /\ Stored
    BY DEF Init, TokensUnique, LockKept, Stored, IdleWorker, IdleCall
  <1>2. Owned /\ Clear
    BY DEF Init, Owned, Clear, Live
  <1>3. PublishOrder
    BY DEF Init, PublishOrder, IdleWorker, IdleCall, Open
  <1> QED BY <1>1, <1>2, <1>3 DEF EInv

\* A step hands out a token to one worker, or no worker's token is new.
LEMMA TokenStep ==
    ASSUME IInv, [Next]_vars
    PROVE  \/ /\ minted' = minted
              /\ \A v \in Workers : worker'[v].token \in {0, worker[v].token}
           \/ /\ minted' = minted + 1
              /\ \E w \in Workers : /\ worker'[w].token = minted'
                                    /\ \A v \in Workers \ {w} : worker'[v] = worker[v]
  <1>0. worker \in [Workers -> Record]
    BY DEF IInv, Workforce, Record
  <1>1. CASE \E w \in Workers : Look(w) \/ Release(w) \/ Crash(w)
    <2>1. PICK w \in Workers : Look(w) \/ Release(w) \/ Crash(w)
      BY <1>1
    <2>2. \E r : r.token = 0 /\ worker' = [worker EXCEPT ![w] = r]
      BY <2>1 DEF Look, Release, Crash, IdleWorker
    <2>3. UNCHANGED minted
      BY <2>1 DEF Look, Release, Crash
    <2> QED BY <1>0, <2>2, <2>3
  <1>2. CASE \E w \in Workers : Claim(w)
    <2>1. PICK w \in Workers : Claim(w)
      BY <1>2
    <2> QED BY <1>0, <2>1 DEF Claim, IdleWorker, Record
  <1>3. CASE \E w \in Workers : \/ Begin(w) \/ Launch(w) \/ Apply(w) \/ Lock(w) \/ Renew(w)
                                \/ Exchange(w) \/ Publish(w) \/ Activate(w) \/ Finish(w)
                                \/ Failing(w) \/ FailTask(w) \/ Drop(w)
    <2>1. \E w \in Workers : \E place \in Places : Goto(w, place)
      BY <1>3 DEF Begin, Launch, Apply, Lock, Renew, Exchange, Publish, Activate, Finish,
                  Failing, FailTask, Drop, Places
    <2>2. UNCHANGED minted
      BY <1>3 DEF Begin, Launch, Apply, Lock, Renew, Exchange, Publish, Activate, Finish,
                  Failing, FailTask, Drop
    <2> QED BY <1>0, <2>1, <2>2 DEF Goto, Record
  <1>4. CASE \E w \in Workers : Report(w) \/ Move(w)
    <2>1. PICK w \in Workers : Report(w) \/ Move(w)
      BY <1>4
    <2>2. UNCHANGED minted
      BY <2>1 DEF Report, Move
    <2>3. CASE Report(w)
      <3>1. PICK good \in BOOLEAN : worker' = [worker EXCEPT ![w].at = "apply", ![w].good = good]
        BY <2>3 DEF Report
      <3> QED BY <1>0, <2>2, <3>1 DEF Record
    <2>4. CASE Move(w)
      <3>1. \/ Goto(w, "release")
            \/ \E place, status : worker' = [worker EXCEPT ![w].at = place, ![w].status = status]
        BY <2>4 DEF Move
      <3>2. \E r : worker' = [worker EXCEPT ![w] = r] /\ r.token = worker[w].token
        <4>1. CASE Goto(w, "release")
          <5> WITNESS [worker[w] EXCEPT !.at = "release"]
          <5> QED BY <1>0, <4>1 DEF Goto, Record
        <4>2. ASSUME NEW place, NEW status,
                     worker' = [worker EXCEPT ![w].at = place, ![w].status = status]
              PROVE  \E r : worker' = [worker EXCEPT ![w] = r] /\ r.token = worker[w].token
          <5> WITNESS [worker[w] EXCEPT !.at = place, !.status = status]
          <5> QED BY <1>0, <4>2 DEF Record
        <4> QED BY <3>1, <4>1, <4>2
      <3> QED BY <1>0, <2>2, <3>2
    <2> QED BY <2>1, <2>3, <2>4
  <1>5. CASE UNCHANGED <<worker, minted>>
    BY <1>5
  <1> QED BY <1>1, <1>2, <1>3, <1>4, <1>5
          DEF Next, vars, Work, Ask, Erase, Save, DropCall, Lapse

LEMMA TokensStayUnique ==
    ASSUME IInv, TokensUnique, [Next]_vars
    PROVE  TokensUnique'
  <1>0. worker \in [Workers -> Record] /\ minted \in Nat
    BY DEF IInv, Workforce, Record
  <1>1. CASE \A v \in Workers : worker'[v].token \in {0, worker[v].token}
    BY <1>1 DEF TokensUnique
  <1>2. CASE /\ minted' = minted + 1
             /\ \E w \in Workers : /\ worker'[w].token = minted'
                                   /\ \A v \in Workers \ {w} : worker'[v] = worker[v]
    BY <1>0, <1>2 DEF TokensUnique, Record
  <1> QED BY <1>1, <1>2, TokenStep

LEMMA LockStays ==
    ASSUME IInv, LockKept, [Next]_vars
    PROVE  LockKept'
  <1> USE TaskExecutionAssumption
  <1>0. worker \in [Workers -> Record]
    BY DEF IInv, Workforce, Record
  <1>1. ASSUME NEW w \in Workers, lock' = lock, worker[w].at \notin {"renew", "exchange"},
               \A v \in Workers \ {w} : worker'[v] = worker[v]
        PROVE  LockKept'
    BY <1>1 DEF LockKept
  <1>2. CASE \E w \in Workers : Look(w) \/ Claim(w) \/ Release(w)
    <2>1. PICK w \in Workers : Look(w) \/ Claim(w) \/ Release(w)
      BY <1>2
    <2> QED BY <1>0, <1>1, <2>1 DEF Look, Claim, Release
  <1>3. CASE \E w \in Workers : \/ Begin(w) \/ Launch(w) \/ Apply(w) \/ Publish(w) \/ Activate(w)
                                \/ Finish(w) \/ Failing(w) \/ FailTask(w) \/ Drop(w)
    <2>1. PICK w \in Workers : /\ lock' = lock /\ worker[w].at \notin {"renew", "exchange"}
                               /\ \E place \in Places : Goto(w, place)
      BY <1>3 DEF Begin, Launch, Apply, Publish, Activate, Finish, Failing, FailTask, Drop, Places
    <2>2. \A v \in Workers \ {w} : worker'[v] = worker[v]
      BY <1>0, <2>1 DEF Goto
    <2> QED BY <1>1, <2>1, <2>2
  <1>4. CASE \E w \in Workers : Report(w) \/ Move(w)
    <2>1. PICK w \in Workers : Report(w) \/ Move(w)
      BY <1>4
    <2>2. /\ lock' = lock /\ worker[w].at \notin {"renew", "exchange"}
          /\ \A v \in Workers \ {w} : worker'[v] = worker[v]
      BY <1>0, <2>1 DEF Report, Move, Goto
    <2> QED BY <1>1, <2>2
  <1>5. CASE \E w \in Workers : Lock(w)
    BY <1>0, <1>5 DEF Lock, Goto, LockKept, Record
  <1>6. CASE \E w \in Workers : Renew(w) \/ Exchange(w)
    <2>1. PICK w \in Workers : Renew(w) \/ Exchange(w)
      BY <1>6
    <2>2. \/ lock' = Nobody
          \/ lock' = lock /\ worker' = [worker EXCEPT ![w].at = "exchange"]
      BY <2>1 DEF Renew, Exchange, Goto
    <2> QED BY <1>0, <2>2 DEF LockKept, Record
  <1>7. CASE \E w \in Workers : Crash(w)
    <2>1. PICK w \in Workers : Crash(w)
      BY <1>7
    <2>2. /\ worker' = [worker EXCEPT ![w] = IdleWorker]
          /\ lock' = IF lock = w THEN Nobody ELSE lock
      BY <2>1 DEF Crash
    <2> QED BY <1>0, <2>2 DEF LockKept
  <1>8. CASE UNCHANGED <<worker, lock>>
    BY <1>8 DEF LockKept
  <1> QED BY <1>2, <1>3, <1>4, <1>5, <1>6, <1>7, <1>8
          DEF Next, vars, Work, Ask, Erase, Save, DropCall, Lapse

\* What is stored carries tokens handed out; an active version stays.
LEMMA StoredStays ==
    ASSUME IInv, CallInv, Stored, [Next]_vars
    PROVE  Stored' /\ versions \subseteq versions'
  <1>0. worker \in [Workers -> Record] /\ minted \in Nat
    BY DEF IInv, Workforce, Record
  <1>1. minted' \in Nat /\ minted <= minted'
    BY <1>0, TokenStep
  <1>2. ASSUME \A c \in Callers : call'[c].token \in 0..minted,
               artifacts' \subseteq 1..minted, versions' \subseteq 1..minted
        PROVE  Stored'
    BY <1>0, <1>1, <1>2 DEF Stored
  <1>3. CASE \E w \in Workers : Publish(w) \/ Activate(w)
    <2>1. PICK w \in Workers : Publish(w) \/ Activate(w)
      BY <1>3
    <2>2. worker[w].token \in 1..minted
      BY <1>0, <2>1 DEF Publish, Activate, IInv, Workforce, Working, Record
    <2>3. CASE Publish(w)
      BY <1>2, <2>2, <2>3 DEF Publish, Stored
    <2>4. CASE Activate(w)
      BY <1>2, <2>2, <2>4 DEF Activate, Stored
    <2> QED BY <2>1, <2>3, <2>4
  <1>4. CASE \E c \in Callers : Ask(c)
    <2>1. PICK c \in Callers : Ask(c)
      BY <1>4
    <2>2. task.token \in 0..minted
      BY <1>0 DEF IInv, LastClaim
    <2>3. \A d \in Callers : call'[d].token \in 0..minted
      BY <2>1, <2>2 DEF Ask, Stored, CallInv
    <2> QED BY <1>2, <2>1, <2>3 DEF Ask, outputs, Stored
  <1>5. CASE \E c \in Callers : Erase(c) \/ Save(c) \/ DropCall(c)
    <2>1. PICK c \in Callers : Erase(c) \/ Save(c) \/ DropCall(c)
      BY <1>5
    <2>2. \A d \in Callers : call'[d].token \in 0..minted
      <3>1. CASE Erase(c) \/ DropCall(c)
        BY <1>0, <3>1 DEF Erase, DropCall, Stored, CallInv, IdleCall
      <3>2. CASE Save(c)
        BY <1>0, <3>2 DEF Save, Stored, CallInv, IdleCall
      <3> QED BY <2>1, <3>1, <3>2
    <2>3. artifacts' \in {{}, artifacts} /\ versions' = versions
      BY <2>1 DEF Erase, Save, DropCall, outputs
    <2> QED BY <1>2, <2>2, <2>3 DEF Stored
  <1>6. CASE UNCHANGED <<artifacts, versions, call>>
    BY <1>2, <1>6 DEF Stored
  <1> QED BY <1>3, <1>4, <1>5, <1>6
          DEF Next, vars, outputs, Work, Look, Claim, Begin, Launch, Report, Apply, Lock, Renew,
              Exchange, Finish, Move, Failing, FailTask, Release, Crash, Drop, Lapse

\* What the writes do to the running runs.
LEMMA OpenedRuns ==
    ASSUME IInv, Owned, NEW w \in Workers, NEW kind \in {"phase", "runtime"},
           runs' = Opened(w, kind)
    PROVE  /\ runs' \subseteq Run
           /\ \A r \in Live' : \/ r \in Live
                               \/ /\ r.claim = worker[w].token /\ r.at = worker[w].status
                                  /\ r.kind = kind
           /\ \A r, s \in Live' : r \notin Live /\ s \notin Live => r = s
  BY DEF IInv, Workforce, Owned, Opened, Live, Run

LEMMA EndedRuns ==
    ASSUME Owned, NEW w, NEW kind, NEW state \in {"succeeded", "failed"},
           runs' = Ended(w, kind, state)
    PROVE  runs' \subseteq Run /\ Live' = Live \ OwnRun(w, kind)
  <1>1. runs \subseteq Run
    BY DEF Owned
  <1>2. \A r \in OwnRun(w, kind) : /\ [r EXCEPT !.state = state] \in Run
                                   /\ [r EXCEPT !.state = state].state # "running"
    BY <1>1 DEF OwnRun, Run
  <1>3. OwnRun(w, kind) \subseteq Live
    BY DEF OwnRun, Live
  <1> QED BY <1>1, <1>2, <1>3 DEF Ended, Live

LEMMA AbandonedRuns ==
    ASSUME Owned, runs' = Abandoned
    PROVE  runs' \subseteq Run /\ Live' = {}
  <1>1. runs \subseteq Run
    BY DEF Owned
  <1>2. \A r \in runs : /\ [r EXCEPT !.state = "failed"] \in Run
                        /\ [r EXCEPT !.state = "failed"].state # "running"
    BY <1>1 DEF Run
  <1> QED BY <1>1, <1>2 DEF Abandoned, Live

LEMMA SavedRuns ==
    ASSUME Owned, NEW status, NEW token, Saved(status, token)
    PROVE  /\ runs' \subseteq Run /\ Live' \subseteq Live
           /\ token # 0 /\ status # task.status => Live' = {}
  <1>1. CASE runs' = Abandoned
    BY <1>1, AbandonedRuns
  <1>2. CASE runs' = runs /\ ~(token # 0 /\ status # task.status)
    BY <1>2 DEF Live, Owned
  <1> QED BY <1>1, <1>2 DEF Saved

\* What runs while a worker's claim stands is that worker's.
LEMMA OwnsAll ==
    ASSUME IInv, Owned, NEW w \in Workers, Working(w), task.token = worker[w].token,
           NEW kind, NEW r \in Live, r.kind = kind
    PROVE  r \in OwnRun(w, kind)
  BY DEF IInv, Workforce, Owned, Live, OwnRun

\* Nothing runs any more.
LEMMA Emptied ==
    ASSUME runs' \subseteq Run, Live' = {}
    PROVE  Owned' /\ Clear'
  BY DEF Owned, Clear

\* Only the row and the runs change, and no run begins.
LEMMA Fading ==
    ASSUME IInv, Owned, Clear, UNCHANGED worker, task'.token \in {0, task.token},
           runs' \subseteq Run, Live' \subseteq Live
    PROVE  Owned' /\ Clear'
  BY DEF IInv, Workforce, Working, Owned, Clear, BeforePhase, BeforeRuntime

\* One worker goes on and no run begins.
LEMMA Leaving ==
    ASSUME IInv, Owned, Clear, task'.token \in {0, task.token},
           runs' \subseteq Run, Live' \subseteq Live,
           NEW w \in Workers, NEW r \in Record, worker' = [worker EXCEPT ![w] = r],
           \/ r.at \in {"idle", "claim"}
           \/ Working(w) /\ r.token = worker[w].token /\ r.status = worker[w].status,
           \A s \in Live' : r.token = task'.token =>
              /\ r.at \in BeforePhase => s.kind # "phase"
              /\ r.at \in BeforeRuntime => s.kind # "runtime"
    PROVE  Owned' /\ Clear'
  <1>0. worker \in [Workers -> Record] /\ worker' \in [Workers -> Record]
    BY DEF IInv, Workforce, Record
  <1>1. Owned'
    <2>1. \A v \in Workers : \A s \in Live' :
             Working(v)' /\ s.claim = worker'[v].token => s.at = worker'[v].status
      BY <1>0 DEF Owned, Working
    <2> QED BY <2>1 DEF Owned
  <1>2. Clear'
    <2>1. \A v \in Workers \ {w} : \A s \in Live' : worker[v].token = task'.token =>
              /\ worker[v].at \in BeforePhase => s.kind # "phase"
              /\ worker[v].at \in BeforeRuntime => s.kind # "runtime"
      BY DEF IInv, Workforce, Working, Clear, BeforePhase, BeforeRuntime
    <2>2. worker'[w] = r /\ \A v \in Workers \ {w} : worker'[v] = worker[v]
      BY <1>0
    <2> QED BY <2>1, <2>2 DEF Clear
  <1> QED BY <1>1, <1>2

\* A worker's write of a run, and what runs after it.
LEMMA OpenStep ==
    ASSUME IInv, Owned, Clear, TokensUnique, NEW w \in Workers, Working(w), Holds(w),
           NEW kind \in {"phase", "runtime"}, NEW place \in Places, Goto(w, place),
           task'.token = task.token, runs' = Opened(w, kind),
           \A r \in Live : r.kind # kind,
           \A r \in Live' : /\ place \in BeforePhase => r.kind # "phase"
                            /\ place \in BeforeRuntime => r.kind # "runtime"
    PROVE  Owned' /\ Clear'
  <1>0. worker \in [Workers -> Record]
    BY DEF IInv, Workforce, Record
  <1>1. /\ worker[w].token = task.token /\ task.token \in Nat /\ task.token # 0
        /\ \A v \in Workers : worker'[v].token = worker[v].token
                              /\ worker'[v].status = worker[v].status
        /\ \A v \in Workers \ {w} : worker'[v] = worker[v]
        /\ worker'[w].at = place
    BY <1>0 DEF Holds, Current, IInv, Workforce, Working, Goto, Record
  <1>2. /\ runs' \subseteq Run
        /\ \A r \in Live' : \/ r \in Live
                            \/ /\ r.claim = worker[w].token /\ r.at = worker[w].status
                               /\ r.kind = kind
        /\ \A r, s \in Live' : r \notin Live /\ s \notin Live => r = s
    BY OpenedRuns
  <1>3. \A v \in Workers : worker[v].token = task.token => v = w
    BY <1>1 DEF TokensUnique
  <1>4. \A r, s \in Live' : r.kind = s.kind => r = s
    BY <1>2 DEF Owned
  <1>5. \A r \in Live' : task'.token \in {0, r.claim}
    BY <1>1, <1>2 DEF Owned
  <1>6. \A v \in Workers : \A r \in Live' :
           Working(v)' /\ r.claim = worker'[v].token => r.at = worker'[v].status
    <2> SUFFICES ASSUME NEW v \in Workers, NEW r \in Live', Working(v)', r.claim = worker'[v].token
                 PROVE  r.at = worker'[v].status
      OBVIOUS
    <2>1. CASE v = w
      BY <1>1, <1>2, <2>1 DEF Owned
    <2>2. CASE v # w
      <3>1. r \in Live
        BY <1>1, <1>2, <1>3, <2>2
      <3>2. Working(v)
        BY <1>1, <2>2 DEF Working
      <3> QED BY <1>1, <3>1, <3>2 DEF Owned
    <2> QED BY <2>1, <2>2
  <1>7. Clear'
    BY <1>1, <1>3 DEF Clear
  <1> QED BY <1>2, <1>4, <1>5, <1>6, <1>7 DEF Owned

\* A worker that goes on with its copy of the row to a place that asks for
\* nothing, or for nothing the place before did not ask for.
LEMMA GoingOn ==
    ASSUME IInv, Owned, Clear, task'.token \in {0, task.token},
           runs' \subseteq Run, Live' \subseteq Live,
           NEW w \in Workers, Working(w), NEW place \in Places, Goto(w, place),
           place \in BeforePhase => worker[w].at \in BeforePhase,
           place \in BeforeRuntime => worker[w].at \in BeforeRuntime
    PROVE  Owned' /\ Clear'
  <1> DEFINE r == [worker[w] EXCEPT !.at = place]
  <1>0. worker[w] \in Record /\ worker[w].token > 0
    BY DEF IInv, Workforce, Working, Record
  <1>1. /\ r \in Record /\ r.at = place
        /\ r.token = worker[w].token /\ r.status = worker[w].status
    BY <1>0 DEF Record
  <1>2. worker' = [worker EXCEPT ![w] = r]
    BY DEF Goto
  <1>3. \A s \in Live' : r.token = task'.token =>
              /\ r.at \in BeforePhase => s.kind # "phase"
              /\ r.at \in BeforeRuntime => s.kind # "runtime"
    <2>1. r.token = task'.token => task'.token = task.token
      BY <1>0, <1>1 DEF Record
    <2> QED BY <1>1, <2>1 DEF Clear
  <1> HIDE DEF r
  <1> QED BY <1>1, <1>2, <1>3, Leaving

LEMMA WorkOwned ==
    ASSUME IInv, TokensUnique, Owned, Clear, NEW w \in Workers, Work(w)
    PROVE  Owned' /\ Clear'
  <1> USE TaskExecutionAssumption
  <1>0. /\ worker \in [Workers -> Record] /\ worker[w] \in Record /\ runs \subseteq Run
        /\ task.token \in Nat
    BY DEF IInv, LastClaim, Workforce, Record, Owned
  <1>a. IdleWorker \in Record /\ IdleWorker.at = "idle"
    BY DEF IdleWorker, Record, Places, IInv, Workforce
  <1>b. ASSUME UNCHANGED task \/ Renewed PROVE task'.token = task.token
    BY <1>b DEF Renewed, IInv, LastClaim
  <1>c. ASSUME UNCHANGED runs PROVE runs' \subseteq Run /\ Live' \subseteq Live
    BY <1>0, <1>c DEF Live
  <1>1. CASE Look(w)
    <2> DEFINE r == [IdleWorker EXCEPT !.at = "claim", !.status = task.status]
    <2>1. task.status \in WorkerStatuses
      BY <1>1 DEF Look
    <2>2. r \in Record /\ r.at = "claim"
      BY <1>a, <2>1 DEF Record, Places
    <2>3. worker' = [worker EXCEPT ![w] = r] /\ UNCHANGED <<task, runs>>
      BY <1>1 DEF Look
    <2> HIDE DEF r
    <2>4. r.at \notin BeforePhase /\ r.at \notin BeforeRuntime
      BY <2>2 DEF BeforePhase, BeforeRuntime
    <2> QED BY <1>c, <2>2, <2>3, <2>4, Leaving
  <1>2. CASE Claim(w)
    <2>1. CASE runs' = Abandoned
      BY <2>1, AbandonedRuns, Emptied
    <2>2. CASE worker' = [worker EXCEPT ![w] = IdleWorker] /\ UNCHANGED <<task, runs>>
      BY <1>a, <1>c, <2>2, Leaving DEF BeforePhase, BeforeRuntime
    <2> QED BY <1>2, <2>1, <2>2 DEF Claim
  <1>3. CASE Begin(w)
    <2>1. Working(w)
      BY <1>3 DEF Begin, Working
    <2>2. CASE Holds(w)
      <3> DEFINE place == IF worker[w].status = Publishing THEN "publish" ELSE "launch"
      <3>1. /\ Renewed /\ runs' = Opened(w, "phase") /\ Goto(w, place)
            /\ place \in Places /\ place \notin BeforePhase
        BY <1>3, <2>2 DEF Begin, Places, BeforePhase
      <3>2. \A r \in Live : r.kind \notin {"phase", "runtime"}
        BY <1>3, <2>2 DEF Begin, Clear, Holds, Current, BeforePhase, BeforeRuntime, Places
      <3>3. \A r \in Live' : r.kind # "runtime"
        BY <3>1, <3>2, OpenedRuns
      <3> HIDE DEF place
      <3> QED BY <1>b, <2>1, <2>2, <3>1, <3>2, <3>3, OpenStep
    <2>3. CASE ~Holds(w)
      <3>1. Goto(w, "fail") /\ UNCHANGED <<task, runs>>
        BY <1>3, <2>3 DEF Begin
      <3> QED BY <1>c, <2>1, <3>1, GoingOn DEF Places, BeforePhase, BeforeRuntime
    <2> QED BY <2>2, <2>3
  <1>4. CASE Launch(w)
    <2>1. Working(w)
      BY <1>4 DEF Launch, Working
    <2>2. CASE Holds(w)
      <3>1. /\ Renewed /\ runs' = Opened(w, "runtime") /\ Goto(w, "agent")
            /\ "agent" \in Places /\ "agent" \notin BeforePhase /\ "agent" \notin BeforeRuntime
        BY <1>4, <2>2 DEF Launch, Places, BeforePhase, BeforeRuntime
      <3>2. \A r \in Live : r.kind # "runtime"
        BY <1>4, <2>2 DEF Launch, Clear, Holds, Current, BeforeRuntime, Places
      <3> QED BY <1>b, <2>1, <2>2, <3>1, <3>2, OpenStep
    <2>3. CASE ~Holds(w)
      <3>1. Goto(w, "failing") /\ UNCHANGED <<task, runs>>
        BY <1>4, <2>3 DEF Launch
      <3> QED BY <1>c, <2>1, <3>1, GoingOn DEF Places, BeforePhase, BeforeRuntime
    <2> QED BY <2>2, <2>3
  <1>5. CASE Report(w)
    <2>1. Working(w)
      BY <1>5 DEF Report, Working
    <2>2. PICK good \in BOOLEAN :
             worker' = [worker EXCEPT ![w].at = "apply",
                                      ![w].good = good /\ Holds(w) /\ OwnRun(w, "runtime") # {}]
      BY <1>5 DEF Report
    <2> DEFINE r == [worker[w] EXCEPT !.at = "apply",
                                      !.good = good /\ Holds(w) /\ OwnRun(w, "runtime") # {}]
    <2>3. /\ r \in Record /\ r.at = "apply"
          /\ r.token = worker[w].token /\ r.status = worker[w].status
      BY <1>0 DEF Record, Places
    <2>4. worker' = [worker EXCEPT ![w] = r]
      BY <1>0, <2>2 DEF Record
    <2> HIDE DEF r
    <2>5. \/ /\ UNCHANGED task \/ Renewed
             /\ \E state \in {"succeeded", "failed"} : runs' = Ended(w, "runtime", state)
          \/ UNCHANGED <<task, runs>> /\ task.token # worker[w].token
      BY <1>5 DEF Report, Abandon, Holds, Current
    <2>6. /\ task'.token = task.token /\ runs' \subseteq Run /\ Live' \subseteq Live
          /\ task.token = worker[w].token => Live' = Live \ OwnRun(w, "runtime")
      BY <1>b, <1>c, <2>5, EndedRuns
    <2>7. \A s \in Live' : r.token = task'.token => s.kind # "runtime"
      BY <2>1, <2>3, <2>6, OwnsAll
    <2>8. r.at \notin BeforePhase
      BY <2>3 DEF BeforePhase
    <2> QED BY <2>1, <2>3, <2>4, <2>6, <2>7, <2>8, Leaving
  <1>6. CASE Apply(w) \/ Lock(w) \/ Renew(w) \/ Exchange(w) \/ Publish(w) \/ Activate(w)
    <2>1. /\ Working(w) /\ worker[w].at \in BeforeRuntime
          /\ \E place \in Places \ BeforePhase : Goto(w, place)
          /\ UNCHANGED runs /\ (UNCHANGED task \/ Renewed)
      BY <1>6 DEF Apply, Lock, Renew, Exchange, Publish, Activate, Working, Places,
                  BeforePhase, BeforeRuntime
    <2> QED BY <1>b, <1>c, <2>1, GoingOn
  <1>7. CASE Finish(w)
    <2>1. Working(w) /\ worker[w].at \in BeforeRuntime
      BY <1>7 DEF Finish, Working, BeforeRuntime, Places
    <2>2. CASE Holds(w) /\ OwnRun(w, "phase") # {}
      <3>1. Renewed /\ runs' = Ended(w, "phase", "succeeded") /\ Goto(w, "move")
        BY <1>7, <2>2 DEF Finish
      <3>2. /\ task'.token = task.token /\ runs' \subseteq Run /\ Live' \subseteq Live
            /\ Live' = Live \ OwnRun(w, "phase")
        BY <1>b, <3>1, EndedRuns
      <3> DEFINE r == [worker[w] EXCEPT !.at = "move"]
      <3>3. /\ r \in Record /\ r.at = "move"
            /\ r.token = worker[w].token /\ r.status = worker[w].status
        BY <1>0 DEF Record, Places
      <3>4. worker' = [worker EXCEPT ![w] = r]
        BY <3>1 DEF Goto
      <3> HIDE DEF r
      <3>5. \A s \in Live' : r.token = task'.token => s.kind # "phase"
        BY <2>1, <3>2, <3>3, OwnsAll
      <3>6. \A s \in Live' : r.token = task'.token => s.kind # "runtime"
        BY <2>1, <3>2, <3>3 DEF Clear
      <3> QED BY <2>1, <3>2, <3>3, <3>4, <3>5, <3>6, Leaving
    <2>3. CASE ~(Holds(w) /\ OwnRun(w, "phase") # {})
      <3>1. Abandon(w, "phase") /\ Goto(w, "release")
        BY <1>7, <2>3 DEF Finish
      <3>2. task'.token = task.token /\ runs' \subseteq Run /\ Live' \subseteq Live
        BY <1>b, <1>c, <3>1, EndedRuns DEF Abandon
      <3> QED BY <2>1, <3>1, <3>2, GoingOn DEF Places, BeforePhase, BeforeRuntime
    <2> QED BY <2>2, <2>3
  <1>8. CASE Move(w)
    <2>1. Working(w) /\ worker[w].at = "move"
      BY <1>8 DEF Move, Working
    <2>2. CASE Holds(w)
      <3>1. PICK to \in Onward[worker[w].status] :
               /\ Saved(to, worker[w].token)
               /\ worker' = [worker EXCEPT ![w].at = IF to \in Chained THEN "begin" ELSE "release",
                                           ![w].status = IF to \in Chained THEN to ELSE @]
        BY <1>8, <2>2 DEF Move
      <3>2. runs' \subseteq Run /\ Live' \subseteq Live
        BY <3>1, SavedRuns
      <3>3. task'.token = task.token
        BY <3>1 DEF Saved, IInv, LastClaim
      <3>4. CASE to # task.status
        <4>1. worker[w].token # 0
          BY <2>1, <1>0 DEF IInv, Workforce, Record
        <4> QED BY <3>1, <3>4, <4>1, SavedRuns, Emptied
      <3>5. CASE to = task.status
        <4> DEFINE r == [worker[w] EXCEPT !.at = IF to \in Chained THEN "begin" ELSE "release",
                                          !.status = IF to \in Chained THEN to ELSE @]
        <4>1. /\ r \in Record /\ r.at \in {"begin", "release"}
              /\ r.token = worker[w].token /\ r.status = worker[w].status
          BY <1>0, <2>2, <3>5 DEF Record, Places, Holds, Current
        <4>2. worker' = [worker EXCEPT ![w] = r]
          BY <1>0, <3>1 DEF Record
        <4> HIDE DEF r
        <4>3. \A s \in Live' : r.token = task'.token => s.kind # "phase" /\ s.kind # "runtime"
          BY <2>1, <3>2, <3>3, <4>1 DEF Clear, BeforePhase, BeforeRuntime, Places
        <4> QED BY <2>1, <3>2, <3>3, <4>1, <4>2, <4>3, Leaving
      <3> QED BY <3>4, <3>5
    <2>3. CASE ~Holds(w)
      <3>1. Goto(w, "release") /\ UNCHANGED <<task, runs>>
        BY <1>8, <2>3 DEF Move
      <3> QED BY <1>c, <2>1, <3>1, GoingOn DEF Places, BeforePhase, BeforeRuntime
    <2> QED BY <2>2, <2>3
  <1>9. CASE Failing(w)
    <2>1. Working(w) /\ Goto(w, "fail")
      BY <1>9 DEF Failing, Working
    <2>2. task'.token = task.token /\ runs' \subseteq Run /\ Live' \subseteq Live
      BY <1>b, <1>c, <1>9, EndedRuns DEF Failing, Abandon
    <2> QED BY <2>1, <2>2, GoingOn DEF Places, BeforePhase, BeforeRuntime
  <1>10. CASE FailTask(w)
    <2>1. Working(w) /\ Goto(w, "release")
      BY <1>10 DEF FailTask, Working
    <2>2. CASE Saved("failed", worker[w].token)
      <3>1. task'.token = task.token
        BY <2>2 DEF Saved, IInv, LastClaim
      <3> QED BY <2>1, <2>2, <3>1, SavedRuns, GoingOn DEF Places, BeforePhase, BeforeRuntime
    <2>3. CASE UNCHANGED <<task, runs>>
      BY <1>c, <2>1, <2>3, GoingOn DEF Places, BeforePhase, BeforeRuntime
    <2> QED BY <1>10, <2>2, <2>3 DEF FailTask
  <1>11. CASE Release(w)
    <2>1. worker' = [worker EXCEPT ![w] = IdleWorker] /\ UNCHANGED runs
      BY <1>11 DEF Release
    <2>2. task'.token \in {0, task.token}
      BY <1>11 DEF Release, IInv, LastClaim
    <2> QED BY <1>a, <1>c, <2>1, <2>2, Leaving DEF BeforePhase, BeforeRuntime
  <1> QED BY <1>1, <1>2, <1>3, <1>4, <1>5, <1>6, <1>7, <1>8, <1>9, <1>10, <1>11 DEF Work

LEMMA OwnedStays ==
    ASSUME IInv, CallInv, TokensUnique, Owned, Clear, [Next]_vars
    PROVE  Owned' /\ Clear'
  <1> USE TaskExecutionAssumption
  <1>c. ASSUME UNCHANGED runs PROVE runs' \subseteq Run /\ Live' \subseteq Live
    BY <1>c DEF Live, Owned
  <1>1. CASE \E w \in Workers : Work(w)
    BY <1>1, WorkOwned
  <1>2. CASE \E w \in Workers : Crash(w)
    <2>1. PICK w \in Workers : Crash(w)
      BY <1>2
    <2>2. IdleWorker \in Record /\ IdleWorker.at = "idle"
      BY DEF IdleWorker, Record, Places, IInv, Workforce
    <2>3. worker' = [worker EXCEPT ![w] = IdleWorker] /\ UNCHANGED <<task, runs>>
      BY <2>1 DEF Crash
    <2> QED BY <1>c, <2>2, <2>3, Leaving DEF BeforePhase, BeforeRuntime
  <1>3. CASE \E w \in Workers : Drop(w)
    <2>1. PICK w \in Workers : Working(w) /\ Goto(w, "release") /\ UNCHANGED <<task, runs>>
      BY <1>3 DEF Drop, Working
    <2> QED BY <1>c, <2>1, GoingOn DEF Places, BeforePhase, BeforeRuntime
  <1>4. CASE \E c \in Callers : Save(c)
    <2>1. PICK c \in Callers : Save(c)
      BY <1>4
    <2>2. CASE Saved(call[c].to, call[c].token)
      <3>1. task'.token = task.token
        BY <2>2 DEF Saved, IInv, LastClaim
      <3> QED BY <2>1, <2>2, <3>1, SavedRuns, Fading DEF Save
    <2>3. CASE UNCHANGED <<task, runs>>
      BY <1>c, <2>1, <2>3, Fading DEF Save
    <2> QED BY <2>1, <2>2, <2>3 DEF Save
  <1>5. CASE Lapse
    <2>1. task'.token = task.token
      BY <1>5 DEF Lapse, IInv, LastClaim
    <2> QED BY <1>5, <1>c, <2>1, Fading DEF Lapse
  <1>6. CASE UNCHANGED <<task, runs, worker>>
    BY <1>6, <1>c, Fading
  <1> QED BY <1>1, <1>2, <1>3, <1>4, <1>5, <1>6 DEF Next, vars, Ask, Erase, DropCall

\* A published run stays published: outcomes stand, versions stay active.
LEMMA PublishedStays ==
    ASSUME NEW token, PublishedRun(token, versions, runs), RunsStand, versions \subseteq versions'
    PROVE  PublishedRun(token, versions', runs')
  BY DEF PublishedRun, RunsStand

\* Whatever a worker that goes to a place may claim there.
PlaceFits(place, status, token, vs, rs) ==
    status = Publishing =>
        /\ place \notin {"launch", "agent", "apply", "lock", "renew", "exchange"}
        /\ place = "finish" => token \in vs
        /\ place = "move" => PublishedRun(token, vs, rs)

LEMMA OrderKept ==
    ASSUME IInv, PublishOrder, RunsStand, versions \subseteq versions',
           NEW w \in Workers, NEW r, worker' = [worker EXCEPT ![w] = r],
           PlaceFits(r.at, r.status, r.token, versions', runs'),
           UNCHANGED call,
           task'.status = "completed" =>
              task.status = "completed" \/ \E token \in versions' : PublishedRun(token, versions', runs')
    PROVE  PublishOrder'
  <1>0. worker \in [Workers -> Record]
    BY DEF IInv, Workforce, Record
  <1>1. \A v \in Workers : PlaceFits(worker'[v].at, worker'[v].status, worker'[v].token, versions', runs')
    <2> SUFFICES ASSUME NEW v \in Workers
                 PROVE  PlaceFits(worker'[v].at, worker'[v].status, worker'[v].token, versions', runs')
      OBVIOUS
    <2>1. CASE v = w
      BY <1>0, <2>1 DEF PlaceFits
    <2>2. CASE v # w
      <3>1. worker'[v] = worker[v]
        BY <1>0, <2>2
      <3> QED BY <3>1, PublishedStays DEF PublishOrder, PlaceFits
    <2> QED BY <2>1, <2>2
  <1>2. task'.status = "completed" => \E token \in versions' : PublishedRun(token, versions', runs')
    BY PublishedStays DEF PublishOrder
  <1> QED BY <1>1, <1>2 DEF PublishOrder, PlaceFits

LEMMA OrderGoing ==
    ASSUME IInv, PublishOrder, RunsStand, versions \subseteq versions',
           NEW w \in Workers, NEW place \in Places, Goto(w, place),
           NEW token, token = worker[w].token, NEW status, status = worker[w].status,
           PlaceFits(place, status, token, versions', runs'),
           UNCHANGED call, task'.status = "completed" => task.status = "completed"
    PROVE  PublishOrder'
  <1> DEFINE r == [worker[w] EXCEPT !.at = place]
  <1>1. r.at = place /\ r.status = status /\ r.token = token
    BY DEF IInv, Workforce
  <1>2. worker' = [worker EXCEPT ![w] = r]
    BY DEF Goto
  <1> HIDE DEF r
  <1>3. PlaceFits(r.at, r.status, r.token, versions', runs')
    BY <1>1
  <1> QED BY <1>2, <1>3, OrderKept

LEMMA WorkOrder ==
    ASSUME IInv, Owned, PublishOrder, NEW w \in Workers, Work(w), versions \subseteq versions'
    PROVE  PublishOrder'
  <1> USE TaskExecutionAssumption
  <1>0. /\ RunsStand /\ worker \in [Workers -> Record] /\ worker[w] \in Record /\ runs \subseteq Run
    BY WorkStands DEF IInv, Workforce, Record, Owned
  <1>a. PlaceFits(IdleWorker.at, IdleWorker.status, IdleWorker.token, versions', runs')
    BY DEF IdleWorker, PlaceFits
  <1>b. ASSUME UNCHANGED task \/ Renewed
        PROVE  task'.status = task.status
    BY <1>b DEF Renewed, IInv, LastClaim
  <1> DEFINE token == worker[w].token
             status == worker[w].status
  <1>1. CASE Look(w)
    <2> DEFINE r == [IdleWorker EXCEPT !.at = "claim", !.status = task.status]
    <2>1. r.at = "claim"
      BY DEF IdleWorker
    <2>2. worker' = [worker EXCEPT ![w] = r] /\ UNCHANGED <<task, call>>
      BY <1>1 DEF Look
    <2> HIDE DEF r
    <2>3. PlaceFits(r.at, r.status, r.token, versions', runs')
      BY <2>1 DEF PlaceFits
    <2> QED BY <1>0, <2>2, <2>3, OrderKept
  <1>2. CASE Claim(w)
    <2>0. UNCHANGED call /\ task'.status = task.status
      BY <1>2 DEF Claim, IInv, LastClaim
    <2>1. CASE worker' = [worker EXCEPT ![w].at = "begin", ![w].token = minted + 1]
      <3> DEFINE r == [worker[w] EXCEPT !.at = "begin", !.token = minted + 1]
      <3>1. worker' = [worker EXCEPT ![w] = r] /\ r.at = "begin"
        BY <1>0, <2>1 DEF Record
      <3> HIDE DEF r
      <3>2. PlaceFits(r.at, r.status, r.token, versions', runs')
        BY <3>1 DEF PlaceFits
      <3> QED BY <1>0, <2>0, <3>1, <3>2, OrderKept
    <2>2. CASE worker' = [worker EXCEPT ![w] = IdleWorker]
      BY <1>0, <1>a, <2>0, <2>2, OrderKept
    <2> QED BY <1>2, <2>1, <2>2 DEF Claim
  <1>3. CASE Begin(w) \/ Launch(w)
    <2>1. PICK place \in {"publish", "launch", "fail", "failing", "agent"} :
             Goto(w, place) /\ (place \in {"launch", "agent"} => status # Publishing)
      BY <1>3 DEF Begin, Launch, PublishOrder
    <2>2. UNCHANGED call /\ task'.status = task.status
      BY <1>3, <1>b DEF Begin, Launch
    <2>3. PlaceFits(place, status, token, versions', runs')
      BY <2>1 DEF PlaceFits
    <2> QED BY <1>0, <2>1, <2>2, <2>3, OrderGoing DEF Places
  <1>4. CASE Report(w)
    <2>1. PICK good \in BOOLEAN :
             worker' = [worker EXCEPT ![w].at = "apply",
                                      ![w].good = good /\ Holds(w) /\ OwnRun(w, "runtime") # {}]
      BY <1>4 DEF Report
    <2> DEFINE r == [worker[w] EXCEPT !.at = "apply",
                                      !.good = good /\ Holds(w) /\ OwnRun(w, "runtime") # {}]
    <2>2. worker' = [worker EXCEPT ![w] = r] /\ r.status = status /\ r.token = token
      BY <1>0, <2>1 DEF Record
    <2>3. status # Publishing
      BY <1>4 DEF Report, PublishOrder
    <2>4. UNCHANGED call /\ task'.status = task.status
      BY <1>4, <1>b DEF Report, Abandon
    <2> HIDE DEF r
    <2>5. PlaceFits(r.at, r.status, r.token, versions', runs')
      BY <2>2, <2>3 DEF PlaceFits
    <2> QED BY <1>0, <2>2, <2>4, <2>5, OrderKept
  <1>5. CASE Apply(w) \/ Lock(w) \/ Renew(w) \/ Exchange(w)
    <2>1. PICK place \in Places : Goto(w, place)
      BY <1>5 DEF Apply, Lock, Renew, Exchange, Places
    <2>2. status # Publishing
      BY <1>5 DEF Apply, Lock, Renew, Exchange, PublishOrder
    <2>3. UNCHANGED call /\ task'.status = task.status
      BY <1>5, <1>b DEF Apply, Lock, Renew, Exchange
    <2>4. PlaceFits(place, status, token, versions', runs')
      BY <2>2 DEF PlaceFits
    <2> QED BY <1>0, <2>1, <2>3, <2>4, OrderGoing
  <1>6. CASE Publish(w) \/ Activate(w)
    <2>1. PICK place \in {"activate", "finish", "failing"} :
             Goto(w, place) /\ (place = "finish" => token \in versions')
      BY <1>6 DEF Publish, Activate
    <2>2. UNCHANGED <<call, task>>
      BY <1>6 DEF Publish, Activate
    <2>3. PlaceFits(place, status, token, versions', runs')
      BY <2>1 DEF PlaceFits
    <2> QED BY <1>0, <2>1, <2>2, <2>3, OrderGoing DEF Places
  <1>7. CASE Finish(w)
    <2>0. UNCHANGED call /\ task'.status = task.status
      BY <1>7, <1>b DEF Finish, Abandon
    <2>1. CASE Holds(w) /\ OwnRun(w, "phase") # {}
      <3>1. runs' = Ended(w, "phase", "succeeded") /\ Goto(w, "move")
        BY <1>7, <2>1 DEF Finish
      <3>2. PICK s \in OwnRun(w, "phase") : TRUE
        BY <2>1
      <3> DEFINE r == [s EXCEPT !.state = "succeeded"]
      <3>3. r \in runs'
        BY <3>1, <3>2 DEF Ended
      <3>4. r.at = status /\ r.kind = "phase" /\ r.state = "succeeded" /\ r.claim = token
        BY <1>0, <3>2 DEF OwnRun, Run
      <3> HIDE DEF r
      <3>5. status = Publishing => token \in versions'
        BY <1>7 DEF Finish, PublishOrder
      <3>6. PlaceFits("move", status, token, versions', runs')
        BY <3>3, <3>4, <3>5 DEF PlaceFits, PublishedRun
      <3> QED BY <1>0, <2>0, <3>1, <3>6, OrderGoing DEF Places
    <2>2. CASE ~(Holds(w) /\ OwnRun(w, "phase") # {})
      <3>1. Goto(w, "release")
        BY <1>7, <2>2 DEF Finish
      <3>2. PlaceFits("release", status, token, versions', runs')
        BY DEF PlaceFits
      <3> QED BY <1>0, <2>0, <3>1, <3>2, OrderGoing DEF Places
    <2> QED BY <2>1, <2>2
  <1>8. CASE Move(w)
    <2>1. CASE Holds(w)
      <3>1. PICK to \in Onward[worker[w].status] :
               /\ Saved(to, worker[w].token)
               /\ worker' = [worker EXCEPT ![w].at = IF to \in Chained THEN "begin" ELSE "release",
                                           ![w].status = IF to \in Chained THEN to ELSE @]
        BY <1>8, <2>1 DEF Move
      <3> DEFINE r == [worker[w] EXCEPT !.at = IF to \in Chained THEN "begin" ELSE "release",
                                        !.status = IF to \in Chained THEN to ELSE @]
      <3>2. worker' = [worker EXCEPT ![w] = r] /\ r.at \in {"begin", "release"}
        BY <1>0, <3>1 DEF Record
      <3> HIDE DEF r
      <3>3. PlaceFits(r.at, r.status, r.token, versions', runs')
        BY <3>2 DEF PlaceFits
      <3>4. task'.status = "completed" => PublishedRun(token, versions, runs)
        <4>1. task'.status = to
          BY <3>1 DEF Saved, IInv, LastClaim
        <4>2. worker[w].status \in Open
          BY <1>0 DEF Record
        <4>3. to = "completed" => "completed" \in Onward[worker[w].status]
          BY <3>1
        <4>4. to = "completed" => status = Publishing
          BY <4>2, <4>3
        <4> QED BY <1>8, <4>1, <4>4 DEF Move, PublishOrder
      <3>5. task'.status = "completed" => \E t \in versions' : PublishedRun(t, versions', runs')
        BY <1>0, <3>4, PublishedStays DEF PublishedRun
      <3>6. UNCHANGED call
        BY <1>8 DEF Move
      <3> QED BY <1>0, <3>2, <3>3, <3>5, <3>6, OrderKept
    <2>2. CASE ~Holds(w)
      <3>1. Goto(w, "release") /\ UNCHANGED <<task, call>>
        BY <1>8, <2>2 DEF Move
      <3>2. PlaceFits("release", status, token, versions', runs')
        BY DEF PlaceFits
      <3> QED BY <1>0, <3>1, <3>2, OrderGoing DEF Places
    <2> QED BY <2>1, <2>2
  <1>9. CASE Failing(w) \/ FailTask(w)
    <2>1. PICK place \in {"fail", "release"} : Goto(w, place)
      BY <1>9 DEF Failing, FailTask
    <2>2. UNCHANGED call /\ (task'.status = "completed" => task.status = "completed")
      BY <1>9, <1>b DEF Failing, FailTask, Abandon, Saved, IInv, LastClaim
    <2>3. PlaceFits(place, status, token, versions', runs')
      BY <2>1 DEF PlaceFits
    <2> QED BY <1>0, <2>1, <2>2, <2>3, OrderGoing DEF Places
  <1>10. CASE Release(w)
    <2>1. worker' = [worker EXCEPT ![w] = IdleWorker] /\ UNCHANGED call
      BY <1>10 DEF Release
    <2>2. task'.status = task.status
      BY <1>10 DEF Release, IInv, LastClaim
    <2> QED BY <1>0, <1>a, <2>1, <2>2, OrderKept
  <1> QED BY <1>1, <1>2, <1>3, <1>4, <1>5, <1>6, <1>7, <1>8, <1>9, <1>10 DEF Work

\* No call asks for a completed task.
LEMMA AskedIsOpen ==
    ASSUME NEW from \in Statuses PROVE "completed" \notin Asked(from)
  BY TaskExecutionAssumption DEF Asked, Statuses, Open, Awaiting

LEMMA OrderStays ==
    ASSUME IInv, CallInv, Owned, PublishOrder, [Next]_vars, versions \subseteq versions'
    PROVE  PublishOrder'
  <1> USE TaskExecutionAssumption
  <1>0. worker \in [Workers -> Record]
    BY DEF IInv, Workforce, Record
  <1>1. CASE \E w \in Workers : Work(w)
    BY <1>1, WorkOrder
  <1>2. CASE \E w \in Workers : Crash(w)
    <2>1. PICK w \in Workers : Crash(w)
      BY <1>2
    <2>2. /\ worker' = [worker EXCEPT ![w] = IdleWorker] /\ UNCHANGED <<task, call>> /\ RunsStand
      BY <2>1 DEF Crash, RunsStand
    <2>3. PlaceFits(IdleWorker.at, IdleWorker.status, IdleWorker.token, versions', runs')
      BY DEF IdleWorker, PlaceFits
    <2> QED BY <2>2, <2>3, OrderKept
  <1>3. CASE \E w \in Workers : Drop(w)
    <2>1. PICK w \in Workers : Goto(w, "release") /\ UNCHANGED <<task, call>> /\ RunsStand
      BY <1>3 DEF Drop, RunsStand
    <2> DEFINE token == worker[w].token
               status == worker[w].status
    <2>2. PlaceFits("release", status, token, versions', runs')
      BY DEF PlaceFits
    <2> QED BY <2>1, <2>2, OrderGoing DEF Places
  <1>4. ASSUME UNCHANGED worker, RunsStand, \A c \in Callers : call'[c].to # "completed",
               task'.status = "completed" => task.status = "completed"
        PROVE  PublishOrder'
    BY <1>4, PublishedStays DEF PublishOrder
  <1>5. CASE \E c \in Callers : Save(c)
    <2>1. PICK c \in Callers : Save(c)
      BY <1>5
    <2>2. RunsStand
      BY <2>1, SaveStands
    <2>3. UNCHANGED worker
      BY <2>1 DEF Save
    <2>4. task'.status = "completed" => task.status = "completed"
      BY <2>1 DEF Save, Saved, IInv, LastClaim, PublishOrder
    <2>5. IdleCall.to # "completed"
      BY DEF IdleCall
    <2>6. \A to \in Onward[Deriving] \cup {"failed"} : call[c].to = Deriving => to # "completed"
      <3>1. call[c].to = Deriving => Deriving \in Open
        BY DEF CallInv, Statuses, Deriving
      <3> QED BY <3>1 DEF Deriving, Publishing
    <2>7. \A d \in Callers : call'[d].to # "completed"
      <3>1. CASE call' = [call EXCEPT ![c] = IdleCall]
        BY <2>5, <3>1 DEF CallInv, PublishOrder
      <3>2. CASE /\ call[c].to = Deriving
                 /\ \E to \in Onward[Deriving] \cup {"failed"} :
                       call' = [call EXCEPT ![c].from = Deriving, ![c].to = to]
        <4>1. PICK to : to # "completed" /\ call' = [call EXCEPT ![c].from = Deriving, ![c].to = to]
          BY <2>6, <3>2
        <4> QED BY <4>1 DEF CallInv, PublishOrder
      <3> QED BY <2>1, <3>1, <3>2 DEF Save
    <2> QED BY <1>4, <2>2, <2>3, <2>4, <2>7
  <1>6. CASE \E c \in Callers : Ask(c)
    <2>1. PICK c \in Callers : Ask(c)
      BY <1>6
    <2>2. task.status \in Statuses
      BY DEF IInv, LastClaim
    <2>3. \A d \in Callers : call'[d].to # "completed"
      BY <2>1, <2>2, AskedIsOpen DEF Ask, CallInv, PublishOrder
    <2> QED BY <1>4, <2>1, <2>3 DEF Ask, RunsStand
  <1>7. CASE \E c \in Callers : Erase(c) \/ DropCall(c)
    <2>1. PICK c \in Callers : Erase(c) \/ DropCall(c)
      BY <1>7
    <2>2. \A d \in Callers : call'[d].to # "completed"
      BY <2>1 DEF Erase, DropCall, IdleCall, CallInv, PublishOrder
    <2> QED BY <1>4, <2>1, <2>2 DEF Erase, DropCall, RunsStand
  <1>8. CASE Lapse
    BY <1>4, <1>8 DEF Lapse, RunsStand, IInv, LastClaim, PublishOrder
  <1>9. CASE UNCHANGED vars
    BY <1>4, <1>9 DEF vars, RunsStand, PublishOrder
  <1> QED BY <1>1, <1>2, <1>3, <1>5, <1>6, <1>7, <1>8, <1>9 DEF Next

LEMMA EInvariance == Spec => [](IInv /\ CallInv /\ EInv)
  <1>1. ASSUME IInv, CallInv, EInv, [Next]_vars
        PROVE  EInv'
    BY <1>1, TokensStayUnique, LockStays, StoredStays, OwnedStays, OrderStays DEF EInv
  <1> QED BY <1>1, EInitHolds, Invariance, PTL DEF Spec

\* The task row, the runs, the lock and the workers' copies are well formed; at
\* most one phase run and one runtime run are running, and under the claim the
\* row carries: for every number of workers and requests, whatever crashes, is
\* dropped, lapses and is taken over (CreatePhaseRun, ClaimTaskExecution).
THEOREM RunningWorkHasOneOwner == Spec => []ExecutionInvariant
  <1>1. ASSUME IInv, CallInv, EInv
        PROVE  TypeOK
    <2>1. task \in [status : Statuses, token : 0..minted, stale : BOOLEAN]
      BY <1>1 DEF IInv, LastClaim, Workforce
    <2>2. call \in [Callers -> [at : {"idle", "erase", "save"}, from : Statuses,
                                token : 0..minted, to : Statuses]]
      BY <1>1 DEF EInv, Stored, CallInv
    <2>3. \A w \in Workers : lock = w <=> worker[w].at \in {"renew", "exchange"}
      BY <1>1 DEF IInv, Locking, EInv, LockKept
    <2> QED BY <1>1, <2>1, <2>2, <2>3
            DEF TypeOK, IInv, Workforce, Promoting, EInv, TokensUnique, LockKept, Stored, Owned
  <1>2. ASSUME Owned PROVE RunningIsOwned
    <2> SUFFICES ASSUME NEW kind \in {"phase", "runtime"}
                 PROVE  /\ Cardinality(Running(kind)) <= 1
                        /\ \A r \in Running(kind) : task.token \in {0, r.claim}
      BY DEF RunningIsOwned
    <2>1. Running(kind) \subseteq Live /\ \A r, s \in Running(kind) : r = s
      BY <1>2 DEF Owned, Running, Live
    <2>2. CASE Running(kind) = {}
      BY <2>2, FS_EmptySet
    <2>3. CASE Running(kind) # {}
      <3>1. PICK r \in Running(kind) : Running(kind) = {r}
        BY <2>1, <2>3
      <3>2. Cardinality(Running(kind)) = 1
        BY <3>1, FS_Singleton
      <3> QED BY <1>2, <2>1, <3>2 DEF Owned
    <2> QED BY <1>2, <2>1, <2>2, <2>3 DEF Owned
  <1> QED BY <1>1, <1>2, EInvariance, PTL DEF EInv, ExecutionInvariant

\* A completed task has an active artifact version, published under a claim
\* whose publishing run succeeded: processPublish activates before it closes the
\* run and closes it before it moves the task, and no other write completes it.
THEOREM CompletedTaskIsPublished == Spec => []CompletedIsPublished
  <1>1. EInv => CompletedIsPublished
    BY DEF EInv, PublishOrder, PublishedRun, CompletedIsPublished
  <1> QED BY <1>1, EInvariance, PTL

=============================================================================
