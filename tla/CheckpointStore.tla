--------------------------- MODULE CheckpointStore ---------------------------
(***************************************************************************)
(* Retention of checkpoints: the Task Workspace lifecycle decides who      *)
(* still needs a checkpoint, the local filesystem store holds references   *)
(* and deduplicated contents.  Commits are completed in the store after    *)
(* they linearized, releases and attachments move the store's references,  *)
(* a reclamation deletes content nobody needs any more.                    *)
(*                                                                         *)
(* Every operation holds the lifecycle's mutex from its checks to its      *)
(* journal entry, the store's call included: it is one step.  Completing a *)
(* commit is not: it reads, activates and closes under the store's lock.   *)
(*                                                                         *)
(* The store keeps its records in memory (mem) and writes all of them to   *)
(* its state file (disk) at the end of every mutation; files are the       *)
(* payloads on disk.  A checkpoint has one payload; content is named by    *)
(* the checkpoint whose commit wrote it.  Commits alone move the fence, so *)
(* the fence is the number of the current checkpoint.                      *)
(***************************************************************************)
EXTENDS Naturals, FiniteSets

CONSTANTS Last,         \* bound: checkpoints 1..Last, in commit order
          Payloads, Payload,   \* the bytes a checkpoint declares
          MaxOperations,  \* bound: retention operations and debt retries
          Finishers,    \* callers that complete commits
          Waits,        \* nothing else is asked while a commit is incomplete
          Lossy,        \* a failed write of the state file may leave the old one
          MaxFaults     \* bound: failed writes, crashes, restarts

Checkpoints == 1..Last
Operations == 1..MaxOperations

ASSUME CheckpointStoreAssumption ==
    /\ Last \in Nat /\ MaxOperations \in Nat /\ MaxFaults \in Nat
    /\ Payload \in [Checkpoints -> Payloads]
    /\ Waits \in BOOLEAN /\ Lossy \in BOOLEAN

VARIABLES current,      \* the workspace's current checkpoint, 0 before the first commit
          retention,    \* who needs a checkpoint, and how far its release got
          debts,        \* cleanup debt of a checkpoint
          operations,   \* the operation journal
          home,         \* the content a checkpoint's reference names, 0 before its commit
          mem, disk,    \* the store's records, in memory and in its state file
          files,        \* payloads on disk
          finishing,    \* completions of commits in progress
          faults

core == <<current, retention, debts, operations, home>>
store == <<mem, disk, files>>
vars == <<core, store, finishing, faults>>

Authorities == {"lineage", "pin"}

Retention == [generation : Nat, lineage : BOOLEAN, pin : {"none", "active", "expired"},
              grace : {"none", "running", "passed"}, pending : Operations \cup {0},
              reclaimed : BOOLEAN]

Operation == [kind : {"none", "release", "attach", "reclaim", "retry"},
              checkpoint : Checkpoints \cup {0}, authority : Authorities \cup {"none"},
              generation : Nat, fence : Checkpoints \cup {0},
              state : {"none", "asked", "doubtful", "done", "refused"}]

Records == [contents : SUBSET Checkpoints,      \* contents on record
            quarantined : SUBSET Checkpoints,
            references : [Checkpoints -> {"none", "prepared", "attached"}],
            shared : [Payloads -> Checkpoints \cup {0}],    \* Deduplication
            moved : SUBSET Operations,          \* ReferenceTransitions
            reclaims : [Operations -> {"none", "retained", "gone"}],
            leases : SUBSET Checkpoints,        \* materializations
            completed : SUBSET Checkpoints]     \* Completions

Committed == 1..current
Present(r, a) == IF a = "lineage" THEN r.lineage ELSE r.pin # "none"
Retained(r) == r.lineage \/ r.pin = "active"
RetainedWithout(r, a) == Retained(IF a = "lineage" THEN [r EXCEPT !.lineage = FALSE]
                                                  ELSE [r EXCEPT !.pin = "none"])
Dropped(r, a) == IF a = "lineage" THEN [r EXCEPT !.lineage = FALSE, !.generation = @ + 1]
                                  ELSE [r EXCEPT !.pin = "none", !.generation = @ + 1]

Fault == faults < MaxFaults /\ faults' = faults + 1

-----------------------------------------------------------------------------
Init ==
    /\ current = 0
    /\ retention = [c \in Checkpoints |->
                      [generation |-> 0, lineage |-> FALSE, pin |-> "none",
                       grace |-> "none", pending |-> 0, reclaimed |-> FALSE]]
    /\ debts = [c \in Checkpoints |-> [state |-> "none", by |-> 0]]
    /\ operations = [o \in Operations |->
                       [kind |-> "none", checkpoint |-> 0, authority |-> "none",
                        generation |-> 0, fence |-> 0, state |-> "none"]]
    /\ home = [c \in Checkpoints |-> 0]
    /\ mem = [contents |-> {}, quarantined |-> {},
              references |-> [c \in Checkpoints |-> "none"],
              shared |-> [p \in Payloads |-> 0], moved |-> {},
              reclaims |-> [o \in Operations |-> "none"], leases |-> {}, completed |-> {}]
    /\ disk = mem
    /\ files = {}
    /\ finishing = [f \in Finishers |-> [checkpoint |-> 0, stage |-> "idle"]]
    /\ faults = 0

-----------------------------------------------------------------------------
\* persistState succeeds, or fails before or after the new file is in place.
Save(m) == mem' = m /\ disk' = m /\ UNCHANGED faults
FailToSave(m) == mem' = m /\ disk' \in (IF Lossy THEN {disk, m} ELSE {m}) /\ Fault

\* A new process over the same root and the same journal.
Restart ==
    /\ mem # disk \/ \E f \in Finishers : finishing[f].stage # "idle"
    /\ mem' = disk
    /\ finishing' = [f \in Finishers |-> [checkpoint |-> 0, stage |-> "idle"]]
    /\ Fault
    /\ UNCHANGED <<core, disk, files>>

Complete == Committed \subseteq mem.completed
MayAsk == Waits => Complete

\* Another content with the same bytes, still referenced, is used instead of
\* writing the payload once more.
Reusable(p) ==
    {w \in mem.contents : /\ mem.shared[p] = w
                          /\ \E d \in Checkpoints : home[d] = w /\ mem.references[d] = "attached"}

\* CommitRuntimeView: the store prepares the content and an unattached
\* reference, the lifecycle makes the checkpoint current.
Commit ==
    /\ current < Last /\ MayAsk
    /\ LET c == current + 1
           reused == Reusable(Payload[c])
           w == IF reused = {} THEN c ELSE CHOOSE w \in reused : TRUE
       IN  /\ reused # {} => w \in files
           /\ current' = c
           /\ home' = [home EXCEPT ![c] = w]
           /\ files' = files \cup {w}
           /\ Save([mem EXCEPT !.contents = @ \cup {w}, !.references[c] = "prepared",
                               !.shared[Payload[c]] = w])
           /\ retention' = [retention EXCEPT ![c].generation = 1, ![c].lineage = TRUE]
    /\ UNCHANGED <<debts, operations, finishing>>

\* completeLocalInspection: the completion record, activation, completion.
ReadCompletion(f) ==
    /\ finishing[f].stage = "idle"
    /\ \E c \in Committed \ mem.completed :
         finishing' = [finishing EXCEPT ![f] = [checkpoint |-> c, stage |-> "read"]]
    /\ UNCHANGED <<core, store, faults>>

Advance(f, stage) ==
    finishing' = [finishing EXCEPT ![f] =
        IF stage = "idle" THEN [checkpoint |-> 0, stage |-> "idle"] ELSE [@ EXCEPT !.stage = stage]]

Activate(f) ==
    /\ finishing[f].stage = "read"
    /\ LET c == finishing[f].checkpoint
           m == [mem EXCEPT !.references[c] = "attached"]
       IN  \/ /\ mem.references[c] = "none"
              /\ Advance(f, "idle") /\ UNCHANGED <<mem, disk, faults>>
           \/ /\ mem.references[c] # "none"
              /\ \/ Advance(f, "activated") /\ Save(m)
                 \/ Advance(f, "idle") /\ FailToSave(m)
    /\ UNCHANGED <<core, files>>

CompleteCommit(f) ==
    /\ finishing[f].stage = "activated"
    /\ Advance(f, "idle")
    /\ LET m == [mem EXCEPT !.completed = @ \cup {finishing[f].checkpoint}]
       IN  \/ Save(m)
           \/ /\ m # mem /\ Fault    \* the memory is rolled back, the file may not be
              /\ UNCHANGED mem
              /\ disk' \in (IF Lossy THEN {disk, m} ELSE {m})
    /\ UNCHANGED <<core, files>>

-----------------------------------------------------------------------------
\* A caller asks for an operation on the retention it has just inspected.
Ask(o) ==
    /\ operations[o].state = "none" /\ MayAsk
    /\ \A earlier \in 1..(o - 1) : operations[earlier].state # "none"
    /\ \E c \in Committed, kind \in {"release", "attach", "reclaim", "retry"}, a \in Authorities :
         /\ kind # "release" => a = "pin"
         /\ kind = "retry" => debts[c].state = "open"
         /\ operations' = [operations EXCEPT ![o] =
              [kind |-> kind, checkpoint |-> c, authority |-> a,
               generation |-> retention[c].generation, fence |-> current, state |-> "asked"]]
    /\ UNCHANGED <<current, retention, debts, home, store, finishing, faults>>

\* Variant: operations in doubt are left to themselves.
PendingAsked(o, kind) == operations[o].kind = kind /\ operations[o].state = "asked"

Pending(o, kind) == operations[o].kind = kind /\ operations[o].state \in {"asked", "doubtful"}
Becomes(o, state) == operations' = [operations EXCEPT ![o].state = state]

Stale(o) ==
    \/ operations[o].fence # current
    \/ operations[o].generation # retention[operations[o].checkpoint].generation

\* Its own release of the last authority, interrupted in the store.
Resuming(o) ==
    LET r == retention[operations[o].checkpoint]
    IN  /\ ~Present(r, operations[o].authority) /\ ~Retained(r)
        /\ r.pending = o /\ r.generation = operations[o].generation + 1 /\ r.grace # "none"

\* The store moves a checkpoint's references, once for an operation.
Moved(o, c, to) == [mem EXCEPT !.references[c] = to, !.moved = @ \cup {o}]
Movable(c) == mem.references[c] # "none" /\ home[c] \in mem.contents

\* Variant: the lineage of the current checkpoint can be released as well.
ReleaseRefusedLess(o) ==
    LET r == retention[operations[o].checkpoint]
    IN  ~Resuming(o) /\ (Stale(o) \/ ~Present(r, operations[o].authority))

ReleaseRefused(o) ==
    LET r == retention[operations[o].checkpoint]
    IN  \/ ~Resuming(o) /\ (Stale(o) \/ ~Present(r, operations[o].authority))
        \/ /\ operations[o].authority = "lineage" /\ r.lineage
           /\ operations[o].checkpoint = current

RefuseRelease(o) ==
    /\ Pending(o, "release") /\ ReleaseRefused(o)
    /\ Becomes(o, "refused")
    /\ UNCHANGED <<current, retention, debts, home, store, finishing, faults>>

\* Another authority still needs the checkpoint.
ReleaseOne(o) ==
    LET c == operations[o].checkpoint
        a == operations[o].authority
    IN  /\ Pending(o, "release") /\ ~ReleaseRefused(o)
        /\ ~Resuming(o) /\ RetainedWithout(retention[c], a)
        /\ retention' = [retention EXCEPT ![c] = Dropped(@, a)]
        /\ Becomes(o, "done")
        /\ UNCHANGED <<current, debts, home, store, finishing, faults>>

\* The last authority goes: the grace period starts, the store detaches.
ReleaseLast(o) ==
    LET c == operations[o].checkpoint
        a == operations[o].authority
        r == IF Resuming(o) THEN retention[c]
             ELSE [Dropped(retention[c], a) EXCEPT !.grace = "running", !.pending = o]
        m == Moved(o, c, "prepared")
        Answered == retention' = [retention EXCEPT ![c] = [r EXCEPT !.pending = 0]]
                    /\ Becomes(o, "done")
        Doubtful == retention' = [retention EXCEPT ![c] = r] /\ Becomes(o, "doubtful")
    IN  /\ Pending(o, "release") /\ ~ReleaseRefused(o)
        /\ Resuming(o) \/ ~RetainedWithout(retention[c], a)
        /\ \/ o \in mem.moved /\ Answered /\ UNCHANGED <<mem, disk, faults>>
           \/ o \notin mem.moved /\ Movable(c) /\ Answered /\ Save(m)
           \/ o \notin mem.moved /\ Movable(c) /\ Doubtful /\ FailToSave(m)
           \/ o \notin mem.moved /\ ~Movable(c) /\ Doubtful /\ UNCHANGED <<mem, disk, faults>>
        /\ UNCHANGED <<current, debts, home, files, finishing>>

-----------------------------------------------------------------------------
AttachRefused(o) ==
    LET r == retention[operations[o].checkpoint]
    IN  Stale(o) \/ r.reclaimed \/ r.pin = "expired"

RefuseAttach(o) ==
    /\ Pending(o, "attach") /\ AttachRefused(o)
    /\ Becomes(o, "refused")
    /\ UNCHANGED <<current, retention, debts, home, store, finishing, faults>>

\* The store's part, when nobody needed the checkpoint any more: references
\* are attached only to payloads that verify.
Reattach(o, c, Attached) ==
    LET m == Moved(o, c, "attached")
        bad == [mem EXCEPT !.quarantined = @ \cup {home[c]}]
        Declined == Becomes(o, "refused") /\ UNCHANGED retention
    IN  \/ o \in mem.moved /\ Attached /\ UNCHANGED <<mem, disk, faults>>
        \/ o \notin mem.moved /\ ~Movable(c) /\ Declined /\ UNCHANGED <<mem, disk, faults>>
        \/ o \notin mem.moved /\ Movable(c) /\ home[c] \notin files /\ Declined
           /\ (Save(bad) \/ FailToSave(bad))
        \/ o \notin mem.moved /\ Movable(c) /\ home[c] \in files /\ Attached /\ Save(m)
        \/ o \notin mem.moved /\ Movable(c) /\ home[c] \in files /\ FailToSave(m)
           /\ Becomes(o, "doubtful") /\ UNCHANGED retention

Attach(o) ==
    LET c == operations[o].checkpoint
        r == retention[c]
        added == IF r.pin = "active" THEN [r EXCEPT !.grace = "none"]
                 ELSE [r EXCEPT !.pin = "active", !.generation = @ + 1, !.pending = 0,
                                !.grace = "none"]
        Attached == retention' = [retention EXCEPT ![c] = added] /\ Becomes(o, "done")
    IN  /\ Pending(o, "attach") /\ ~AttachRefused(o)
        /\ IF Retained(r) THEN Attached /\ UNCHANGED <<mem, disk, faults>>
                          ELSE Reattach(o, c, Attached)
        /\ UNCHANGED <<current, debts, home, files, finishing>>

-----------------------------------------------------------------------------
\* Variant: the content may still be another checkpoint's.
BlockedForOwn(c) == mem.references[c] = "attached" \/ c \in mem.leases

\* What keeps the store from deleting a checkpoint's content: its own
\* reference, another one to the same content, a materialization, quarantine.
Blocked(c) ==
    \/ mem.references[c] = "attached"
    \/ /\ home[c] \in mem.contents
       /\ \/ home[c] \in mem.quarantined
          \/ \E d \in Checkpoints : home[d] = home[c] /\ mem.references[d] = "attached"
          \/ \E d \in mem.leases : home[d] = home[c]

WithoutContent(m, c) ==
    IF home[c] \notin m.contents THEN m
    ELSE [m EXCEPT !.contents = @ \ {home[c]},
                   !.references[c] = "none",
                   !.shared[Payload[c]] = IF @ = home[c] THEN 0 ELSE @]

\* ReclaimCheckpointContent; the answer goes to Told.
StoreReclaims(o, c, Told(_), Doubtful) ==
    LET kept == [mem EXCEPT !.reclaims[o] = "retained"]
        gone == [WithoutContent(mem, c) EXCEPT !.reclaims[o] = "gone"]
        remaining == IF home[c] \in mem.contents THEN files \ {home[c]} ELSE files
    IN  \/ /\ mem.reclaims[o] # "none"
           /\ Told(mem.reclaims[o]) /\ UNCHANGED <<mem, disk, files, faults>>
        \/ /\ mem.reclaims[o] = "none" /\ Blocked(c)
           /\ UNCHANGED files
           /\ \/ Told("retained") /\ Save(kept)
              \/ Doubtful /\ FailToSave(kept)
        \/ /\ mem.reclaims[o] = "none" /\ ~Blocked(c)
           /\ \/ Told("gone") /\ Save(gone) /\ files' = remaining
              \/ Doubtful /\ FailToSave(gone) /\ files' = remaining
              \/ Doubtful /\ Fault /\ UNCHANGED <<mem, disk, files>>    \* before the deletion
              \/ /\ Doubtful /\ Fault /\ files' = remaining             \* a crash after it
                 /\ mem' = disk /\ UNCHANGED disk

RefuseReclaim(o) ==
    /\ \/ Pending(o, "reclaim") /\ Stale(o)
       \/ /\ Pending(o, "retry")
          /\ LET debt == debts[operations[o].checkpoint]
             IN  \/ operations[o].fence # current \/ debt.state # "open"
                 \/ operations[debt.by].generation # retention[operations[o].checkpoint].generation
    /\ Becomes(o, "refused")
    /\ UNCHANGED <<current, retention, debts, home, store, finishing, faults>>

MustStay(r) == Retained(r) \/ r.grace # "passed"

\* ReclaimCheckpoint on a checkpoint that is needed or in its grace period.
DeclineReclaim(o) ==
    /\ Pending(o, "reclaim") /\ ~Stale(o)
    /\ MustStay(retention[operations[o].checkpoint])
    /\ Becomes(o, "done")
    /\ UNCHANGED <<current, retention, debts, home, store, finishing, faults>>

Reclaim(o) ==
    LET c == operations[o].checkpoint
        by == IF debts[c].state = "none" THEN o ELSE debts[c].by
        Told(answer) ==
            /\ Becomes(o, "done")
            /\ debts' = [debts EXCEPT ![c] = [state |-> IF @.state = "gone" THEN "gone" ELSE answer,
                                              by |-> by]]
            /\ retention' = IF answer = "gone" THEN [retention EXCEPT ![c].reclaimed = TRUE]
                                               ELSE retention
        Doubtful ==
            /\ Becomes(o, "doubtful")
            /\ debts' = [debts EXCEPT ![c] = [state |-> IF @.state = "gone" THEN "gone" ELSE "open",
                                              by |-> by]]
            /\ UNCHANGED retention
    IN  /\ Pending(o, "reclaim") /\ ~Stale(o) /\ ~MustStay(retention[c])
        /\ debts[c].state # "retained"
        /\ StoreReclaims(o, c, Told, Doubtful)
        /\ UNCHANGED <<current, home, finishing>>

\* ReconcileCleanupDebt: the debt's own operation is answered with it.
RetryDebt(o) ==
    LET c == operations[o].checkpoint
        by == debts[c].by
        Told(answer) ==
            /\ debts' = [debts EXCEPT ![c].state = answer]
            /\ operations' = [operations EXCEPT ![o].state = "done", ![by].state = "done"]
            /\ retention' = IF answer = "gone" THEN [retention EXCEPT ![c].reclaimed = TRUE]
                                               ELSE retention
        Again == Becomes(o, "done") /\ UNCHANGED <<debts, retention>>
    IN  /\ Pending(o, "retry") /\ operations[o].fence = current
        /\ debts[c].state = "open" /\ operations[by].generation = retention[c].generation
        /\ IF MustStay(retention[c])
           THEN Told("retained") /\ UNCHANGED <<store, faults>>
           ELSE StoreReclaims(o, c, Told, Again)
        /\ UNCHANGED <<current, home, finishing>>

-----------------------------------------------------------------------------
\* Materialize verifies and copies the current checkpoint's content.
Materialize ==
    /\ MayAsk /\ current > 0 /\ current \notin mem.leases
    /\ Retained(retention[current]) /\ mem.references[current] = "attached"
    /\ home[current] \in mem.contents \ mem.quarantined /\ home[current] \in files
    /\ Save([mem EXCEPT !.leases = @ \cup {current}])
    /\ UNCHANGED <<core, files, finishing>>

ExpireMaterialization(c) ==
    /\ c \in mem.leases
    /\ Save([mem EXCEPT !.leases = @ \ {c}])
    /\ UNCHANGED <<core, files, finishing>>

PassGrace(c) ==
    /\ retention[c].grace = "running"
    /\ retention' = [retention EXCEPT ![c].grace = "passed"]
    /\ UNCHANGED <<current, debts, operations, home, store, finishing, faults>>

ExpirePin(c) ==
    /\ retention[c].pin = "active"
    /\ retention' = [retention EXCEPT ![c].pin = "expired"]
    /\ UNCHANGED <<current, debts, operations, home, store, finishing, faults>>

Perform(o) ==
    \/ RefuseRelease(o) \/ ReleaseOne(o) \/ ReleaseLast(o)
    \/ RefuseAttach(o) \/ Attach(o)
    \/ RefuseReclaim(o) \/ DeclineReclaim(o) \/ Reclaim(o) \/ RetryDebt(o)

Finish(f) == ReadCompletion(f) \/ Activate(f) \/ CompleteCommit(f)

Next ==
    \/ Commit
    \/ \E f \in Finishers : Finish(f)
    \/ \E o \in Operations : Ask(o) \/ Perform(o)
    \/ Materialize
    \/ \E c \in Checkpoints : ExpireMaterialization(c) \/ PassGrace(c) \/ ExpirePin(c)
    \/ Restart

Spec == Init /\ [][Next]_vars

(***************************************************************************)
(* A reconciler visits every operation that is not terminal and every      *)
(* commit that is not complete.  Nobody has to ask, to commit, to          *)
(* materialize or to fail; time need not pass.                             *)
(***************************************************************************)
Fairness ==
    /\ \A o \in Operations : WF_vars(Perform(o))
    /\ \A f \in Finishers : WF_vars(Finish(f))

FairSpec == Spec /\ Fairness

-----------------------------------------------------------------------------
(* Every variable keeps its type.                                          *)
TypeOK ==
    /\ current \in 0..Last
    /\ retention \in [Checkpoints -> Retention]
    /\ debts \in [Checkpoints -> [state : {"none", "open", "retained", "gone"},
                                  by : Operations \cup {0}]]
    /\ operations \in [Operations -> Operation]
    /\ home \in [Checkpoints -> Checkpoints \cup {0}]
    /\ mem \in Records /\ disk \in Records
    /\ files \subseteq Checkpoints
    /\ finishing \in [Finishers -> [checkpoint : Checkpoints \cup {0},
                                    stage : {"idle", "read", "activated"}]]
    /\ faults \in 0..MaxFaults

(* A checkpoint somebody needs can be recovered: after its commit was      *)
(* completed, its reference is attached and its content is on record and   *)
(* on disk, in this process and in the next one.                           *)
ContentKept ==
    \A c \in Committed : c \in disk.completed /\ Retained(retention[c]) =>
        /\ mem.references[c] = "attached" /\ disk.references[c] = "attached"
        /\ home[c] \in (mem.contents \cap disk.contents \cap files) \ mem.quarantined

(* The records are well formed and keep what somebody needs                *)
(* (ReclaimCheckpointContent, activateCheckpoint).                         *)
StoreInvariant == TypeOK /\ ContentKept

(* Recovery never loses its footing: the current checkpoint keeps its      *)
(* lineage authority, and what was reclaimed is needed by nobody.          *)
LineageKept ==
    /\ current # 0 => retention[current].lineage
    /\ \A c \in Checkpoints : retention[c].reclaimed => ~Retained(retention[c])

(* The grace period belongs to the payload: it is deleted only when every  *)
(* checkpoint that names it was released and has been so for the period.   *)
GraceIsKept ==
    [][\A w \in files \ files' : \A c \in Committed :
          home[c] = w => ~MustStay(retention[c])]_vars

(* Every operation comes to an end, whatever was lost on the way, but for  *)
(* a reclamation whose debt was closed as retained: that one waits for     *)
(* ever, the debt being closed for good.                                   *)
OperationsEnd ==
    \A o \in Operations :
        operations[o].state = "asked" ~>
            \/ operations[o].state \in {"done", "refused"}
            \/ operations[o].kind = "reclaim" /\ debts[operations[o].checkpoint].state = "retained"
=============================================================================
