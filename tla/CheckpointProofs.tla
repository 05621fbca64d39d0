--------------------------- MODULE CheckpointProofs ---------------------------
(***************************************************************************)
(* Three results, for any number of checkpoints, operations, payloads,     *)
(* callers and faults.  The current checkpoint keeps its lineage and a     *)
(* reclaimed checkpoint is needed by nobody, and the records of the store  *)
(* are well formed, whatever the store answers or loses.  What somebody    *)
(* needs can be recovered, where operations wait for the commits to be     *)
(* complete and no write of the state file is lost.                        *)
(***************************************************************************)
EXTENDS CheckpointStore, TLAPS

(***************************************************************************)
(* LineageKept is not inductive.  A commit makes a checkpoint current that *)
(* must not have been reclaimed before it existed, and a reclamation must  *)
(* be of a checkpoint that exists: hence what an operation in the journal  *)
(* is about, and the state of checkpoints still to come.                   *)
(***************************************************************************)
LineageTypes ==
    /\ current \in 0..Last
    /\ retention \in [Checkpoints -> Retention]
    /\ operations \in [Operations -> Operation]

AboutCommitted ==
    \A o \in Operations : operations[o].kind # "none" => operations[o].checkpoint \in Committed

FutureUntouched ==
    \A c \in Checkpoints : c > current => ~retention[c].reclaimed

LineageInv == LineageTypes /\ AboutCommitted /\ FutureUntouched /\ LineageKept

(* The first state satisfies the invariant.                                *)
LEMMA LineageInit == Init => LineageInv
<1> SUFFICES ASSUME Init PROVE LineageInv
    OBVIOUS
<1>1. LineageTypes
    BY CheckpointStoreAssumption DEF Init, LineageTypes, Retention, Operation, Checkpoints, Operations
<1>2. AboutCommitted
    BY DEF Init, AboutCommitted
<1>3. FutureUntouched /\ LineageKept
    BY DEF Init, FutureUntouched, LineageKept, Retained, Checkpoints
<1> QED
    BY <1>1, <1>2, <1>3 DEF LineageInv

(***************************************************************************)
(* What an operation of the journal may do to the core's state: it changes *)
(* one checkpoint's retention, and the current checkpoint is still there.  *)
(***************************************************************************)
Harmless(c, r) ==
    /\ r \in Retention
    /\ c = current => r.lineage
    /\ r.reclaimed => ~Retained(r)

(* A step that replaces the retention of one committed checkpoint by a     *)
(* harmless one, and otherwise only ends operations, keeps the invariant.  *)
LEMMA HarmlessStep ==
    ASSUME LineageInv, NEW c \in Committed, NEW r, Harmless(c, r),
           retention' = [retention EXCEPT ![c] = r],
           current' = current,
           operations' \in [Operations -> Operation],
           \A o \in Operations : operations'[o].checkpoint = operations[o].checkpoint
                                 /\ operations'[o].kind = operations[o].kind
    PROVE  LineageInv'
<1> USE DEF LineageInv, LineageTypes
<1>1. c \in Checkpoints /\ c <= current
    BY CheckpointStoreAssumption DEF Committed, Checkpoints
<1>2. LineageTypes'
    BY <1>1 DEF Harmless
<1>3. AboutCommitted'
    BY DEF AboutCommitted, Committed
<1>4. FutureUntouched'
    BY <1>1 DEF FutureUntouched, Checkpoints
<1>5. LineageKept'
    BY <1>1 DEF LineageKept, Harmless, Retained, Checkpoints
<1> QED
    BY <1>2, <1>3, <1>4, <1>5

(* An operation that changes the journal only.                             *)
LEMMA JournalStep ==
    ASSUME LineageInv, UNCHANGED <<current, retention>>,
           operations' \in [Operations -> Operation],
           \A o \in Operations : operations'[o].checkpoint = operations[o].checkpoint
                                 /\ operations'[o].kind = operations[o].kind
    PROVE  LineageInv'
    BY DEF LineageInv, LineageTypes, AboutCommitted, FutureUntouched, LineageKept, Committed, Retained

(* Ending or suspending an operation leaves the rest of the journal alone. *)
LEMMA BecomesKeeps ==
    ASSUME LineageInv, NEW o \in Operations, NEW s \in {"doubtful", "done", "refused"},
           Becomes(o, s)
    PROVE  /\ operations' \in [Operations -> Operation]
           /\ \A p \in Operations : operations'[p].checkpoint = operations[p].checkpoint
                                    /\ operations'[p].kind = operations[p].kind
    BY DEF LineageInv, LineageTypes, Becomes, Operation

(* A commit makes a fresh checkpoint current and gives it its lineage.     *)
LEMMA CommitKeeps == LineageInv /\ Commit => LineageInv'
<1> SUFFICES ASSUME LineageInv, Commit PROVE LineageInv'
    OBVIOUS
<1> USE DEF LineageInv, LineageTypes
<1>1. /\ current' = current + 1 /\ current < Last /\ operations' = operations
      /\ retention' = [retention EXCEPT ![current + 1].generation = 1, ![current + 1].lineage = TRUE]
    BY DEF Commit
<1>2. current + 1 \in Checkpoints
    BY <1>1, CheckpointStoreAssumption DEF Checkpoints
<1>3. LineageTypes'
    BY <1>1, <1>2, CheckpointStoreAssumption DEF Retention
<1>4. AboutCommitted'
    BY <1>1 DEF AboutCommitted, Committed
<1>5. FutureUntouched'
    BY <1>1, <1>2, CheckpointStoreAssumption DEF FutureUntouched, Checkpoints
<1>6. LineageKept'
    BY <1>1, <1>2, CheckpointStoreAssumption DEF FutureUntouched, LineageKept, Retained, Checkpoints, Retention
<1> QED
    BY <1>3, <1>4, <1>5, <1>6

(* A caller can ask for operations on committed checkpoints only.          *)
LEMMA AskKeeps == \A o \in Operations : LineageInv /\ Ask(o) => LineageInv'
<1> SUFFICES ASSUME NEW o \in Operations, LineageInv, Ask(o) PROVE LineageInv'
    OBVIOUS
<1> USE DEF LineageInv, LineageTypes
<1>1. PICK c \in Committed, kind \in {"release", "attach", "reclaim", "retry"}, a \in Authorities :
         operations' = [operations EXCEPT ![o] =
              [kind |-> kind, checkpoint |-> c, authority |-> a,
               generation |-> retention[c].generation, fence |-> current, state |-> "asked"]]
    BY DEF Ask
<1>2. c \in Checkpoints /\ current \in Checkpoints
    BY CheckpointStoreAssumption DEF Committed, Checkpoints
<1>3. UNCHANGED <<current, retention>>
    BY DEF Ask
<1>4. LineageTypes'
    BY <1>1, <1>2, <1>3 DEF Operation, Retention, Authorities
<1>5. AboutCommitted'
    BY <1>1, <1>3 DEF AboutCommitted, Committed
<1> QED
    BY <1>3, <1>4, <1>5 DEF FutureUntouched, LineageKept, Retained

(* An operation the journal has is about a committed checkpoint.           *)
LEMMA PendingCommitted ==
    ASSUME LineageInv, NEW o \in Operations, NEW kind, Pending(o, kind), kind # "none"
    PROVE  /\ operations[o].checkpoint \in Committed
           /\ operations[o].checkpoint \in Checkpoints
           /\ retention[operations[o].checkpoint] \in Retention
    BY CheckpointStoreAssumption
    DEF LineageInv, LineageTypes, AboutCommitted, Pending, Committed, Checkpoints

(* Refusing an operation, or declining a reclamation, ends it and nothing  *)
(* else.                                                                   *)
LEMMA RefusalsKeep ==
    \A o \in Operations :
        LineageInv /\ (RefuseRelease(o) \/ RefuseAttach(o) \/ RefuseReclaim(o) \/ DeclineReclaim(o))
        => LineageInv'
<1> SUFFICES ASSUME NEW o \in Operations, LineageInv,
                    RefuseRelease(o) \/ RefuseAttach(o) \/ RefuseReclaim(o) \/ DeclineReclaim(o)
             PROVE  LineageInv'
    OBVIOUS
<1>1. UNCHANGED <<current, retention>> /\ (Becomes(o, "refused") \/ Becomes(o, "done"))
    BY DEF RefuseRelease, RefuseAttach, RefuseReclaim, DeclineReclaim
<1> QED
    BY <1>1, BecomesKeeps, JournalStep

(* What dropping an authority leaves of a retention record.                *)
LEMMA DroppedFields ==
    ASSUME NEW old \in Retention, NEW a
    PROVE  /\ Dropped(old, a) \in Retention
           /\ Dropped(old, a).reclaimed => old.reclaimed
           /\ Retained(Dropped(old, a)) => Retained(old)
           /\ a # "lineage" /\ old.lineage => Dropped(old, a).lineage
<1>1. old = [generation |-> old.generation, lineage |-> old.lineage, pin |-> old.pin,
             grace |-> old.grace, pending |-> old.pending, reclaimed |-> old.reclaimed]
    BY DEF Retention
<1>2. CASE a = "lineage"
  <2>1. Dropped(old, a) = [generation |-> old.generation + 1, lineage |-> FALSE, pin |-> old.pin,
                           grace |-> old.grace, pending |-> old.pending,
                           reclaimed |-> old.reclaimed]
      BY <1>1, <1>2 DEF Dropped
  <2>2. Dropped(old, a) \in Retention
      BY <2>1 DEF Retention
  <2> QED
      BY <1>2, <2>1, <2>2 DEF Retained
<1>3. CASE a # "lineage"
  <2>1. Dropped(old, a) = [generation |-> old.generation + 1, lineage |-> old.lineage,
                           pin |-> "none", grace |-> old.grace, pending |-> old.pending,
                           reclaimed |-> old.reclaimed]
      BY <1>1, <1>3 DEF Dropped
  <2>2. Dropped(old, a) \in Retention
      BY <2>1 DEF Retention
  <2> QED
      BY <1>3, <2>1, <2>2 DEF Retained
<1> QED
    BY <1>2, <1>3

(* Dropping an authority other than the lineage of the current checkpoint  *)
(* is harmless, however far the release gets.                              *)
LEMMA DroppedHarmless ==
    ASSUME LineageInv, NEW c \in Committed, NEW a, c \in Checkpoints,
           retention[c] \in Retention,
           ~(a = "lineage" /\ retention[c].lineage /\ c = current)
    PROVE  Harmless(c, Dropped(retention[c], a))
<1>1. c = current => retention[c].lineage
    BY CheckpointStoreAssumption DEF LineageInv, LineageTypes, LineageKept, Committed, Checkpoints
<1>2. retention[c].reclaimed => ~Retained(retention[c])
    BY DEF LineageInv, LineageKept
<1> QED
    BY <1>1, <1>2, DroppedFields DEF Harmless

(* A release that is not the last one.                                     *)
LEMMA ReleaseOneKeeps == \A o \in Operations : LineageInv /\ ReleaseOne(o) => LineageInv'
<1> SUFFICES ASSUME NEW o \in Operations, LineageInv, ReleaseOne(o) PROVE LineageInv'
    OBVIOUS
<1> DEFINE c == operations[o].checkpoint
           a == operations[o].authority
<1>1. /\ c \in Committed /\ c \in Checkpoints /\ retention[c] \in Retention
    BY PendingCommitted DEF ReleaseOne
<1>2. /\ retention' = [retention EXCEPT ![c] = Dropped(retention[c], a)]
      /\ Becomes(o, "done") /\ current' = current
    BY DEF ReleaseOne
<1>3. ~Resuming(o) /\ ~ReleaseRefused(o)
    BY DEF ReleaseOne
<1>4. ~(a = "lineage" /\ retention[c].lineage /\ c = current)
    BY <1>3 DEF ReleaseRefused
<1>5. Harmless(c, Dropped(retention[c], a))
    BY <1>1, <1>4, DroppedHarmless
<1> HIDE DEF c
<1>6. operations' \in [Operations -> Operation]
      /\ \A p \in Operations : operations'[p].checkpoint = operations[p].checkpoint
                               /\ operations'[p].kind = operations[p].kind
    BY <1>2, BecomesKeeps
<1> QED
    BY <1>1, <1>2, <1>5, <1>6, HarmlessStep

(* The marks of a release in progress do not matter to the lineage.        *)
LEMMA MarksHarmless ==
    ASSUME NEW c, NEW r, Harmless(c, r), NEW o \in Operations \cup {0}
    PROVE  /\ Harmless(c, [r EXCEPT !.pending = o])
           /\ Harmless(c, [r EXCEPT !.grace = "running", !.pending = o])
           /\ Harmless(c, [r EXCEPT !.grace = "none"])
           /\ Harmless(c, [r EXCEPT !.grace = "passed"])
    BY DEF Harmless, Retained, Retention

(* What the invariant says of one committed checkpoint.                    *)
LEMMA StillHarmless ==
    ASSUME LineageInv, NEW c \in Committed, c \in Checkpoints
    PROVE  Harmless(c, retention[c])
    BY CheckpointStoreAssumption
    DEF LineageInv, LineageTypes, LineageKept, Harmless, Committed, Checkpoints

(* The last release, interrupted or not.                                   *)
LEMMA ReleaseLastKeeps == \A o \in Operations : LineageInv /\ ReleaseLast(o) => LineageInv'
<1> SUFFICES ASSUME NEW o \in Operations, LineageInv, ReleaseLast(o) PROVE LineageInv'
    OBVIOUS
<1> DEFINE c == operations[o].checkpoint
           a == operations[o].authority
           r == IF Resuming(o) THEN retention[c]
                ELSE [Dropped(retention[c], a) EXCEPT !.grace = "running", !.pending = o]
<1>1. /\ c \in Committed /\ c \in Checkpoints /\ retention[c] \in Retention
    BY PendingCommitted DEF ReleaseLast
<1>2. /\ current' = current
      /\ \/ retention' = [retention EXCEPT ![c] = [r EXCEPT !.pending = 0]] /\ Becomes(o, "done")
         \/ retention' = [retention EXCEPT ![c] = r] /\ Becomes(o, "doubtful")
    BY DEF ReleaseLast
<1>3. ~(a = "lineage" /\ retention[c].lineage /\ c = current)
    BY DEF ReleaseLast, ReleaseRefused
<1>4. Harmless(c, r)
  <2>1. Harmless(c, retention[c])
      BY <1>1, StillHarmless
  <2>2. Harmless(c, Dropped(retention[c], a))
      BY <1>1, <1>3, DroppedHarmless
  <2>3. Harmless(c, [Dropped(retention[c], a) EXCEPT !.grace = "running", !.pending = o])
      BY <2>2, MarksHarmless
  <2> QED
      BY <2>1, <2>3
<1> HIDE DEF c, a, r
<1>5. Harmless(c, [r EXCEPT !.pending = 0])
    BY <1>4, MarksHarmless
<1>6. operations' \in [Operations -> Operation]
      /\ \A p \in Operations : operations'[p].checkpoint = operations[p].checkpoint
                               /\ operations'[p].kind = operations[p].kind
    BY <1>2, BecomesKeeps
<1> QED
    BY <1>1, <1>2, <1>4, <1>5, <1>6, HarmlessStep

(* An authority is added to a checkpoint that was not reclaimed.           *)
LEMMA AttachKeeps == \A o \in Operations : LineageInv /\ Attach(o) => LineageInv'
<1> SUFFICES ASSUME NEW o \in Operations, LineageInv, Attach(o) PROVE LineageInv'
    OBVIOUS
<1> DEFINE c == operations[o].checkpoint
           old == retention[c]
           added == IF old.pin = "active" THEN [old EXCEPT !.grace = "none"]
                    ELSE [old EXCEPT !.pin = "active", !.generation = @ + 1, !.pending = 0,
                                     !.grace = "none"]
<1>1. /\ c \in Committed /\ c \in Checkpoints /\ old \in Retention
    BY PendingCommitted DEF Attach
<1>2. /\ current' = current
      /\ \/ retention' = [retention EXCEPT ![c] = added] /\ Becomes(o, "done")
         \/ retention' = retention /\ (Becomes(o, "refused") \/ Becomes(o, "doubtful"))
    BY DEF Attach, Reattach
<1>3. ~old.reclaimed
    BY DEF Attach, AttachRefused
<1>4. Harmless(c, old)
    BY <1>1, StillHarmless
<1> HIDE DEF old, c
<1>5. Harmless(c, added)
  <2>1. CASE old.pin = "active"
      BY <1>4, <2>1, MarksHarmless
  <2>2. CASE old.pin # "active"
    <3>1. old = [generation |-> old.generation, lineage |-> old.lineage, pin |-> old.pin,
                 grace |-> old.grace, pending |-> old.pending, reclaimed |-> old.reclaimed]
        BY <1>1 DEF Retention
    <3>2. added = [generation |-> old.generation + 1, lineage |-> old.lineage, pin |-> "active",
                   grace |-> "none", pending |-> 0, reclaimed |-> old.reclaimed]
        BY <2>2, <3>1
    <3>3. added \in Retention
        BY <1>1, <3>2 DEF Retention
    <3> QED
        BY <1>3, <1>4, <3>2, <3>3 DEF Harmless
  <2> QED
      BY <2>1, <2>2
<1> HIDE DEF added
<1>6. operations' \in [Operations -> Operation]
      /\ \A p \in Operations : operations'[p].checkpoint = operations[p].checkpoint
                               /\ operations'[p].kind = operations[p].kind
    BY <1>2, BecomesKeeps DEF c
<1>7. CASE retention' = retention
    BY <1>2, <1>6, <1>7, JournalStep
<1>8. CASE retention' = [retention EXCEPT ![c] = added]
    BY <1>1, <1>2, <1>5, <1>6, <1>8, HarmlessStep
<1> QED
    BY <1>2, <1>7, <1>8

(* A checkpoint nobody needs may be marked reclaimed: it is not current.   *)
LEMMA ReclaimedHarmless ==
    ASSUME LineageInv, NEW c \in Committed, c \in Checkpoints, ~MustStay(retention[c])
    PROVE  Harmless(c, [retention[c] EXCEPT !.reclaimed = TRUE])
<1> DEFINE old == retention[c]
           gone == [old EXCEPT !.reclaimed = TRUE]
<1>1. Harmless(c, old) /\ ~Retained(old)
    BY StillHarmless DEF MustStay
<1> HIDE DEF old
<1>2. old \in Retention
    BY <1>1 DEF Harmless
<1>3. gone.lineage = old.lineage /\ gone.pin = old.pin
    BY <1>2 DEF Retention
<1>4. gone \in Retention
    BY <1>2 DEF Retention
<1>5. c = current => gone.lineage
    BY <1>1, <1>3 DEF Harmless
<1>6. ~Retained(gone)
    BY <1>1, <1>3 DEF Retained
<1> QED
    BY <1>4, <1>5, <1>6 DEF Harmless, old

(* A reclamation, whatever the store answers.                              *)
LEMMA ReclaimKeeps == \A o \in Operations : LineageInv /\ Reclaim(o) => LineageInv'
<1> SUFFICES ASSUME NEW o \in Operations, LineageInv, Reclaim(o) PROVE LineageInv'
    OBVIOUS
<1> DEFINE c == operations[o].checkpoint
           gone == [retention[c] EXCEPT !.reclaimed = TRUE]
<1>1. /\ c \in Committed /\ c \in Checkpoints /\ retention[c] \in Retention
    BY PendingCommitted DEF Reclaim
<1>2. /\ current' = current /\ ~MustStay(retention[c])
      /\ Becomes(o, "done") \/ Becomes(o, "doubtful")
      /\ retention' = [retention EXCEPT ![c].reclaimed = TRUE] \/ retention' = retention
    BY DEF Reclaim, StoreReclaims
<1>3. Harmless(c, gone)
    BY <1>1, <1>2, ReclaimedHarmless
<1>4. operations' \in [Operations -> Operation]
      /\ \A p \in Operations : operations'[p].checkpoint = operations[p].checkpoint
                               /\ operations'[p].kind = operations[p].kind
    BY <1>2, BecomesKeeps
<1>5. CASE retention' = retention
    BY <1>2, <1>4, <1>5, JournalStep
<1>6. CASE retention' = [retention EXCEPT ![c].reclaimed = TRUE]
  <2>1. retention' = [retention EXCEPT ![c] = gone]
      BY <1>6
  <2> HIDE DEF c, gone
  <2> QED
      BY <1>1, <1>2, <1>3, <1>4, <2>1, HarmlessStep
<1> QED
    BY <1>2, <1>5, <1>6

(* A retry of a cleanup debt answers the debt's own operation as well.     *)
LEMMA RetryKeeps == \A o \in Operations : LineageInv /\ RetryDebt(o) => LineageInv'
<1> SUFFICES ASSUME NEW o \in Operations, LineageInv, RetryDebt(o) PROVE LineageInv'
    OBVIOUS
<1> DEFINE c == operations[o].checkpoint
           by == debts[c].by
           gone == [retention[c] EXCEPT !.reclaimed = TRUE]
<1>1. /\ c \in Committed /\ c \in Checkpoints /\ retention[c] \in Retention
    BY PendingCommitted DEF RetryDebt
<1>2. /\ current' = current
      /\ \/ operations' = [operations EXCEPT ![o].state = "done", ![by].state = "done"]
         \/ Becomes(o, "done")
      /\ \/ ~MustStay(retention[c]) /\ retention' = [retention EXCEPT ![c].reclaimed = TRUE]
         \/ retention' = retention
  <2>1. CASE MustStay(retention[c])
      BY <2>1 DEF RetryDebt
  <2>2. CASE ~MustStay(retention[c])
      BY <2>2 DEF RetryDebt, StoreReclaims
  <2> QED
      BY <2>1, <2>2
<1>3. operations' \in [Operations -> Operation]
      /\ \A p \in Operations : operations'[p].checkpoint = operations[p].checkpoint
                               /\ operations'[p].kind = operations[p].kind
  <2>1. CASE Becomes(o, "done")
      BY <2>1, BecomesKeeps
  <2>2. CASE operations' = [operations EXCEPT ![o].state = "done", ![by].state = "done"]
    <3> DEFINE mid == [operations EXCEPT ![o].state = "done"]
    <3>1. /\ mid \in [Operations -> Operation]
          /\ \A p \in Operations : mid[p].checkpoint = operations[p].checkpoint
                                   /\ mid[p].kind = operations[p].kind
        BY DEF LineageInv, LineageTypes, Operation
    <3>2. operations' = [mid EXCEPT ![by].state = "done"]
        BY <2>2
    <3> HIDE DEF mid, by
    <3>3. CASE by \in Operations
        BY <3>1, <3>2, <3>3 DEF Operation
    <3>4. CASE by \notin Operations
      <4>1. operations' = mid
          BY <3>1, <3>2, <3>4
      <4> QED
          BY <3>1, <4>1
    <3> QED
        BY <3>3, <3>4
  <2> QED
      BY <1>2, <2>1, <2>2
<1>4. CASE retention' = retention
    BY <1>2, <1>3, <1>4, JournalStep
<1>5. CASE ~MustStay(retention[c]) /\ retention' = [retention EXCEPT ![c].reclaimed = TRUE]
  <2>1. Harmless(c, gone)
      BY <1>1, <1>5, ReclaimedHarmless
  <2>2. retention' = [retention EXCEPT ![c] = gone]
      BY <1>5
  <2> HIDE DEF c, gone
  <2> QED
      BY <1>1, <1>2, <1>3, <2>1, <2>2, HarmlessStep
<1> QED
    BY <1>2, <1>4, <1>5

(* The grace period passes.                                                *)
LEMMA GraceKeeps == \A c \in Checkpoints : LineageInv /\ PassGrace(c) => LineageInv'
<1> SUFFICES ASSUME NEW c \in Checkpoints, LineageInv, PassGrace(c) PROVE LineageInv'
    OBVIOUS
<1>1. /\ UNCHANGED <<current, operations>>
      /\ retention' = [retention EXCEPT ![c].grace = "passed"]
    BY DEF PassGrace
<1>2. /\ retention' \in [Checkpoints -> Retention]
      /\ \A d \in Checkpoints : /\ retention'[d].lineage = retention[d].lineage
                                /\ retention'[d].pin = retention[d].pin
                                /\ retention'[d].reclaimed = retention[d].reclaimed
    BY <1>1 DEF LineageInv, LineageTypes, Retention
<1> QED
    BY <1>1, <1>2, CheckpointStoreAssumption
    DEF LineageInv, LineageTypes, AboutCommitted, FutureUntouched, LineageKept, Committed,
        Retained, Checkpoints

(* A pin expires.                                                          *)
LEMMA PinKeeps == \A c \in Checkpoints : LineageInv /\ ExpirePin(c) => LineageInv'
<1> SUFFICES ASSUME NEW c \in Checkpoints, LineageInv, ExpirePin(c) PROVE LineageInv'
    OBVIOUS
<1>1. /\ UNCHANGED <<current, operations>>
      /\ retention' = [retention EXCEPT ![c].pin = "expired"]
    BY DEF ExpirePin
<1>2. /\ retention' \in [Checkpoints -> Retention]
      /\ \A d \in Checkpoints :
           /\ retention'[d].lineage = retention[d].lineage
           /\ retention'[d].pin = "active" => retention[d].pin = "active"
           /\ retention'[d].reclaimed = retention[d].reclaimed
    BY <1>1 DEF LineageInv, LineageTypes, Retention
<1> QED
    BY <1>1, <1>2, CheckpointStoreAssumption
    DEF LineageInv, LineageTypes, AboutCommitted, FutureUntouched, LineageKept, Committed,
        Retained, Checkpoints

(* Every step keeps the invariant; the store's own steps do not touch it.  *)
LEMMA LineageStep == LineageInv /\ [Next]_vars => LineageInv'
<1> SUFFICES ASSUME LineageInv, [Next]_vars PROVE LineageInv'
    OBVIOUS
<1>1. CASE UNCHANGED <<current, retention, operations>>
    BY <1>1
    DEF LineageInv, LineageTypes, AboutCommitted, FutureUntouched, LineageKept, Committed, Retained
<1>2. CASE Commit
    BY <1>2, CommitKeeps
<1>3. ASSUME NEW o \in Operations, Ask(o)
      PROVE  LineageInv'
    BY <1>3, AskKeeps
<1>4. ASSUME NEW o \in Operations, Perform(o)
      PROVE  LineageInv'
    BY <1>4, RefusalsKeep, ReleaseOneKeeps, ReleaseLastKeeps, AttachKeeps, ReclaimKeeps, RetryKeeps
    DEF Perform
<1>5. ASSUME NEW c \in Checkpoints, PassGrace(c) \/ ExpirePin(c)
      PROVE  LineageInv'
    BY <1>5, GraceKeeps, PinKeeps
<1>6. ASSUME NEW f \in Finishers, Finish(f)
      PROVE  UNCHANGED <<current, retention, operations>>
    BY <1>6 DEF Finish, ReadCompletion, Activate, CompleteCommit, core
<1>7. ASSUME NEW c \in Checkpoints, ExpireMaterialization(c)
      PROVE  UNCHANGED <<current, retention, operations>>
    BY <1>7 DEF ExpireMaterialization, core
<1>8. Materialize \/ Restart => UNCHANGED <<current, retention, operations>>
    BY DEF Materialize, Restart, core
<1>9. UNCHANGED vars => UNCHANGED <<current, retention, operations>>
    BY DEF vars, core
<1> QED
    BY <1>1, <1>2, <1>3, <1>4, <1>5, <1>6, <1>7, <1>8, <1>9 DEF Next

(* At every moment the current checkpoint has its lineage authority, and   *)
(* what was reclaimed is needed by nobody: retention.go's refusal to       *)
(* release the lineage of the current checkpoint, the refusal to attach to *)
(* a reclaimed one and the blockers of a reclamation are enough together,  *)
(* whatever the store loses and however operations are interrupted.        *)
THEOREM LineageAlwaysKept == Spec => []LineageKept
<1>1. LineageInv => LineageKept
    BY DEF LineageInv
<1> QED
    BY <1>1, LineageInit, LineageStep, PTL DEF Spec

-----------------------------------------------------------------------------
(***************************************************************************)
(* What somebody needs can be recovered.  A checkpoint's content is kept   *)
(* by the references attached to it, and the lifecycle's record of who     *)
(* needs it and the store's references move at different moments: between  *)
(* a commit and its completion, between a release or an attachment that    *)
(* the store was not seen to carry out and its retry.  The invariant says  *)
(* what each of these moments may look like.                               *)
(***************************************************************************)

\* The state file has what the memory has; a completion may be in it already
\* although the memory took it back.
DiskAgrees ==
    /\ mem.contents = disk.contents /\ mem.quarantined = disk.quarantined
    /\ mem.references = disk.references /\ mem.moved = disk.moved
    /\ mem.completed \subseteq disk.completed /\ disk.completed \subseteq Committed

\* Contents are of commits that were made, and what was found missing is not
\* on disk.
ContentsCommitted ==
    /\ mem.contents \subseteq Committed /\ mem.quarantined \subseteq Committed
    /\ mem.quarantined \cap files = {}
    /\ \A c \in Committed : home[c] \in Committed
    /\ \A c \in Checkpoints : c > current => retention[c].pending = 0

\* What is being completed was committed.
FinishingCommitted ==
    \A f \in Finishers : finishing[f].stage # "idle" => finishing[f].checkpoint \in Committed

\* Only the last commit can be incomplete, and its completion has attached
\* its reference before it records it.
LastIncomplete ==
    /\ \A c \in Committed : c \notin mem.completed => c = current
    /\ \A f \in Finishers :
          finishing[f].stage = "activated" /\ finishing[f].checkpoint \notin mem.completed =>
              mem.references[finishing[f].checkpoint] = "attached"

\* An operation that is not stale was asked for when the commits were complete.
JournalFits ==
    /\ mem.moved \subseteq {o \in Operations : operations[o].state # "none"}
    /\ \A o \in Operations :
          operations[o].kind # "none" =>
              /\ operations[o].fence <= current
              /\ operations[o].generation <= retention[operations[o].checkpoint].generation
              /\ operations[o].fence = current => Complete

\* A content on record, on disk and not known to be bad.
Good(w) == w \in mem.contents /\ w \in files /\ w \notin mem.quarantined

\* A checkpoint that can be materialized.
Firm(c) == mem.references[c] = "attached" /\ Good(home[c])

\* What somebody needs has its content; once its completion is on record, its
\* reference as well, and the content with it.
RetainedSound ==
    \A c \in Committed : Retained(retention[c]) =>
        /\ Good(home[c])
        /\ c \in disk.completed => mem.references[c] = "attached"

\* An attachment the store has made and the lifecycle does not know of holds
\* its content, as long as it can still be answered.
AttachmentsFirm ==
    \A o \in Operations :
        /\ Pending(o, "attach") /\ o \in mem.moved /\ ~Stale(o)
        => Firm(operations[o].checkpoint)

\* A release in doubt has moved the references, or never will.
ReleasesMoved ==
    \A c \in Checkpoints, o \in Operations :
        retention[c].pending = o => o \in mem.moved \/ ~Movable(c)

-----------------------------------------------------------------------------
(* The types.  What a write of one record of the store leaves of the others. *)
SameBut(m, u, fields) ==
    /\ "contents" \in fields \/ u.contents = m.contents
    /\ "quarantined" \in fields \/ u.quarantined = m.quarantined
    /\ "references" \in fields \/ u.references = m.references
    /\ "moved" \in fields \/ u.moved = m.moved
    /\ "completed" \in fields \/ u.completed = m.completed

(* A commit's content, reference and place among the deduplicated ones.    *)
LEMMA PreparedRecords ==
    ASSUME NEW m \in Records, NEW c \in Checkpoints, NEW w \in Checkpoints, NEW p \in Payloads
    PROVE  LET u == [m EXCEPT !.contents = @ \cup {w}, !.references[c] = "prepared",
                              !.shared[p] = w]
           IN  /\ u \in Records /\ SameBut(m, u, {"contents", "references"})
               /\ u.contents = m.contents \cup {w}
               /\ u.references = [m.references EXCEPT ![c] = "prepared"]
  BY DEF Records, SameBut

(* A reference moves.                                                      *)
LEMMA ReferenceRecords ==
    ASSUME NEW m \in Records, NEW c \in Checkpoints, NEW to \in {"none", "prepared", "attached"}
    PROVE  LET u == [m EXCEPT !.references[c] = to]
           IN  /\ u \in Records /\ SameBut(m, u, {"references"})
               /\ u.references = [m.references EXCEPT ![c] = to]
  BY DEF Records, SameBut

(* A reference moves for an operation.                                     *)
LEMMA MovedRecords ==
    ASSUME mem \in Records, NEW c \in Checkpoints, NEW o \in Operations,
           NEW to \in {"none", "prepared", "attached"}
    PROVE  /\ Moved(o, c, to) \in Records
           /\ SameBut(mem, Moved(o, c, to), {"references", "moved"})
           /\ Moved(o, c, to).references = [mem.references EXCEPT ![c] = to]
           /\ Moved(o, c, to).moved = mem.moved \cup {o}
  BY DEF Records, SameBut, Moved

(* A completion is recorded, a content quarantined, an answer kept, a      *)
(* materialization begins or ends.                                         *)
LEMMA SetRecords ==
    ASSUME NEW m \in Records, NEW c \in Checkpoints, NEW o \in Operations,
           NEW x \in {"none", "retained", "gone"}
    PROVE  /\ LET u == [m EXCEPT !.completed = @ \cup {c}]
              IN  u \in Records /\ SameBut(m, u, {"completed"}) /\ u.completed = m.completed \cup {c}
           /\ LET u == [m EXCEPT !.quarantined = @ \cup {c}]
              IN  u \in Records /\ SameBut(m, u, {"quarantined"})
                  /\ u.quarantined = m.quarantined \cup {c}
           /\ LET u == [m EXCEPT !.reclaims[o] = x] IN u \in Records /\ SameBut(m, u, {})
           /\ LET u == [m EXCEPT !.leases = @ \cup {c}] IN u \in Records /\ SameBut(m, u, {})
           /\ LET u == [m EXCEPT !.leases = @ \ {c}] IN u \in Records /\ SameBut(m, u, {})
  BY DEF Records, SameBut

(* A content is given up with the reference that named it.                 *)
LEMMA WithoutRecords ==
    ASSUME NEW m \in Records, NEW c \in Checkpoints, home[c] \in m.contents,
           Payload[c] \in Payloads
    PROVE  /\ WithoutContent(m, c) \in Records
           /\ SameBut(m, WithoutContent(m, c), {"contents", "references"})
           /\ WithoutContent(m, c).contents = m.contents \ {home[c]}
           /\ WithoutContent(m, c).references = [m.references EXCEPT ![c] = "none"]
  BY DEF Records, SameBut, WithoutContent

(* TypeOK beside what LineageTypes says.                                   *)
StoreTypes ==
    /\ debts \in [Checkpoints -> [state : {"none", "open", "retained", "gone"},
                                  by : Operations \cup {0}]]
    /\ home \in [Checkpoints -> Checkpoints \cup {0}]
    /\ mem \in Records /\ disk \in Records
    /\ files \subseteq Checkpoints
    /\ finishing \in [Finishers -> [checkpoint : Checkpoints \cup {0},
                                    stage : {"idle", "read", "activated"}]]
    /\ faults \in 0..MaxFaults

LEMMA TypesSplit == TypeOK <=> LineageTypes /\ StoreTypes
  BY DEF TypeOK, LineageTypes, StoreTypes

(* persistState leaves well-formed records, whether it fails or not.       *)
LEMMA SaveTypes ==
    ASSUME StoreTypes, NEW m \in Records, Save(m) \/ FailToSave(m)
    PROVE  mem' \in Records /\ disk' \in Records /\ faults' \in 0..MaxFaults
  <1>1. CASE Save(m)
    BY <1>1 DEF Save, StoreTypes
  <1>2. CASE FailToSave(m)
    <2>1. mem' = m /\ disk' \in {disk, m} /\ Fault
      BY <1>2 DEF FailToSave
    <2> QED BY <2>1, CheckpointStoreAssumption DEF Fault, StoreTypes
  <1> QED BY <1>1, <1>2

(* The names of the parts of a reclamation in the store.                   *)
KeptIn(o) == [mem EXCEPT !.reclaims[o] = "retained"]
GoneIn(o, c) == [WithoutContent(mem, c) EXCEPT !.reclaims[o] = "gone"]
Remaining(c) == IF home[c] \in mem.contents THEN files \ {home[c]} ELSE files

(* What the store may have done when it answers a reclamation, or fails to. *)
ReclaimsStore(o, c) ==
    \/ UNCHANGED <<mem, disk, files>> /\ (Fault \/ UNCHANGED faults)
    \/ files' = files /\ (Save(KeptIn(o)) \/ FailToSave(KeptIn(o)))
    \/ /\ ~Blocked(c) /\ files' = Remaining(c)
       /\ \/ Save(GoneIn(o, c)) \/ FailToSave(GoneIn(o, c))
          \/ Fault /\ mem' = disk /\ disk' = disk

LEMMA GoneRecords ==
    ASSUME mem \in Records, NEW o \in Operations, NEW c \in Checkpoints,
           Payload[c] \in Payloads
    PROVE  /\ GoneIn(o, c) \in Records
           /\ home[c] \in mem.contents =>
                /\ SameBut(mem, GoneIn(o, c), {"contents", "references"})
                /\ GoneIn(o, c).contents = mem.contents \ {home[c]}
                /\ GoneIn(o, c).references = [mem.references EXCEPT ![c] = "none"]
           /\ home[c] \notin mem.contents => SameBut(mem, GoneIn(o, c), {})
  <1>1. CASE home[c] \in mem.contents
    <2> DEFINE u == WithoutContent(mem, c)
    <2>1. /\ u \in Records /\ SameBut(mem, u, {"contents", "references"})
          /\ u.contents = mem.contents \ {home[c]}
          /\ u.references = [mem.references EXCEPT ![c] = "none"]
      BY <1>1, WithoutRecords
    <2> HIDE DEF u
    <2>2. [u EXCEPT !.reclaims[o] = "gone"] \in Records
          /\ SameBut(u, [u EXCEPT !.reclaims[o] = "gone"], {})
      BY <2>1, SetRecords
    <2>3. GoneIn(o, c) = [u EXCEPT !.reclaims[o] = "gone"]
      BY DEF GoneIn, u
    <2> QED BY <1>1, <2>1, <2>2, <2>3 DEF SameBut
  <1>2. CASE home[c] \notin mem.contents
    <2>1. GoneIn(o, c) = [mem EXCEPT !.reclaims[o] = "gone"]
      BY <1>2 DEF GoneIn, WithoutContent
    <2>2. [mem EXCEPT !.reclaims[o] = "gone"] \in Records
          /\ SameBut(mem, [mem EXCEPT !.reclaims[o] = "gone"], {})
      BY SetRecords
    <2> QED BY <1>2, <2>1, <2>2
  <1> QED BY <1>1, <1>2

(* A reclamation leaves well-formed records.                               *)
LEMMA ReclaimsTypes ==
    ASSUME StoreTypes, NEW o \in Operations, NEW c \in Checkpoints, ReclaimsStore(o, c)
    PROVE  /\ mem' \in Records /\ disk' \in Records /\ files' \subseteq Checkpoints
           /\ faults' \in 0..MaxFaults
  <1>1. KeptIn(o) \in Records /\ GoneIn(o, c) \in Records
    <2>1. mem \in Records /\ c \in Checkpoints /\ Payload[c] \in Payloads
      BY CheckpointStoreAssumption DEF StoreTypes
    <2> QED BY <2>1, GoneRecords, SetRecords DEF KeptIn
  <1>2. mem \in Records /\ disk \in Records /\ files \subseteq Checkpoints /\ faults \in 0..MaxFaults
    BY DEF StoreTypes
  <1>3. files' \subseteq Checkpoints
    BY <1>2 DEF ReclaimsStore, Remaining
  <1>4. Fault \/ UNCHANGED faults => faults' \in 0..MaxFaults
    BY <1>2, CheckpointStoreAssumption DEF Fault
  <1>5. CASE UNCHANGED <<mem, disk, files>> /\ (Fault \/ UNCHANGED faults)
    BY <1>2, <1>3, <1>4, <1>5
  <1>6. CASE Save(KeptIn(o)) \/ FailToSave(KeptIn(o))
    BY <1>1, <1>3, <1>6, SaveTypes
  <1>7. CASE Save(GoneIn(o, c)) \/ FailToSave(GoneIn(o, c))
    BY <1>1, <1>3, <1>7, SaveTypes
  <1>8. CASE Fault /\ mem' = disk /\ disk' = disk
    BY <1>2, <1>3, <1>4, <1>8
  <1> QED BY <1>5, <1>6, <1>7, <1>8 DEF ReclaimsStore

(* A reclamation, and what it does beside the store.                       *)
LEMMA ReclaimShape ==
    ASSUME LineageInv, StoreTypes, NEW o \in Operations, Reclaim(o),
           NEW c, c = operations[o].checkpoint
    PROVE  /\ c \in Committed /\ c \in Checkpoints
           /\ ~Stale(o) /\ ~MustStay(retention[c]) /\ Pending(o, "reclaim")
           /\ ReclaimsStore(o, c)
           /\ UNCHANGED <<current, home, finishing>>
           /\ Becomes(o, "done") \/ Becomes(o, "doubtful")
           /\ retention' = [retention EXCEPT ![c].reclaimed = TRUE] \/ retention' = retention
           /\ debts' \in [Checkpoints -> [state : {"none", "open", "retained", "gone"},
                                          by : Operations \cup {0}]]
  <1>1. c \in Committed /\ c \in Checkpoints
    BY PendingCommitted DEF Reclaim
  <1>2. /\ ~Stale(o) /\ ~MustStay(retention[c]) /\ Pending(o, "reclaim")
        /\ UNCHANGED <<current, home, finishing>>
        /\ Becomes(o, "done") \/ Becomes(o, "doubtful")
        /\ retention' = [retention EXCEPT ![c].reclaimed = TRUE] \/ retention' = retention
    BY DEF Reclaim, StoreReclaims
  <1>3. ReclaimsStore(o, c)
    BY DEF Reclaim, StoreReclaims, ReclaimsStore, KeptIn, GoneIn, Remaining
  <1>4. PICK s \in {"open", "retained", "gone"} :
          debts' = [debts EXCEPT ![c] = [state |-> IF @.state = "gone" THEN "gone" ELSE s,
                                         by |-> IF debts[c].state = "none" THEN o ELSE debts[c].by]]
    <2>1. mem.reclaims[o] \in {"none", "retained", "gone"}
      BY DEF StoreTypes, Records
    <2> QED BY <2>1 DEF Reclaim, StoreReclaims
  <1>5. debts[c] \in [state : {"none", "open", "retained", "gone"}, by : Operations \cup {0}]
    BY <1>1 DEF StoreTypes
  <1>6. [state |-> IF debts[c].state = "gone" THEN "gone" ELSE s,
         by |-> IF debts[c].state = "none" THEN o ELSE debts[c].by]
           \in [state : {"none", "open", "retained", "gone"}, by : Operations \cup {0}]
    BY <1>5
  <1>7. debts' \in [Checkpoints -> [state : {"none", "open", "retained", "gone"},
                                    by : Operations \cup {0}]]
    BY <1>1, <1>4, <1>6 DEF StoreTypes
  <1> QED BY <1>1, <1>2, <1>3, <1>7

(* A retry of a debt, and what it does beside the store.                   *)
LEMMA RetryShape ==
    ASSUME LineageInv, StoreTypes, NEW o \in Operations, RetryDebt(o),
           NEW c, c = operations[o].checkpoint
    PROVE  /\ c \in Committed /\ c \in Checkpoints
           /\ operations[o].fence = current /\ operations[o].kind = "retry"
           /\ \/ ReclaimsStore(o, c) /\ ~MustStay(retention[c])
              \/ UNCHANGED <<mem, disk, files, faults>>
           /\ UNCHANGED <<current, home, finishing>>
           /\ \/ operations' = [operations EXCEPT ![o].state = "done", ![debts[c].by].state = "done"]
              \/ Becomes(o, "done")
           /\ retention' = [retention EXCEPT ![c].reclaimed = TRUE] \/ retention' = retention
           /\ debts' \in [Checkpoints -> [state : {"none", "open", "retained", "gone"},
                                          by : Operations \cup {0}]]
  <1>1. c \in Committed /\ c \in Checkpoints
    BY PendingCommitted DEF RetryDebt
  <1>2. UNCHANGED <<current, home, finishing>> /\ operations[o].fence = current
        /\ operations[o].kind = "retry"
    BY DEF RetryDebt, Pending
  <1>3. CASE MustStay(retention[c])
    <2>1. /\ debts' = [debts EXCEPT ![c].state = "retained"]
          /\ operations' = [operations EXCEPT ![o].state = "done", ![debts[c].by].state = "done"]
          /\ retention' = retention /\ UNCHANGED <<mem, disk, files, faults>>
      BY <1>3 DEF RetryDebt, store
    <2>2. debts' \in [Checkpoints -> [state : {"none", "open", "retained", "gone"},
                                      by : Operations \cup {0}]]
      BY <1>1, <2>1 DEF StoreTypes
    <2> QED BY <1>1, <1>2, <2>1, <2>2
  <1>4. CASE ~MustStay(retention[c])
    <2>1. ReclaimsStore(o, c)
      BY <1>4 DEF RetryDebt, StoreReclaims, ReclaimsStore, KeptIn, GoneIn, Remaining
    <2>2. /\ \/ operations' = [operations EXCEPT ![o].state = "done", ![debts[c].by].state = "done"]
             \/ Becomes(o, "done")
          /\ retention' = [retention EXCEPT ![c].reclaimed = TRUE] \/ retention' = retention
      BY <1>4 DEF RetryDebt, StoreReclaims
    <2>3. \/ debts' = debts
          \/ \E s \in {"retained", "gone"} : debts' = [debts EXCEPT ![c].state = s]
      <3>1. mem.reclaims[o] \in {"none", "retained", "gone"}
        BY DEF StoreTypes, Records
      <3> QED BY <1>4, <3>1 DEF RetryDebt, StoreReclaims
    <2>4. debts' \in [Checkpoints -> [state : {"none", "open", "retained", "gone"},
                                      by : Operations \cup {0}]]
      BY <1>1, <2>3 DEF StoreTypes
    <2> QED BY <1>1, <1>2, <1>4, <2>1, <2>2, <2>4
  <1> QED BY <1>3, <1>4
(* Steps that leave the store's part of the types alone.                   *)
LEMMA NothingStored ==
    ASSUME StoreTypes, UNCHANGED <<debts, home, mem, disk, files, finishing>>,
           Fault \/ UNCHANGED faults
    PROVE  StoreTypes'
  BY CheckpointStoreAssumption DEF StoreTypes, Fault

(* Steps that write the records and leave the rest alone.                  *)
LEMMA RecordsStored ==
    ASSUME StoreTypes, NEW m \in Records, Save(m) \/ FailToSave(m),
           debts' = debts, home' = home, files' = files,
           finishing' \in [Finishers -> [checkpoint : Checkpoints \cup {0},
                                         stage : {"idle", "read", "activated"}]]
    PROVE  StoreTypes'
  BY SaveTypes DEF StoreTypes

LEMMA AdvanceTypes ==
    ASSUME StoreTypes, NEW f \in Finishers, NEW s \in {"idle", "read", "activated"}, Advance(f, s)
    PROVE  finishing' \in [Finishers -> [checkpoint : Checkpoints \cup {0},
                                         stage : {"idle", "read", "activated"}]]
  BY DEF StoreTypes, Advance

LEMMA CommitTypes == StoreTypes /\ LineageInv /\ Commit => StoreTypes'
  <1> SUFFICES ASSUME StoreTypes, LineageInv, Commit PROVE StoreTypes'
    OBVIOUS
  <1> DEFINE c == current + 1
             reused == Reusable(Payload[c])
             w == IF reused = {} THEN c ELSE CHOOSE v \in reused : TRUE
             m == [mem EXCEPT !.contents = @ \cup {w}, !.references[c] = "prepared",
                              !.shared[Payload[c]] = w]
  <1>1. c \in Checkpoints /\ Payload[c] \in Payloads
    BY CheckpointStoreAssumption DEF Commit, LineageInv, LineageTypes, Checkpoints
  <1>2. reused \subseteq Checkpoints
    BY DEF Reusable, StoreTypes, Records
  <1>3. w \in Checkpoints
    BY <1>1, <1>2
  <1>4. /\ home' = [home EXCEPT ![c] = w] /\ files' = files \cup {w} /\ Save(m)
        /\ debts' = debts /\ finishing' = finishing
    BY DEF Commit
  <1> HIDE DEF w
  <1>5. m \in Records
    BY <1>1, <1>3, PreparedRecords DEF StoreTypes
  <1> HIDE DEF m
  <1>6. mem' \in Records /\ disk' \in Records /\ faults' \in 0..MaxFaults
    BY <1>4, <1>5, SaveTypes
  <1> QED BY <1>1, <1>3, <1>4, <1>6 DEF StoreTypes

(* A completion in progress moves on, or ends: what it is of was committed. *)
LEMMA Advances ==
    ASSUME StoreTypes, LineageInv, FinishingCommitted, NEW f \in Finishers, Finish(f)
    PROVE  /\ finishing' \in [Finishers -> [checkpoint : Checkpoints \cup {0},
                                            stage : {"idle", "read", "activated"}]]
           /\ FinishingCommitted'
           /\ UNCHANGED <<core, files>>
           /\ Activate(f) \/ CompleteCommit(f) => finishing[f].checkpoint \in Committed
  <1>1. Committed \subseteq Checkpoints
    BY CheckpointStoreAssumption DEF Committed, Checkpoints, LineageInv, LineageTypes
  <1>2. UNCHANGED <<core, files>> /\ Committed' = Committed
    BY DEF Finish, ReadCompletion, Activate, CompleteCommit, core, store, Committed
  <1>3. CASE ReadCompletion(f)
    <2>1. PICK d \in Committed \ mem.completed :
            finishing' = [finishing EXCEPT ![f] = [checkpoint |-> d, stage |-> "read"]]
      BY <1>3 DEF ReadCompletion
    <2>2. d \in Checkpoints /\ finishing[f].stage = "idle"
      BY <1>1, <1>3 DEF ReadCompletion
    <2> QED BY <1>2, <2>1, <2>2 DEF StoreTypes, FinishingCommitted, Activate, CompleteCommit
  <1>4. CASE Activate(f) \/ CompleteCommit(f)
    <2>1. PICK s \in {"idle", "activated"} : Advance(f, s)
      BY <1>4 DEF Activate, CompleteCommit
    <2>2. finishing[f].checkpoint \in Committed
      BY <1>4 DEF Activate, CompleteCommit, FinishingCommitted
    <2> QED BY <1>2, <2>1, <2>2, AdvanceTypes DEF Advance, StoreTypes, FinishingCommitted
  <1> QED BY <1>3, <1>4 DEF Finish

LEMMA FinishTypes ==
    ASSUME StoreTypes, LineageInv, FinishingCommitted, NEW f \in Finishers, Finish(f)
    PROVE  StoreTypes'
  <1> DEFINE c == finishing[f].checkpoint
             fins == [Finishers -> [checkpoint : Checkpoints \cup {0},
                                    stage : {"idle", "read", "activated"}]]
  <1>1. finishing' \in fins /\ debts' = debts /\ home' = home /\ files' = files
    BY Advances DEF core
  <1>2. mem \in Records /\ Committed \subseteq Checkpoints
    BY CheckpointStoreAssumption DEF Committed, Checkpoints, LineageInv, LineageTypes, StoreTypes
  <1>3. UNCHANGED <<mem, disk>> /\ (Fault \/ UNCHANGED faults) => StoreTypes'
    BY <1>1, CheckpointStoreAssumption DEF StoreTypes, Fault
  <1>4. CASE ReadCompletion(f)
    BY <1>3, <1>4 DEF ReadCompletion, store
  <1>5. CASE Activate(f)
    <2>1. c \in Checkpoints
      BY <1>2, <1>5, Advances
    <2>2. [mem EXCEPT !.references[c] = "attached"] \in Records
      BY <1>2, <2>1, ReferenceRecords
    <2>3. \/ UNCHANGED <<mem, disk, faults>>
          \/ Save([mem EXCEPT !.references[c] = "attached"])
          \/ FailToSave([mem EXCEPT !.references[c] = "attached"])
      BY <1>5 DEF Activate
    <2> QED BY <1>1, <1>3, <2>2, <2>3, RecordsStored
  <1>6. CASE CompleteCommit(f)
    <2> DEFINE m == [mem EXCEPT !.completed = @ \cup {c}]
    <2>1. c \in Checkpoints
      BY <1>2, <1>6, Advances
    <2>2. m \in Records
      BY <1>2, <2>1 DEF Records
    <2>3. Save(m) \/ (Fault /\ mem' = mem /\ disk' \in {disk, m})
      BY <1>6 DEF CompleteCommit
    <2> HIDE DEF m
    <2>4. CASE Save(m)
      BY <1>1, <2>2, <2>4, RecordsStored
    <2>5. CASE Fault /\ mem' = mem /\ disk' \in {disk, m}
      BY <1>1, <2>2, <2>5, CheckpointStoreAssumption DEF StoreTypes, Fault
    <2> QED BY <2>3, <2>4, <2>5
  <1> QED BY <1>4, <1>5, <1>6 DEF Finish

(* Operations on the retention.                                            *)
LEMMA PerformTypes ==
    ASSUME StoreTypes, LineageInv, NEW o \in Operations, Perform(o)
    PROVE  StoreTypes' /\ UNCHANGED <<current, home, finishing>>
  <1> DEFINE c == operations[o].checkpoint
  <1>1. CASE RefuseRelease(o) \/ ReleaseOne(o) \/ RefuseAttach(o)
             \/ RefuseReclaim(o) \/ DeclineReclaim(o)
    BY <1>1, NothingStored
    DEF RefuseRelease, ReleaseOne, RefuseAttach, RefuseReclaim, DeclineReclaim, store
  <1>2. CASE ReleaseLast(o)
    <2>1. c \in Checkpoints
      BY <1>2, PendingCommitted DEF ReleaseLast
    <2>2. Moved(o, c, "prepared") \in Records
      BY <2>1, MovedRecords DEF StoreTypes
    <2>3. /\ UNCHANGED <<current, debts, home, files, finishing>>
          /\ \/ UNCHANGED <<mem, disk, faults>>
             \/ Save(Moved(o, c, "prepared")) \/ FailToSave(Moved(o, c, "prepared"))
      BY <1>2 DEF ReleaseLast
    <2>4. finishing' \in [Finishers -> [checkpoint : Checkpoints \cup {0},
                                        stage : {"idle", "read", "activated"}]]
      BY <2>3 DEF StoreTypes
    <2> QED BY <2>2, <2>3, <2>4, NothingStored, RecordsStored
  <1>3. CASE Attach(o)
    <2> DEFINE bad == [mem EXCEPT !.quarantined = @ \cup {home[c]}]
    <2>1. c \in Checkpoints
      BY <1>3, PendingCommitted DEF Attach
    <2>2. Moved(o, c, "attached") \in Records
      BY <2>1, MovedRecords DEF StoreTypes
    <2>3. Movable(c) => bad \in Records
      <3>1. mem \in Records
        BY DEF StoreTypes
      <3>2. Movable(c) => home[c] \in Checkpoints
        BY <3>1 DEF Movable, Records
      <3> QED BY <3>1, <3>2, SetRecords
    <2>4. /\ UNCHANGED <<current, debts, home, files, finishing>>
          /\ \/ UNCHANGED <<mem, disk, faults>>
             \/ Movable(c) /\ (Save(bad) \/ FailToSave(bad))
             \/ Save(Moved(o, c, "attached")) \/ FailToSave(Moved(o, c, "attached"))
      BY <1>3 DEF Attach, Reattach
    <2>5. finishing' \in [Finishers -> [checkpoint : Checkpoints \cup {0},
                                        stage : {"idle", "read", "activated"}]]
      BY <2>4 DEF StoreTypes
    <2> HIDE DEF bad
    <2> QED BY <2>2, <2>3, <2>4, <2>5, NothingStored, RecordsStored
  <1>4. CASE Reclaim(o)
    <2>1. /\ c \in Checkpoints /\ ReclaimsStore(o, c) /\ UNCHANGED <<current, home, finishing>>
          /\ debts' \in [Checkpoints -> [state : {"none", "open", "retained", "gone"},
                                         by : Operations \cup {0}]]
      BY <1>4, ReclaimShape
    <2> QED BY <2>1, ReclaimsTypes DEF StoreTypes
  <1>5. CASE RetryDebt(o)
    <2>1. /\ c \in Checkpoints /\ UNCHANGED <<current, home, finishing>>
          /\ ReclaimsStore(o, c) \/ UNCHANGED <<mem, disk, files, faults>>
          /\ debts' \in [Checkpoints -> [state : {"none", "open", "retained", "gone"},
                                         by : Operations \cup {0}]]
      BY <1>5, RetryShape
    <2> QED BY <2>1, ReclaimsTypes DEF StoreTypes
  <1>6. RefuseRelease(o) \/ ReleaseOne(o) \/ RefuseAttach(o) \/ RefuseReclaim(o)
        \/ DeclineReclaim(o) => UNCHANGED <<current, home, finishing>>
    BY DEF RefuseRelease, ReleaseOne, RefuseAttach, RefuseReclaim, DeclineReclaim
  <1>7. ReleaseLast(o) \/ Attach(o) \/ Reclaim(o) \/ RetryDebt(o)
        => UNCHANGED <<current, home, finishing>>
    BY DEF ReleaseLast, Attach, Reclaim, RetryDebt
  <1> QED BY <1>1, <1>2, <1>3, <1>4, <1>5, <1>6, <1>7 DEF Perform

(* Materializations and restarts.                                          *)
LEMMA OtherTypes ==
    ASSUME StoreTypes, LineageInv,
           Materialize \/ Restart \/ \E c \in Checkpoints : ExpireMaterialization(c)
    PROVE  StoreTypes' /\ UNCHANGED <<core, files>>
  <1>1. mem \in Records /\ disk \in Records
    BY DEF StoreTypes
  <1>2. CASE Materialize
    <2>1. current \in Checkpoints
      BY <1>2, CheckpointStoreAssumption DEF Materialize, Checkpoints, LineageInv, LineageTypes
    <2>2. [mem EXCEPT !.leases = @ \cup {current}] \in Records
      BY <1>1, <2>1 DEF Records
    <2>3. /\ Save([mem EXCEPT !.leases = @ \cup {current}])
          /\ UNCHANGED <<core, files, finishing>>
      BY <1>2 DEF Materialize
    <2>4. debts' = debts /\ home' = home /\ files' = files
          /\ finishing' \in [Finishers -> [checkpoint : Checkpoints \cup {0},
                                           stage : {"idle", "read", "activated"}]]
      BY <2>3 DEF core, StoreTypes
    <2> QED BY <2>2, <2>3, <2>4, RecordsStored
  <1>3. ASSUME NEW c \in Checkpoints, ExpireMaterialization(c)
        PROVE  StoreTypes' /\ UNCHANGED <<core, files>>
    <2>2. [mem EXCEPT !.leases = @ \ {c}] \in Records
      BY <1>1 DEF Records
    <2>3. /\ Save([mem EXCEPT !.leases = @ \ {c}])
          /\ UNCHANGED <<core, files, finishing>>
      BY <1>3 DEF ExpireMaterialization
    <2>4. debts' = debts /\ home' = home /\ files' = files
          /\ finishing' \in [Finishers -> [checkpoint : Checkpoints \cup {0},
                                           stage : {"idle", "read", "activated"}]]
      BY <2>3 DEF core, StoreTypes
    <2> QED BY <2>2, <2>3, <2>4, RecordsStored
  <1>4. CASE Restart
    BY <1>1, <1>4, CheckpointStoreAssumption DEF Restart, StoreTypes, Fault, core
  <1> QED BY <1>2, <1>3, <1>4

(***************************************************************************)
(* The types of the store depend on what is being completed: a completion  *)
(* is recorded under the name it was read with.                            *)
(***************************************************************************)
TypesInv == LineageInv /\ StoreTypes /\ FinishingCommitted

LEMMA TypesInit == Init => TypesInv
  <1> SUFFICES ASSUME Init PROVE TypesInv
    OBVIOUS
  <1>1. mem \in Records
    BY DEF Init, Records
  <1>2. StoreTypes
    BY <1>1, CheckpointStoreAssumption DEF Init, StoreTypes
  <1>3. FinishingCommitted
    BY DEF Init, FinishingCommitted
  <1> QED BY <1>2, <1>3, LineageInit DEF TypesInv

LEMMA TypesStep == TypesInv /\ [Next]_vars => TypesInv'
  <1> SUFFICES ASSUME TypesInv, [Next]_vars PROVE TypesInv'
    OBVIOUS
  <1> USE DEF TypesInv
  <1>1. LineageInv'
    BY LineageStep
  <1>2. current' = current /\ finishing' = finishing => FinishingCommitted'
    BY DEF FinishingCommitted, Committed
  <1>3. CASE Commit
    <2>1. current' = current + 1 /\ finishing' = finishing /\ current \in Nat
      BY <1>3, CheckpointStoreAssumption DEF Commit, LineageInv, LineageTypes
    <2>2. FinishingCommitted'
      BY <2>1 DEF FinishingCommitted, Committed
    <2> QED BY <1>1, <1>3, <2>2, CommitTypes
  <1>4. ASSUME NEW f \in Finishers, Finish(f) PROVE TypesInv'
    BY <1>1, <1>4, FinishTypes, Advances
  <1>5. ASSUME NEW o \in Operations, Ask(o) PROVE TypesInv'
    BY <1>1, <1>2, <1>5, NothingStored DEF Ask, store
  <1>6. ASSUME NEW o \in Operations, Perform(o) PROVE TypesInv'
    BY <1>1, <1>2, <1>6, PerformTypes
  <1>7. ASSUME Materialize \/ Restart \/ \E c \in Checkpoints : ExpireMaterialization(c)
        PROVE  TypesInv'
    <2>1. StoreTypes' /\ current' = current
      BY <1>7, OtherTypes DEF core
    <2>2. finishing' = finishing \/ \A f \in Finishers : finishing'[f].stage = "idle"
      <3>1. Materialize \/ (\E c \in Checkpoints : ExpireMaterialization(c)) => finishing' = finishing
        BY DEF Materialize, ExpireMaterialization
      <3>2. Restart => finishing' = [f \in Finishers |-> [checkpoint |-> 0, stage |-> "idle"]]
        BY DEF Restart
      <3> QED BY <1>7, <3>1, <3>2
    <2> QED BY <1>1, <1>2, <2>1, <2>2 DEF FinishingCommitted
  <1>8. ASSUME NEW c \in Checkpoints, PassGrace(c) \/ ExpirePin(c) PROVE TypesInv'
    BY <1>1, <1>2, <1>8, NothingStored DEF PassGrace, ExpirePin, store
  <1>9. CASE UNCHANGED vars
    BY <1>1, <1>2, <1>9, NothingStored DEF vars, core, store
  <1> QED BY <1>3, <1>4, <1>5, <1>6, <1>7, <1>8, <1>9 DEF Next

(* Every variable keeps its type, with every value of the constants: what  *)
(* the store writes back over its records after a failure, and what a      *)
(* restart reads, are records it once held (persistState, Restart).        *)
THEOREM RecordsWellFormed == Spec => []TypeOK
  <1>1. TypesInv => TypeOK
    BY TypesSplit DEF TypesInv, LineageInv
  <1> QED BY <1>1, TypesInit, TypesStep, PTL DEF Spec
-----------------------------------------------------------------------------
(***************************************************************************)
(* Recovery of what somebody needs.  It holds of the store as it is used:  *)
(* nothing else is asked while a commit is incomplete, and a write that    *)
(* failed has left the new state file.  The two other combinations of the  *)
(* runs lose content, or may.                                              *)
(***************************************************************************)
Sound == TypesInv /\ DiskAgrees /\ ContentsCommitted /\ LastIncomplete
         /\ JournalFits /\ RetainedSound /\ AttachmentsFirm /\ ReleasesMoved

(* Without the fault of the state file, memory and file are written alike. *)
LEMMA SavedAlike ==
    ASSUME Lossy = FALSE, NEW m, Save(m) \/ FailToSave(m)
    PROVE  mem' = m /\ disk' = m
  BY DEF Save, FailToSave

(* What most steps do to the journal and the retention: they neither       *)
(* commit nor ask, and no generation goes back.                            *)
Steady ==
    /\ current' = current /\ home' = home
    /\ \A o \in Operations :
          /\ operations'[o].kind = operations[o].kind
          /\ operations'[o].checkpoint = operations[o].checkpoint
          /\ operations'[o].generation = operations[o].generation
          /\ operations'[o].fence = operations[o].fence
          /\ operations[o].state # "none" => operations'[o].state # "none"
          /\ operations'[o].state \in {"asked", "doubtful"} =>
                operations[o].state \in {"asked", "doubtful"}
    /\ \A c \in Checkpoints :
          /\ retention'[c].generation >= retention[c].generation
          /\ c > current => retention'[c].pending = retention[c].pending

LEMMA CommittedNat ==
    ASSUME TypesInv
    PROVE  /\ current \in 0..Last /\ current \in Nat /\ Last \in Nat
           /\ Committed \subseteq Checkpoints
           /\ Committed = 1..current /\ Checkpoints = 1..Last
           /\ retention \in [Checkpoints -> Retention]
           /\ operations \in [Operations -> Operation]
           /\ mem \in Records /\ disk \in Records
  BY CheckpointStoreAssumption
  DEF TypesInv, LineageInv, LineageTypes, StoreTypes, Committed, Checkpoints

(* What the journal's entries say of the retention.                        *)
LEMMA Entries ==
    ASSUME TypesInv, JournalFits, NEW o \in Operations, operations[o].kind # "none"
    PROVE  /\ operations[o].checkpoint \in Committed
           /\ operations[o].checkpoint \in Checkpoints
           /\ operations[o].fence \in Nat /\ operations[o].fence <= current
           /\ operations[o].generation \in Nat
           /\ retention[operations[o].checkpoint].generation \in Nat
           /\ operations[o].generation <= retention[operations[o].checkpoint].generation
           /\ operations[o].fence = current => Complete
  <1>1. /\ current \in Nat /\ Committed \subseteq Checkpoints
        /\ retention \in [Checkpoints -> Retention] /\ operations \in [Operations -> Operation]
        /\ Checkpoints = 1..Last /\ Last \in Nat
    BY CommittedNat
  <1>2. operations[o].checkpoint \in Committed
    BY DEF TypesInv, LineageInv, AboutCommitted
  <1>3. operations[o] \in Operation /\ retention[operations[o].checkpoint] \in Retention
    BY <1>1, <1>2
  <1>4. /\ operations[o].fence \in Nat /\ operations[o].generation \in Nat
        /\ retention[operations[o].checkpoint].generation \in Nat
    BY <1>1, <1>3 DEF Operation, Retention
  <1> QED BY <1>1, <1>2, <1>4 DEF JournalFits

(* In a steady step the journal goes on fitting, and an attachment that is *)
(* still to be answered was to be answered before.                         *)
LEMMA SteadyJournal ==
    ASSUME Sound, TypesInv', Steady, mem.completed \subseteq mem'.completed,
           \A o \in mem'.moved : o \in mem.moved \/ (o \in Operations /\ operations[o].state # "none")
    PROVE  /\ JournalFits'
           /\ \A o \in Operations :
                 (Pending(o, "attach") /\ ~Stale(o))' =>
                    /\ Pending(o, "attach") /\ ~Stale(o)
                    /\ operations'[o].checkpoint = operations[o].checkpoint
                    /\ operations[o].checkpoint \in Committed
  <1> USE DEF Sound
  <1>1. /\ current' = current
        /\ \A o \in Operations : /\ operations'[o].kind = operations[o].kind
                                 /\ operations'[o].checkpoint = operations[o].checkpoint
                                 /\ operations'[o].generation = operations[o].generation
                                 /\ operations'[o].fence = operations[o].fence
                                 /\ operations[o].state # "none" => operations'[o].state # "none"
                                 /\ operations'[o].state \in {"asked", "doubtful"} =>
                                       operations[o].state \in {"asked", "doubtful"}
        /\ \A c \in Checkpoints : retention'[c].generation >= retention[c].generation
    BY DEF Steady
  <1>2. \A c \in Checkpoints : retention'[c].generation \in Nat /\ retention[c].generation \in Nat
    BY CommittedNat DEF TypesInv, LineageInv, LineageTypes, Retention
  <1>3. Complete => Complete'
    BY <1>1 DEF Complete, Committed
  <1>4. mem'.moved \subseteq {o \in Operations : operations'[o].state # "none"}
    BY <1>1 DEF JournalFits
  <1>5. ASSUME NEW o \in Operations, operations'[o].kind # "none"
        PROVE  /\ operations'[o].fence <= current'
               /\ operations'[o].generation <= retention'[operations'[o].checkpoint].generation
               /\ operations'[o].fence = current' => Complete'
    <2> DEFINE c == operations[o].checkpoint
    <2>1. /\ c \in Checkpoints /\ operations[o].fence <= current /\ operations[o].generation \in Nat
          /\ operations[o].generation <= retention[c].generation
          /\ operations[o].fence = current => Complete
      BY <1>1, <1>5, Entries
    <2>2. retention'[c].generation >= retention[c].generation
      BY <1>1, <2>1
    <2>3. operations[o].generation <= retention'[c].generation
      BY <1>2, <2>1, <2>2
    <2> QED BY <1>1, <1>3, <2>1, <2>3
  <1>6. ASSUME NEW o \in Operations, (Pending(o, "attach") /\ ~Stale(o))'
        PROVE  /\ Pending(o, "attach") /\ ~Stale(o)
               /\ operations'[o].checkpoint = operations[o].checkpoint
               /\ operations[o].checkpoint \in Committed
    <2> DEFINE c == operations[o].checkpoint
    <2>1. Pending(o, "attach")
      BY <1>1, <1>6 DEF Pending
    <2>2. /\ c \in Checkpoints /\ c \in Committed /\ operations[o].generation \in Nat
          /\ operations[o].generation <= retention[c].generation
      BY <2>1, Entries DEF Pending
    <2>3. /\ operations[o].fence = current
          /\ operations[o].generation = retention'[c].generation
      BY <1>1, <1>6 DEF Stale
    <2>4. retention'[c].generation >= retention[c].generation
      BY <1>1, <2>2
    <2>5. operations[o].generation = retention[c].generation
      BY <1>2, <2>2, <2>3, <2>4
    <2> QED BY <1>1, <2>1, <2>2, <2>3, <2>5 DEF Stale
  <1> QED BY <1>4, <1>5, <1>6 DEF JournalFits

(* The rest of the invariant in a step that leaves the contents, the       *)
(* references and the transitions of the store where they were.            *)
Still ==
    /\ files' = files
    /\ mem'.contents = mem.contents /\ mem'.quarantined = mem.quarantined
    /\ mem'.references = mem.references /\ mem'.moved = mem.moved
    /\ mem.completed \subseteq mem'.completed

LEMMA StillStep ==
    ASSUME Sound, TypesInv', Steady, Still, DiskAgrees',
           \A c \in disk'.completed : c \in disk.completed \/ mem.references[c] = "attached",
           \A c \in Committed : Retained(retention'[c]) => Retained(retention[c]) \/ Firm(c),
           \A c \in Checkpoints : \/ retention'[c].pending \in {retention[c].pending, 0}
                                  \/ retention'[c].pending \in mem.moved
                                  \/ ~Movable(c),
           \A f \in Finishers :
                finishing'[f].stage = "activated" /\ finishing'[f].checkpoint \notin mem'.completed =>
                    mem.references[finishing'[f].checkpoint] = "attached"
    PROVE  Sound'
  <1> USE DEF Sound
  <1>0. current' = current /\ home' = home /\ Committed' = Committed
    BY DEF Steady, Committed
  <1>1. /\ files' = files
        /\ mem'.contents = mem.contents /\ mem'.quarantined = mem.quarantined
        /\ mem'.references = mem.references /\ mem'.moved = mem.moved
        /\ mem.completed \subseteq mem'.completed
    BY DEF Still
  <1>2. mem.moved \subseteq {o \in Operations : operations[o].state # "none"}
    BY DEF JournalFits
  <1>3. JournalFits'
    BY <1>1, <1>2, SteadyJournal
  <1>4. ContentsCommitted'
    BY <1>0, <1>1 DEF ContentsCommitted, Steady
  <1>5. LastIncomplete'
    BY <1>0, <1>1 DEF LastIncomplete
  <1>6. \A w : Good(w)' <=> Good(w)
    BY <1>1 DEF Good
  <1>7. RetainedSound'
    <2> SUFFICES ASSUME NEW c \in Committed, Retained(retention'[c])
                 PROVE  /\ Good(home[c])
                        /\ c \in disk'.completed => mem.references[c] = "attached"
      BY <1>0, <1>1, <1>6 DEF RetainedSound, Good
    <2>1. Retained(retention[c]) \/ Firm(c)
      OBVIOUS
    <2> QED BY <2>1 DEF Firm, RetainedSound
  <1>8. AttachmentsFirm'
    <2> SUFFICES ASSUME NEW o \in Operations, (Pending(o, "attach") /\ ~Stale(o))', o \in mem'.moved
                 PROVE  Firm(operations[o].checkpoint)
                        /\ operations'[o].checkpoint = operations[o].checkpoint
      BY <1>0, <1>1 DEF AttachmentsFirm, Firm, Good
    <2>1. /\ Pending(o, "attach") /\ ~Stale(o)
          /\ operations'[o].checkpoint = operations[o].checkpoint
      BY <1>1, <1>2, SteadyJournal
    <2> QED BY <1>1, <2>1 DEF AttachmentsFirm
  <1>9. ReleasesMoved'
    <2> SUFFICES ASSUME NEW c \in Checkpoints, NEW o \in Operations, retention'[c].pending = o
                 PROVE  o \in mem.moved \/ ~Movable(c)
      BY <1>0, <1>1 DEF ReleasesMoved, Movable
    <2>1. o # 0
      BY DEF Operations
    <2> QED BY <2>1 DEF ReleasesMoved
  <1> QED BY <1>3, <1>4, <1>5, <1>7, <1>8, <1>9
-----------------------------------------------------------------------------
(* Steps that touch the journal and the retention only.                    *)
JournalSteady ==
    \A o \in Operations :
          /\ operations'[o].kind = operations[o].kind
          /\ operations'[o].checkpoint = operations[o].checkpoint
          /\ operations'[o].generation = operations[o].generation
          /\ operations'[o].fence = operations[o].fence
          /\ operations[o].state # "none" => operations'[o].state # "none"
          /\ operations'[o].state \in {"asked", "doubtful"} =>
                operations[o].state \in {"asked", "doubtful"}

LEMMA BecomesSteady ==
    ASSUME TypesInv, NEW o \in Operations, NEW kind, Pending(o, kind),
           NEW s \in {"doubtful", "done", "refused"}, Becomes(o, s)
    PROVE  JournalSteady
  <1>1. operations \in [Operations -> Operation]
    BY CommittedNat
  <1>2. operations' = [operations EXCEPT ![o].state = s]
    BY DEF Becomes
  <1>3. operations[o].state \in {"asked", "doubtful"}
    BY DEF Pending
  <1>4. ASSUME NEW p \in Operations
        PROVE  /\ operations'[p].kind = operations[p].kind
               /\ operations'[p].checkpoint = operations[p].checkpoint
               /\ operations'[p].generation = operations[p].generation
               /\ operations'[p].fence = operations[p].fence
               /\ operations'[p].state = IF p = o THEN s ELSE operations[p].state
    BY <1>1, <1>2 DEF Operation
  <1> QED BY <1>3, <1>4 DEF JournalSteady


LEMMA SteadyStep ==
    ASSUME TypesInv, JournalSteady, current' = current, home' = home,
           NEW c \in Committed, NEW r, retention' = [retention EXCEPT ![c] = r],
           r.generation >= retention[c].generation
    PROVE  /\ Steady
           /\ \A d \in Checkpoints : d # c => retention'[d] = retention[d]
           /\ retention'[c] = r /\ c \in Checkpoints
  <1>1. /\ retention \in [Checkpoints -> Retention] /\ Committed \subseteq Checkpoints
        /\ Committed = 1..current /\ current \in Nat /\ Checkpoints = 1..Last /\ Last \in Nat
    BY CommittedNat
  <1>2. /\ \A d \in Checkpoints : d # c => retention'[d] = retention[d]
        /\ retention'[c] = r /\ c \in Checkpoints
    BY <1>1
  <1>3. \A d \in Checkpoints : retention[d].generation \in Nat
    BY <1>1 DEF Retention
  <1>4. \A d \in Checkpoints : retention'[d].generation >= retention[d].generation
    BY <1>2, <1>3
  <1>5. \A d \in Checkpoints : d > current => d # c
    BY <1>1
  <1> QED BY <1>2, <1>4, <1>5 DEF Steady, JournalSteady

LEMMA SteadyJournalOnly ==
    ASSUME TypesInv, JournalSteady, UNCHANGED <<current, home, retention>>
    PROVE  Steady
  <1>1. \A d \in Checkpoints : retention[d].generation \in Nat
    BY CommittedNat DEF Retention
  <1> QED BY <1>1 DEF Steady, JournalSteady

(* The store has not been called: the rest of the invariant goes with the  *)
(* retention.                                                              *)
LEMMA StoreUntouched ==
    ASSUME Sound, TypesInv', Steady, UNCHANGED <<store, finishing>>,
           \A c \in Committed : Retained(retention'[c]) => Retained(retention[c]) \/ Firm(c),
           \A c \in Checkpoints : \/ retention'[c].pending \in {retention[c].pending, 0}
                                  \/ retention'[c].pending \in mem.moved
                                  \/ ~Movable(c)
    PROVE  Sound'
  <1>1. Still
    BY DEF Still, store
  <1>2. DiskAgrees'
    BY DEF DiskAgrees, store, Sound, Steady, Committed
  <1>3. \A c \in disk'.completed : c \in disk.completed \/ mem.references[c] = "attached"
    BY DEF store
  <1>4. \A f \in Finishers :
            finishing'[f].stage = "activated" /\ finishing'[f].checkpoint \notin mem'.completed =>
                mem.references[finishing'[f].checkpoint] = "attached"
    BY DEF Sound, LastIncomplete, store
  <1> QED BY <1>1, <1>2, <1>3, <1>4, StillStep

LEMMA SoundRefusals ==
    ASSUME Sound, TypesInv', NEW o \in Operations,
           RefuseRelease(o) \/ RefuseAttach(o) \/ RefuseReclaim(o) \/ DeclineReclaim(o)
    PROVE  Sound'
  <1>1. /\ UNCHANGED <<current, home, retention>> /\ UNCHANGED <<store, finishing>>
        /\ \E s \in {"done", "refused"} : Becomes(o, s)
        /\ \E kind \in {"release", "attach", "reclaim", "retry"} : Pending(o, kind)
    BY DEF RefuseRelease, RefuseAttach, RefuseReclaim, DeclineReclaim
  <1>2. JournalSteady
    BY <1>1, BecomesSteady DEF Sound
  <1>3. Steady
    BY <1>1, <1>2, SteadyJournalOnly DEF Sound
  <1> QED BY <1>1, <1>3, StoreUntouched

(* A caller asks: nothing was moved for an operation that did not exist,   *)
(* and the commits are complete.                                           *)
LEMMA SoundAsk ==
    ASSUME Sound, TypesInv', Waits = TRUE, NEW o \in Operations, Ask(o)
    PROVE  Sound'
  <1> USE DEF Sound
  <1>1. PICK c \in Committed, kind \in {"release", "attach", "reclaim", "retry"}, a \in Authorities :
         operations' = [operations EXCEPT ![o] =
              [kind |-> kind, checkpoint |-> c, authority |-> a,
               generation |-> retention[c].generation, fence |-> current, state |-> "asked"]]
    BY DEF Ask
  <1>2. UNCHANGED <<current, retention, home, store, finishing>> /\ Complete
        /\ operations[o].state = "none"
    BY DEF Ask, MayAsk
  <1>3. /\ operations \in [Operations -> Operation] /\ Committed \subseteq Checkpoints
        /\ retention \in [Checkpoints -> Retention] /\ current \in Nat
    BY CommittedNat
  <1>4. /\ \A p \in Operations : p # o => operations'[p] = operations[p]
        /\ operations'[o] = [kind |-> kind, checkpoint |-> c, authority |-> a,
               generation |-> retention[c].generation, fence |-> current, state |-> "asked"]
    BY <1>1, <1>3
  <1>5. o \notin mem.moved
    BY <1>2 DEF JournalFits
  <1>6. Complete' /\ current' = current /\ mem' = mem /\ retention' = retention
    BY <1>2 DEF Complete, Committed, store
  <1>7. retention[c].generation \in Nat
    BY <1>3 DEF Retention
  <1>8. JournalFits'
    BY <1>2, <1>3, <1>4, <1>5, <1>6, <1>7 DEF JournalFits
  <1>9. AttachmentsFirm'
    <2> SUFFICES ASSUME NEW p \in Operations, (Pending(p, "attach") /\ p \in mem.moved /\ ~Stale(p))'
                 PROVE  Firm(operations'[p].checkpoint)
      BY <1>2 DEF AttachmentsFirm, Firm, Good, store
    <2>1. p # o /\ operations'[p] = operations[p]
      BY <1>4, <1>5, <1>6
    <2> QED BY <1>6, <2>1 DEF AttachmentsFirm, Pending, Stale
  <1>10. DiskAgrees' /\ ContentsCommitted' /\ LastIncomplete' /\ RetainedSound' /\ ReleasesMoved'
    BY <1>2 DEF DiskAgrees, ContentsCommitted, LastIncomplete, RetainedSound, ReleasesMoved,
                Good, Movable, Committed, store
  <1> QED BY <1>8, <1>9, <1>10

(* Time passes.                                                            *)
LEMMA SoundTime ==
    ASSUME Sound, TypesInv', NEW c \in Checkpoints, PassGrace(c) \/ ExpirePin(c)
    PROVE  Sound'
  <1>1. /\ UNCHANGED <<current, operations, home, store, finishing>>
        /\ \/ retention' = [retention EXCEPT ![c].grace = "passed"]
           \/ retention' = [retention EXCEPT ![c].pin = "expired"]
    BY DEF PassGrace, ExpirePin
  <1>2. retention \in [Checkpoints -> Retention]
    BY CommittedNat DEF Sound
  <1>3. \A d \in Checkpoints : /\ retention'[d].generation = retention[d].generation
                               /\ retention'[d].generation \in Nat
                               /\ retention'[d].pending = retention[d].pending
                               /\ retention'[d].lineage = retention[d].lineage
                               /\ retention'[d].pin = "active" => retention[d].pin = "active"
    BY <1>1, <1>2 DEF Retention
  <1>4. Steady
    BY <1>1, <1>3 DEF Steady
  <1>5. \A d \in Committed : d \in Checkpoints
    BY CommittedNat DEF Sound
  <1>6. \A d \in Committed : Retained(retention'[d]) => Retained(retention[d])
    BY <1>3, <1>5 DEF Retained
  <1> QED BY <1>1, <1>3, <1>4, <1>6, StoreUntouched

(* An authority goes that was not the last one.                            *)
LEMMA DroppedMarks ==
    ASSUME NEW old \in Retention, NEW a
    PROVE  /\ Dropped(old, a).generation = old.generation + 1
           /\ Dropped(old, a).pending = old.pending
           /\ Retained(Dropped(old, a)) <=> RetainedWithout(old, a)
  BY DEF Dropped, Retention, Retained, RetainedWithout

LEMMA SoundReleaseOne ==
    ASSUME Sound, TypesInv', NEW o \in Operations, ReleaseOne(o)
    PROVE  Sound'
  <1> DEFINE c == operations[o].checkpoint
             a == operations[o].authority
             r == Dropped(retention[c], a)
  <1>1. /\ UNCHANGED <<current, home>> /\ UNCHANGED <<store, finishing>>
        /\ retention' = [retention EXCEPT ![c] = r]
        /\ Becomes(o, "done") /\ Pending(o, "release")
    BY DEF ReleaseOne
  <1>2. c \in Committed /\ retention[c] \in Retention
    BY <1>1, PendingCommitted DEF Sound, TypesInv
  <1>3. r.generation = retention[c].generation + 1 /\ r.pending = retention[c].pending
    BY <1>2, DroppedMarks
  <1>4. Retained(r) => Retained(retention[c])
    BY <1>2, DroppedFields
  <1>5. retention[c].generation \in Nat
    BY <1>2 DEF Retention
  <1>6. JournalSteady
    BY <1>1, BecomesSteady DEF Sound
  <1> HIDE DEF r, c
  <1>7. /\ Steady
        /\ \A d \in Checkpoints : d # c => retention'[d] = retention[d]
        /\ retention'[c] = r /\ c \in Checkpoints
    <2>1. r.generation >= retention[c].generation
      BY <1>3, <1>5
    <2>2. TypesInv
      BY DEF Sound
    <2> QED BY <1>1, <1>2, <1>6, <2>1, <2>2, SteadyStep
  <1>8. \A d \in Committed : d \in Checkpoints
    BY CommittedNat DEF Sound
  <1> QED BY <1>1, <1>3, <1>4, <1>7, <1>8, StoreUntouched
-----------------------------------------------------------------------------
(* Steps of the store beside the journal: materializations, restarts and   *)
(* completions.                                                            *)
LEMMA CoreSteady == ASSUME TypesInv, UNCHANGED core PROVE Steady
  <1>1. \A d \in Checkpoints : retention[d].generation \in Nat
    BY CommittedNat DEF Retention
  <1> QED BY <1>1 DEF Steady, core

LEMMA CoreUntouched ==
    ASSUME Sound, TypesInv', UNCHANGED core, Still, DiskAgrees',
           \A c \in disk'.completed : c \in disk.completed \/ mem.references[c] = "attached",
           \A f \in Finishers :
                finishing'[f].stage = "activated" /\ finishing'[f].checkpoint \notin mem'.completed =>
                    mem.references[finishing'[f].checkpoint] = "attached"
    PROVE  Sound'
  <1>1. Steady
    BY CoreSteady DEF Sound
  <1>2. retention' = retention
    BY DEF core
  <1> QED BY <1>1, <1>2, StillStep

LEMMA SoundLeases ==
    ASSUME Sound, TypesInv', Materialize \/ \E c \in Checkpoints : ExpireMaterialization(c)
    PROVE  Sound'
  <1>1. /\ UNCHANGED core /\ UNCHANGED <<files, finishing>>
        /\ mem' = disk'
        /\ \E s : mem' = [mem EXCEPT !.leases = s]
    BY DEF Materialize, ExpireMaterialization, Save
  <1>2. mem \in Records
    BY CommittedNat DEF Sound
  <1>3. SameBut(mem, mem', {})
    BY <1>1, <1>2 DEF SameBut, Records
  <1>4. Still
    BY <1>1, <1>3 DEF Still, SameBut
  <1>5. current' = current /\ mem'.completed = mem.completed
    BY <1>1, <1>3 DEF core, SameBut
  <1>6. DiskAgrees'
    BY <1>1, <1>5 DEF DiskAgrees, Sound, Committed
  <1>7. \A c \in disk'.completed : c \in disk.completed
    BY <1>1, <1>5 DEF DiskAgrees, Sound
  <1>8. \A f \in Finishers :
            finishing'[f].stage = "activated" /\ finishing'[f].checkpoint \notin mem'.completed =>
                mem.references[finishing'[f].checkpoint] = "attached"
    BY <1>1, <1>5 DEF Sound, LastIncomplete
  <1> QED BY <1>1, <1>4, <1>6, <1>7, <1>8, CoreUntouched

LEMMA SoundRestart == ASSUME Sound, TypesInv', Restart PROVE Sound'
  <1>1. /\ UNCHANGED core /\ UNCHANGED <<files, disk>> /\ mem' = disk
        /\ finishing' = [f \in Finishers |-> [checkpoint |-> 0, stage |-> "idle"]]
    BY DEF Restart
  <1>2. Still /\ DiskAgrees' /\ \A c \in disk'.completed : c \in disk.completed
    BY <1>1 DEF Still, DiskAgrees, Sound, core, Committed
  <1>3. \A f \in Finishers : finishing'[f].stage # "activated"
    BY <1>1
  <1> QED BY <1>1, <1>2, <1>3, CoreUntouched

LEMMA SoundRead ==
    ASSUME Sound, TypesInv', NEW f \in Finishers, ReadCompletion(f)
    PROVE  Sound'
  <1>1. PICK d \in Committed \ mem.completed :
            finishing' = [finishing EXCEPT ![f] = [checkpoint |-> d, stage |-> "read"]]
    BY DEF ReadCompletion
  <1>2. UNCHANGED core /\ UNCHANGED <<mem, disk, files>>
    BY DEF ReadCompletion, store
  <1>3. Still /\ DiskAgrees' /\ \A c \in disk'.completed : c \in disk.completed
    BY <1>2 DEF Still, DiskAgrees, Sound, core, Committed
  <1>4. \A g \in Finishers : finishing'[g].stage = "activated" => finishing'[g] = finishing[g]
    BY <1>1 DEF Sound, TypesInv, StoreTypes
  <1>5. \A g \in Finishers :
            finishing'[g].stage = "activated" /\ finishing'[g].checkpoint \notin mem'.completed =>
                mem.references[finishing'[g].checkpoint] = "attached"
    BY <1>2, <1>4 DEF Sound, LastIncomplete
  <1> QED BY <1>2, <1>3, <1>5, CoreUntouched

(* A completion is recorded: its reference was attached before.            *)
LEMMA SoundComplete ==
    ASSUME Sound, TypesInv', Lossy = FALSE, NEW f \in Finishers, CompleteCommit(f)
    PROVE  Sound'
  <1> USE DEF Sound
  <1> DEFINE c == finishing[f].checkpoint
             m == [mem EXCEPT !.completed = @ \cup {c}]
  <1>1. /\ UNCHANGED core /\ files' = files
        /\ finishing' = [finishing EXCEPT ![f] = [checkpoint |-> 0, stage |-> "idle"]]
        /\ disk' = m /\ (mem' = m \/ mem' = mem)
        /\ finishing[f].stage = "activated"
    BY DEF CompleteCommit, Advance, Save
  <1>2. c \in Committed
    BY <1>1 DEF TypesInv, FinishingCommitted
  <1>3. mem \in Records /\ Committed \subseteq Checkpoints
    BY CommittedNat
  <1>4. SameBut(mem, m, {"completed"}) /\ m.completed = mem.completed \cup {c}
    BY <1>3 DEF Records, SameBut
  <1> HIDE DEF m
  <1>5. Still
    BY <1>1, <1>4 DEF Still, SameBut
  <1>6. DiskAgrees'
    BY <1>1, <1>2, <1>4 DEF DiskAgrees, SameBut, core, Committed
  <1>7. \A d \in disk'.completed : d \in disk.completed \/ mem.references[d] = "attached"
    BY <1>1, <1>4 DEF DiskAgrees, LastIncomplete
  <1>8. \A g \in Finishers : finishing'[g].stage = "activated" => finishing'[g] = finishing[g]
    BY <1>1 DEF TypesInv, StoreTypes
  <1>9. \A g \in Finishers :
            finishing'[g].stage = "activated" /\ finishing'[g].checkpoint \notin mem'.completed =>
                mem.references[finishing'[g].checkpoint] = "attached"
    BY <1>1, <1>4, <1>8 DEF LastIncomplete
  <1> QED BY <1>1, <1>5, <1>6, <1>7, <1>9, CoreUntouched

(* What is attached stays attached, and may be attached to more.           *)
LEMMA SoundActivate ==
    ASSUME Sound, TypesInv', Lossy = FALSE, NEW f \in Finishers, Activate(f)
    PROVE  Sound'
  <1> USE DEF Sound
  <1> DEFINE c == finishing[f].checkpoint
             m == [mem EXCEPT !.references[c] = "attached"]
  <1>1. /\ UNCHANGED core /\ files' = files /\ finishing[f].stage = "read"
        /\ \/ Advance(f, "idle") /\ UNCHANGED <<mem, disk>>
           \/ /\ mem.references[c] # "none" /\ mem' = m /\ disk' = m
              /\ Advance(f, "idle") \/ Advance(f, "activated")
    BY SavedAlike DEF Activate
  <1>2. c \in Committed
    BY <1>1 DEF TypesInv, FinishingCommitted
  <1>3. /\ mem \in Records /\ Committed \subseteq Checkpoints
        /\ finishing \in [Finishers -> [checkpoint : Checkpoints \cup {0},
                                        stage : {"idle", "read", "activated"}]]
    BY CommittedNat DEF TypesInv, StoreTypes
  <1>4. CASE Advance(f, "idle") /\ UNCHANGED <<mem, disk>>
    <2>1. \A g \in Finishers : finishing'[g].stage = "activated" => finishing'[g] = finishing[g]
      BY <1>3, <1>4 DEF Advance
    <2>2. Still /\ DiskAgrees' /\ \A d \in disk'.completed : d \in disk.completed
      BY <1>1, <1>4 DEF Still, DiskAgrees, core, Committed
    <2>3. \A g \in Finishers :
              finishing'[g].stage = "activated" /\ finishing'[g].checkpoint \notin mem'.completed =>
                  mem.references[finishing'[g].checkpoint] = "attached"
      BY <1>4, <2>1 DEF LastIncomplete
    <2> QED BY <1>1, <2>2, <2>3, CoreUntouched
  <1>5. CASE /\ mem.references[c] # "none" /\ mem' = m /\ disk' = m
             /\ Advance(f, "idle") \/ Advance(f, "activated")
    <2>1. SameBut(mem, m, {"references"}) /\ m.references = [mem.references EXCEPT ![c] = "attached"]
      BY <1>2, <1>3, ReferenceRecords
    <2>2. mem.references \in [Checkpoints -> {"none", "prepared", "attached"}]
      BY <1>3 DEF Records
    <2> HIDE DEF m
    <2>3. /\ mem'.references[c] = "attached"
          /\ \A d \in Checkpoints : d # c => mem'.references[d] = mem.references[d]
      BY <1>2, <1>3, <1>5, <2>1, <2>2
    <2>4. /\ mem'.contents = mem.contents /\ mem'.quarantined = mem.quarantined
          /\ mem'.moved = mem.moved /\ mem'.completed = mem.completed /\ disk' = mem'
      BY <1>5, <2>1 DEF SameBut
    <2>5. /\ current' = current /\ retention' = retention /\ operations' = operations
          /\ home' = home /\ Committed' = Committed
      BY <1>1 DEF core, Committed
    <2>6. DiskAgrees' /\ ContentsCommitted'
      BY <1>1, <2>4, <2>5 DEF DiskAgrees, ContentsCommitted
    <2>7. JournalFits'
      BY <2>4, <2>5 DEF JournalFits, Complete
    <2>8. \A w : Good(w)' <=> Good(w)
      BY <1>1, <2>4 DEF Good
    <2>9. \A d \in Checkpoints : mem.references[d] = "attached" => mem'.references[d] = "attached"
      BY <2>3
    <2>10. RetainedSound'
      <3>1. disk'.completed \subseteq disk.completed
        BY <2>4 DEF DiskAgrees
      <3> QED BY <1>3, <2>5, <2>8, <2>9, <3>1 DEF RetainedSound, Good
    <2>11. AttachmentsFirm'
      <3> SUFFICES ASSUME NEW p \in Operations, (Pending(p, "attach") /\ p \in mem.moved /\ ~Stale(p))'
                   PROVE  Firm(operations[p].checkpoint)'
        BY <2>5 DEF AttachmentsFirm, Firm, Good
      <3>1. Pending(p, "attach") /\ p \in mem.moved /\ ~Stale(p)
        BY <2>4, <2>5 DEF Pending, Stale
      <3>2. Firm(operations[p].checkpoint) /\ operations[p].checkpoint \in Checkpoints
        BY <3>1, Entries DEF AttachmentsFirm, Pending
      <3> QED BY <2>5, <2>8, <2>9, <3>2 DEF Firm, Good
    <2>12. ReleasesMoved'
      <3>1. \A d \in Checkpoints : Movable(d)' => Movable(d)
        BY <1>5, <2>3, <2>4, <2>5 DEF Movable
      <3> QED BY <2>4, <2>5, <3>1 DEF ReleasesMoved
    <2>13. LastIncomplete'
      <3>1. \A g \in Finishers : finishing'[g].stage = "activated" =>
                finishing'[g] = finishing[g] \/ finishing'[g].checkpoint = c
        BY <1>3, <1>5 DEF Advance
      <3>2. \A g \in Finishers : finishing[g].stage = "activated" =>
                finishing[g].checkpoint \in Checkpoints
        BY <1>3 DEF TypesInv, FinishingCommitted
      <3> QED BY <2>3, <2>4, <2>5, <2>9, <3>1, <3>2 DEF LastIncomplete
    <2> QED BY <2>6, <2>7, <2>10, <2>11, <2>12, <2>13
  <1> QED BY <1>1, <1>4, <1>5
-----------------------------------------------------------------------------
(* The store moves the references of a checkpoint for an operation: all of *)
(* the invariant but what it says of that checkpoint.                      *)
LEMMA MoveStep ==
    ASSUME Sound, TypesInv', Steady, UNCHANGED <<files, finishing>>,
           NEW o \in Operations, NEW kind, Pending(o, kind), NEW c \in Committed, Movable(c),
           NEW to \in {"prepared", "attached"}, to = "attached" \/ c # current,
           mem' = Moved(o, c, to), disk' = mem',
           \A d \in Checkpoints :
              \/ retention'[d].pending \in {retention[d].pending, 0}
              \/ retention'[d].pending \in mem'.moved
    PROVE  /\ DiskAgrees' /\ ContentsCommitted' /\ LastIncomplete' /\ JournalFits' /\ ReleasesMoved'
           /\ \A w : Good(w)' <=> Good(w)
           /\ mem'.references[c] = to /\ mem'.moved = mem.moved \cup {o}
           /\ \A d \in Checkpoints : d # c => mem'.references[d] = mem.references[d]
           /\ disk'.completed \subseteq disk.completed
  <1> USE DEF Sound
  <1>1. /\ mem \in Records /\ Committed \subseteq Checkpoints /\ c \in Checkpoints
    BY CommittedNat
  <1>2. /\ SameBut(mem, mem', {"references", "moved"})
        /\ mem'.references = [mem.references EXCEPT ![c] = to]
        /\ mem'.moved = mem.moved \cup {o}
    <2>1. CASE to = "attached"
      BY <1>1, <2>1, MovedRecords
    <2>2. CASE to = "prepared"
      BY <1>1, <2>2, MovedRecords
    <2> QED BY <2>1, <2>2
  <1>3. mem.references \in [Checkpoints -> {"none", "prepared", "attached"}]
    BY <1>1 DEF Records
  <1>4. /\ mem'.references[c] = to
        /\ \A d \in Checkpoints : d # c => mem'.references[d] = mem.references[d]
    BY <1>1, <1>2, <1>3
  <1>5. /\ mem'.contents = mem.contents /\ mem'.quarantined = mem.quarantined
        /\ mem'.completed = mem.completed
    BY <1>2 DEF SameBut
  <1>6. current' = current /\ home' = home /\ Committed' = Committed
    BY DEF Steady, Committed
  <1>7. DiskAgrees' /\ disk'.completed \subseteq disk.completed
    BY <1>5, <1>6 DEF DiskAgrees
  <1>8. ContentsCommitted'
    BY <1>5, <1>6 DEF ContentsCommitted, Steady
  <1>9. \A w : Good(w)' <=> Good(w)
    BY <1>5 DEF Good
  <1>10. JournalFits'
    <2>1. operations[o].state # "none" /\ mem.moved \subseteq {p \in Operations : operations[p].state # "none"}
      BY DEF Pending, JournalFits
    <2> QED BY <1>2, <1>5, <2>1, SteadyJournal
  <1>11. LastIncomplete'
    <2> SUFFICES ASSUME NEW f \in Finishers, finishing[f].stage = "activated",
                        finishing[f].checkpoint \notin mem.completed
                 PROVE  mem'.references[finishing[f].checkpoint] = "attached"
      BY <1>5, <1>6 DEF LastIncomplete
    <2>1. finishing[f].checkpoint \in Committed /\ finishing[f].checkpoint = current
          /\ mem.references[finishing[f].checkpoint] = "attached"
      BY DEF LastIncomplete, TypesInv, FinishingCommitted
    <2> QED BY <1>1, <1>4, <2>1
  <1>12. ReleasesMoved'
    <2> SUFFICES ASSUME NEW d \in Checkpoints, NEW p \in Operations, retention'[d].pending = p
                 PROVE  p \in mem'.moved \/ ~Movable(d)'
      BY DEF ReleasesMoved
    <2>1. p # 0
      BY DEF Operations
    <2>2. Movable(d)' => Movable(d)
      BY <1>4, <1>5, <1>6 DEF Movable
    <2> QED BY <1>2, <2>1, <2>2 DEF ReleasesMoved
  <1> QED BY <1>2, <1>4, <1>7, <1>8, <1>9, <1>10, <1>11, <1>12

(* Its own release, resumed: the store has not moved the references yet.   *)
LEMMA SoundReleaseLast ==
    ASSUME Sound, TypesInv', Lossy = FALSE, NEW o \in Operations, ReleaseLast(o)
    PROVE  Sound'
  <1> USE DEF Sound
  <1> DEFINE c == operations[o].checkpoint
             a == operations[o].authority
             r == IF Resuming(o) THEN retention[c]
                  ELSE [Dropped(retention[c], a) EXCEPT !.grace = "running", !.pending = o]
             r0 == [r EXCEPT !.pending = 0]
  <1>1. /\ UNCHANGED <<current, home, files, finishing>>
        /\ Pending(o, "release") /\ ~ReleaseRefused(o)
        /\ Resuming(o) \/ ~RetainedWithout(retention[c], a)
        /\ \/ /\ o \in mem.moved /\ UNCHANGED <<mem, disk>>
              /\ retention' = [retention EXCEPT ![c] = r0] /\ Becomes(o, "done")
           \/ /\ o \notin mem.moved /\ Movable(c)
              /\ mem' = Moved(o, c, "prepared") /\ disk' = mem'
              /\ \/ retention' = [retention EXCEPT ![c] = r0] /\ Becomes(o, "done")
                 \/ retention' = [retention EXCEPT ![c] = r] /\ Becomes(o, "doubtful")
           \/ /\ o \notin mem.moved /\ ~Movable(c) /\ UNCHANGED <<mem, disk>>
              /\ retention' = [retention EXCEPT ![c] = r] /\ Becomes(o, "doubtful")
    BY SavedAlike DEF ReleaseLast
  <1>2. c \in Committed /\ c \in Checkpoints /\ retention[c] \in Retention
    BY <1>1, PendingCommitted DEF TypesInv
  <1>3. retention[c].generation \in Nat
    BY <1>2 DEF Retention
  <1>4. Resuming(o) => r = retention[c] /\ ~Retained(retention[c]) /\ retention[c].pending = o
    BY DEF Resuming
  <1>5. ~Resuming(o) => /\ r.generation = retention[c].generation + 1
                        /\ r.pending = o /\ ~Retained(r)
    <2> DEFINE new == Dropped(retention[c], a)
               marked == [new EXCEPT !.grace = "running", !.pending = o]
    <2>1. new \in Retention /\ new.generation = retention[c].generation + 1
          /\ (Retained(new) <=> RetainedWithout(retention[c], a))
      BY <1>2, DroppedFields, DroppedMarks
    <2> HIDE DEF new
    <2>2. /\ marked.generation = new.generation /\ marked.pending = o
          /\ marked.lineage = new.lineage /\ marked.pin = new.pin
      BY <2>1 DEF Retention
    <2>3. Retained(marked) <=> Retained(new)
      BY <2>2 DEF Retained
    <2>4. ~Resuming(o) => r = marked
      BY DEF new
    <2> QED BY <1>1, <2>1, <2>2, <2>3, <2>4
  <1>6. r \in Retention
    BY <1>2, <1>4, DroppedFields DEF Retention
  <1> HIDE DEF r
  <1>7. /\ r0.generation = r.generation /\ r0.pending = 0 /\ (Retained(r0) <=> Retained(r))
    BY <1>6 DEF Retention, Retained
  <1> HIDE DEF r0
  <1>8. /\ r.generation >= retention[c].generation /\ r.pending = o
        /\ r0.generation >= retention[c].generation /\ r0.pending = 0
        /\ ~Retained(r) /\ ~Retained(r0)
    BY <1>3, <1>4, <1>5, <1>7
  <1>9. PICK n \in {r, r0} : retention' = [retention EXCEPT ![c] = n]
    BY <1>1
  <1>10. JournalSteady
    BY <1>1, BecomesSteady
  <1>11. /\ Steady
         /\ \A d \in Checkpoints : d # c => retention'[d] = retention[d]
         /\ retention'[c] = n
    <2>1. n.generation >= retention[c].generation
      BY <1>8
    <2> HIDE DEF c
    <2> QED BY <1>1, <1>2, <1>9, <1>10, <2>1, SteadyStep
  <1>12. ~Retained(retention'[c]) /\ retention'[c].pending \in {o, 0}
    BY <1>8, <1>11
  <1>13. \A d \in Committed : Retained(retention'[d]) => d # c /\ Retained(retention[d])
    BY <1>11, <1>12, CommittedNat
  <1>14. CASE mem' = Moved(o, c, "prepared") /\ disk' = mem' /\ o \notin mem.moved /\ Movable(c)
    <2>1. c # current
      <3>1. c = current => retention[c].lineage
        BY <1>2, CommittedNat DEF TypesInv, LineageInv, LineageKept
      <3>2. retention[c].lineage => ~Resuming(o)
        BY DEF Resuming, Retained
      <3>3. retention[c].lineage => a = "lineage" \/ RetainedWithout(retention[c], a)
        BY <1>2 DEF RetainedWithout, Retained, Retention
      <3>4. ~(a = "lineage" /\ retention[c].lineage /\ c = current)
        BY <1>1 DEF ReleaseRefused
      <3> QED BY <1>1, <3>1, <3>2, <3>3, <3>4
    <2>2. mem'.moved = mem.moved \cup {o}
      BY <1>2, <1>14, MovedRecords, CommittedNat
    <2>3. \A d \in Checkpoints :
              \/ retention'[d].pending \in {retention[d].pending, 0}
              \/ retention'[d].pending \in mem'.moved
      BY <1>11, <1>12, <2>2
    <2>4. /\ DiskAgrees' /\ ContentsCommitted' /\ LastIncomplete' /\ JournalFits' /\ ReleasesMoved'
          /\ \A w : Good(w)' <=> Good(w)
          /\ \A d \in Checkpoints : d # c => mem'.references[d] = mem.references[d]
          /\ disk'.completed \subseteq disk.completed
      BY <1>1, <1>2, <1>11, <1>14, <2>1, <2>3, MoveStep
    <2>5. current' = current /\ home' = home /\ Committed' = Committed
      BY <1>1 DEF Committed
    <2>6. RetainedSound'
      <3> SUFFICES ASSUME NEW d \in Committed, Retained(retention'[d])
                   PROVE  /\ Good(home[d])'
                          /\ d \in disk'.completed => mem'.references[d] = "attached"
        BY <2>5 DEF RetainedSound
      <3>1. d # c /\ Retained(retention[d]) /\ d \in Checkpoints
        BY <1>13, CommittedNat
      <3> QED BY <2>4, <2>5, <3>1 DEF RetainedSound, Good
    <2>7. AttachmentsFirm'
      <3> SUFFICES ASSUME NEW p \in Operations, (Pending(p, "attach") /\ p \in mem.moved /\ ~Stale(p))'
                   PROVE  Firm(operations[p].checkpoint)' /\ operations'[p].checkpoint = operations[p].checkpoint
        BY <2>5 DEF AttachmentsFirm, Firm, Good
      <3>1. /\ Pending(p, "attach") /\ ~Stale(p)
            /\ operations'[p].checkpoint = operations[p].checkpoint
            /\ operations[p].checkpoint \in Committed
        <4>1. mem.moved \subseteq {q \in Operations : operations[q].state # "none"}
              /\ operations[o].state # "none"
          BY <1>1 DEF JournalFits, Pending
        <4>2. mem.completed \subseteq mem'.completed
          BY <1>2, <1>14, MovedRecords, CommittedNat DEF SameBut
        <4> QED BY <1>11, <2>2, <4>1, <4>2, SteadyJournal
      <3>2. p # o
        BY <1>1, <3>1 DEF Pending
      <3>3. p \in mem.moved
        BY <2>2, <3>2
      <3>4. Firm(operations[p].checkpoint)
        BY <3>1, <3>3 DEF AttachmentsFirm
      <3>5. operations[p].checkpoint # c
        <4> SUFFICES ASSUME operations[p].checkpoint = c PROVE FALSE
          OBVIOUS
        <4>1. ~Resuming(o)
          BY <1>2, <1>4, <1>14 DEF ReleasesMoved
        <4>2. n.generation = retention[c].generation + 1
          BY <1>5, <1>7, <4>1
        <4>3. operations'[p].generation = retention'[c].generation
              /\ operations'[p].generation = operations[p].generation
          BY <1>11, <3>1 DEF Stale, Steady
        <4>4. operations[p].generation = retention[c].generation
          BY <3>1 DEF Stale
        <4> QED BY <1>3, <1>11, <4>2, <4>3, <4>4
      <3>6. operations[p].checkpoint \in Checkpoints
        BY <3>1, CommittedNat
      <3> QED BY <2>4, <2>5, <3>1, <3>4, <3>5, <3>6 DEF Firm, Good
    <2> QED BY <2>4, <2>6, <2>7
  <1>15. CASE UNCHANGED <<mem, disk>> /\ (o \in mem.moved \/ ~Movable(c))
    <2>1. UNCHANGED <<store, finishing>>
      BY <1>1, <1>15 DEF store
    <2>2. \A d \in Checkpoints : \/ retention'[d].pending \in {retention[d].pending, 0}
                                 \/ retention'[d].pending \in mem.moved
                                 \/ ~Movable(d)
      BY <1>11, <1>12, <1>15
    <2> QED BY <1>11, <1>13, <2>1, <2>2, StoreUntouched
  <1> QED BY <1>1, <1>14, <1>15
(* An authority is added: to a checkpoint that had one, in the lifecycle   *)
(* alone; to one that had none, with references to content that verified.  *)
LEMMA SoundAttach ==
    ASSUME Sound, TypesInv', Lossy = FALSE, NEW o \in Operations, Attach(o)
    PROVE  Sound'
  <1> USE DEF Sound
  <1> DEFINE c == operations[o].checkpoint
             r == retention[c]
             added == IF r.pin = "active" THEN [r EXCEPT !.grace = "none"]
                      ELSE [r EXCEPT !.pin = "active", !.generation = @ + 1, !.pending = 0,
                                     !.grace = "none"]
             bad == [mem EXCEPT !.quarantined = @ \cup {home[c]}]
             Attached == retention' = [retention EXCEPT ![c] = added] /\ Becomes(o, "done")
  <1>1. /\ UNCHANGED <<current, home, files, finishing>>
        /\ Pending(o, "attach") /\ ~AttachRefused(o)
        /\ \/ Attached /\ UNCHANGED <<mem, disk>> /\ (Retained(r) \/ o \in mem.moved)
           \/ retention' = retention /\ Becomes(o, "refused") /\ UNCHANGED <<mem, disk>>
           \/ /\ Movable(c) /\ home[c] \notin files /\ mem' = bad /\ disk' = bad
              /\ retention' = retention /\ Becomes(o, "refused")
           \/ /\ Movable(c) /\ home[c] \in files /\ ~Retained(r)
              /\ mem' = Moved(o, c, "attached") /\ disk' = mem'
              /\ \/ Attached
                 \/ retention' = retention /\ Becomes(o, "doubtful")
    BY SavedAlike DEF Attach, Reattach
  <1>2. c \in Committed /\ c \in Checkpoints /\ r \in Retention
    BY <1>1, PendingCommitted DEF TypesInv
  <1>3. /\ added.generation >= r.generation /\ added.pending \in {r.pending, 0}
        /\ ~Retained(r) => added.pending = 0
        /\ r.generation \in Nat
    BY <1>2 DEF Retention, Retained
  <1>4. JournalSteady
    BY <1>1, BecomesSteady
  <1>5. Attached => /\ Steady
                    /\ \A d \in Checkpoints : d # c => retention'[d] = retention[d]
                    /\ retention'[c] = added
    <2> HIDE DEF c, added
    <2> QED BY <1>1, <1>2, <1>3, <1>4, SteadyStep DEF c
  <1>6. retention' = retention => Steady
    BY <1>1, <1>4, SteadyJournalOnly
  <1>7. ~Stale(o)
    BY <1>1 DEF AttachRefused
  <1> HIDE DEF added
  <1>8. CASE Attached /\ UNCHANGED <<mem, disk>> /\ (Retained(r) \/ o \in mem.moved)
    <2>1. UNCHANGED <<store, finishing>>
      BY <1>1, <1>8 DEF store
    <2>2. Retained(r) \/ Firm(c)
      BY <1>1, <1>7, <1>8 DEF AttachmentsFirm
    <2>3. \A d \in Committed : Retained(retention'[d]) => Retained(retention[d]) \/ Firm(d)
      BY <1>5, <1>8, <2>2, CommittedNat
    <2>4. \A d \in Checkpoints : retention'[d].pending \in {retention[d].pending, 0}
      BY <1>3, <1>5, <1>8
    <2> QED BY <1>5, <1>8, <2>1, <2>3, <2>4, StoreUntouched
  <1>9. CASE retention' = retention /\ Becomes(o, "refused") /\ UNCHANGED <<mem, disk>>
    <2>1. UNCHANGED <<store, finishing>>
      BY <1>1, <1>9 DEF store
    <2> QED BY <1>6, <1>9, <2>1, StoreUntouched
  <1>10. CASE /\ Movable(c) /\ home[c] \notin files /\ mem' = bad /\ disk' = bad
              /\ retention' = retention /\ Becomes(o, "refused")
    <2>1. mem \in Records
      BY CommittedNat
    <2>2. home[c] \in Committed /\ home[c] \in Checkpoints
      BY <1>2, CommittedNat DEF ContentsCommitted
    <2>3. SameBut(mem, bad, {"quarantined"}) /\ bad.quarantined = mem.quarantined \cup {home[c]}
      BY <2>1, <2>2, SetRecords
    <2> HIDE DEF bad
    <2>4. /\ mem'.contents = mem.contents /\ mem'.references = mem.references
          /\ mem'.moved = mem.moved /\ mem'.completed = mem.completed /\ disk' = mem'
          /\ mem'.quarantined = mem.quarantined \cup {home[c]}
      BY <1>10, <2>3 DEF SameBut
    <2>5. current' = current /\ home' = home /\ files' = files /\ Committed' = Committed
      BY <1>1 DEF Committed
    <2>6. DiskAgrees' /\ LastIncomplete' /\ ReleasesMoved'
      BY <1>1, <1>10, <2>4, <2>5
      DEF DiskAgrees, LastIncomplete, ReleasesMoved, Movable
    <2>7. ContentsCommitted'
      BY <1>10, <2>2, <2>4, <2>5 DEF ContentsCommitted
    <2>8. \A w : Good(w) => Good(w)'
      BY <1>10, <2>4, <2>5 DEF Good
    <2>9. RetainedSound'
      <3>1. disk'.completed \subseteq disk.completed
        BY <2>4 DEF DiskAgrees
      <3> QED BY <1>10, <2>4, <2>5, <2>8, <3>1 DEF RetainedSound, Good
    <2>10. JournalFits' /\ \A p \in Operations :
                 (Pending(p, "attach") /\ ~Stale(p))' =>
                    /\ Pending(p, "attach") /\ ~Stale(p)
                    /\ operations'[p].checkpoint = operations[p].checkpoint
      <3>1. mem.moved \subseteq {q \in Operations : operations[q].state # "none"}
        BY DEF JournalFits
      <3> QED BY <1>6, <1>10, <2>4, <3>1, SteadyJournal
    <2>11. AttachmentsFirm'
      BY <2>4, <2>5, <2>8, <2>10 DEF AttachmentsFirm, Firm, Good
    <2> QED BY <2>6, <2>7, <2>9, <2>10, <2>11
  <1>11. CASE /\ Movable(c) /\ home[c] \in files /\ ~Retained(r)
              /\ mem' = Moved(o, c, "attached") /\ disk' = mem'
              /\ \/ Attached
                 \/ retention' = retention /\ Becomes(o, "doubtful")
    <2>1. Steady /\ \A d \in Checkpoints : d # c => retention'[d] = retention[d]
      BY <1>5, <1>6, <1>11
    <2>2. \A d \in Checkpoints : retention'[d].pending \in {retention[d].pending, 0}
      BY <1>3, <1>5, <1>11
    <2>3. /\ DiskAgrees' /\ ContentsCommitted' /\ LastIncomplete' /\ JournalFits' /\ ReleasesMoved'
          /\ \A w : Good(w)' <=> Good(w)
          /\ mem'.references[c] = "attached" /\ mem'.moved = mem.moved \cup {o}
          /\ \A d \in Checkpoints : d # c => mem'.references[d] = mem.references[d]
          /\ disk'.completed \subseteq disk.completed
      BY <1>1, <1>2, <1>11, <2>1, <2>2, MoveStep
    <2>4. current' = current /\ home' = home /\ Committed' = Committed
      BY <1>1 DEF Committed
    <2>5. Good(home[c])
      BY <1>11 DEF Good, Movable, ContentsCommitted
    <2>6. RetainedSound'
      <3> SUFFICES ASSUME NEW d \in Committed, Retained(retention'[d])
                   PROVE  /\ Good(home[d])'
                          /\ d \in disk'.completed => mem'.references[d] = "attached"
        BY <2>4 DEF RetainedSound
      <3>1. CASE d = c
        BY <2>3, <2>4, <2>5, <3>1 DEF Good
      <3>2. CASE d # c
        <4>1. d \in Checkpoints /\ Retained(retention[d])
          BY <2>1, <3>2, CommittedNat
        <4> QED BY <2>3, <2>4, <3>2, <4>1 DEF RetainedSound, Good
      <3> QED BY <3>1, <3>2
    <2>7. AttachmentsFirm'
      <3> SUFFICES ASSUME NEW p \in Operations,
                          (Pending(p, "attach") /\ p \in mem.moved /\ ~Stale(p))'
                   PROVE  Firm(operations[p].checkpoint)'
                          /\ operations'[p].checkpoint = operations[p].checkpoint
        BY <2>4 DEF AttachmentsFirm, Firm, Good
      <3>1. /\ Pending(p, "attach") /\ ~Stale(p)
            /\ operations'[p].checkpoint = operations[p].checkpoint
            /\ operations[p].checkpoint \in Committed
        <4>1. mem.moved \subseteq {q \in Operations : operations[q].state # "none"}
              /\ operations[o].state # "none"
          BY <1>1 DEF JournalFits, Pending
        <4>2. mem.completed \subseteq mem'.completed
          BY <1>2, <1>11, MovedRecords, CommittedNat DEF SameBut
        <4> QED BY <2>1, <2>3, <4>1, <4>2, SteadyJournal
      <3>2. CASE operations[p].checkpoint = c
        BY <2>3, <2>4, <2>5, <3>1, <3>2 DEF Firm, Good
      <3>3. CASE operations[p].checkpoint # c
        <4>1. p # o /\ p \in mem.moved
          BY <2>3, <3>3
        <4>2. Firm(operations[p].checkpoint) /\ operations[p].checkpoint \in Checkpoints
          BY <3>1, <4>1, CommittedNat DEF AttachmentsFirm
        <4> QED BY <2>3, <2>4, <3>1, <3>3, <4>2 DEF Firm, Good
      <3> QED BY <3>2, <3>3
    <2> QED BY <2>3, <2>6, <2>7
  <1> QED BY <1>1, <1>8, <1>9, <1>10, <1>11
-----------------------------------------------------------------------------
(* The store answers a reclamation, or fails to: what it deletes is named  *)
(* by no checkpoint that is needed or about to be.                         *)
LEMMA SoundDeletion ==
    ASSUME Sound, TypesInv', Lossy = FALSE, Steady, finishing' = finishing, Complete,
           NEW o \in Operations, NEW c \in Committed, ~Retained(retention[c]),
           ReclaimsStore(o, c),
           \A d \in Checkpoints : /\ retention'[d].pending = retention[d].pending
                                  /\ Retained(retention'[d]) => Retained(retention[d])
    PROVE  Sound'
  <1> USE DEF Sound
  <1> DEFINE w == home[c]
  <1>1. /\ mem \in Records /\ Committed \subseteq Checkpoints /\ c \in Checkpoints
        /\ Payload[c] \in Payloads
    BY CommittedNat, CheckpointStoreAssumption
  <1>2. current' = current /\ home' = home /\ Committed' = Committed
    BY DEF Steady, Committed
  <1>3. KeptIn(o) \in Records /\ SameBut(mem, KeptIn(o), {})
    BY <1>1, SetRecords DEF KeptIn
  <1>4. /\ w \in mem.contents =>
                /\ SameBut(mem, GoneIn(o, c), {"contents", "references"})
                /\ GoneIn(o, c).contents = mem.contents \ {w}
                /\ GoneIn(o, c).references = [mem.references EXCEPT ![c] = "none"]
        /\ w \notin mem.contents => SameBut(mem, GoneIn(o, c), {})
    BY <1>1, GoneRecords
  <1>5. \/ UNCHANGED <<mem, disk, files>>
        \/ files' = files /\ mem' = KeptIn(o) /\ disk' = mem'
        \/ /\ ~Blocked(c) /\ files' = Remaining(c)
           /\ \/ mem' = GoneIn(o, c) /\ disk' = mem'
              \/ mem' = disk /\ disk' = disk
    BY SavedAlike DEF ReclaimsStore
  <1>6. DiskAgrees' /\ mem.completed \subseteq mem'.completed /\ disk'.completed \subseteq disk.completed
        /\ mem'.moved = mem.moved /\ mem'.quarantined = mem.quarantined
    BY <1>2, <1>3, <1>4, <1>5 DEF DiskAgrees, SameBut
  <1>7. \A f \in Finishers :
            finishing'[f].stage = "activated" => finishing'[f].checkpoint \in mem'.completed
    BY <1>6 DEF Complete, TypesInv, FinishingCommitted
  <1>8. CASE Still
    BY <1>1, <1>6, <1>7, <1>8, StillStep
  <1>9. CASE ~Still
    <2>1. /\ ~Blocked(c) /\ w \in mem.contents /\ files' = files \ {w}
          /\ \/ /\ mem'.contents = mem.contents \ {w}
                /\ mem'.references = [mem.references EXCEPT ![c] = "none"]
             \/ mem'.contents = mem.contents /\ mem'.references = mem.references
      BY <1>3, <1>4, <1>5, <1>6, <1>9 DEF Still, Remaining, SameBut, DiskAgrees
    <2>2. mem.references \in [Checkpoints -> {"none", "prepared", "attached"}]
      BY <1>1 DEF Records
    <2>3. /\ \A d \in Checkpoints : d # c => mem'.references[d] = mem.references[d]
          /\ mem'.references[c] \in {mem.references[c], "none"}
          /\ mem'.contents \subseteq mem.contents
      BY <1>1, <2>1, <2>2
    <2>4. \A v : Good(v) /\ v # w => Good(v)'
      BY <1>6, <2>1 DEF Good
    <2>5. \A d \in Checkpoints : mem.references[d] = "attached" => home[d] # w /\ d # c
      BY <1>1, <2>1 DEF Blocked
    <2>6. \A d \in Committed : Retained(retention[d]) => mem.references[d] = "attached"
      BY DEF RetainedSound, DiskAgrees, Complete
    <2>7. RetainedSound'
      <3> SUFFICES ASSUME NEW d \in Committed, Retained(retention'[d])
                   PROVE  Good(home[d])' /\ mem'.references[d] = "attached"
        BY <1>2 DEF RetainedSound
      <3>1. Retained(retention[d]) /\ mem.references[d] = "attached" /\ d \in Checkpoints
        BY <1>1, <2>6
      <3>2. Good(home[d]) /\ home[d] # w /\ d # c
        BY <2>5, <3>1 DEF RetainedSound
      <3> QED BY <1>2, <2>3, <2>4, <3>1, <3>2 DEF Good
    <2>8. JournalFits' /\ \A p \in Operations :
                 (Pending(p, "attach") /\ ~Stale(p))' =>
                    /\ Pending(p, "attach") /\ ~Stale(p)
                    /\ operations'[p].checkpoint = operations[p].checkpoint
                    /\ operations[p].checkpoint \in Committed
      <3>1. mem.moved \subseteq {q \in Operations : operations[q].state # "none"}
        BY DEF JournalFits
      <3> QED BY <1>6, <3>1, SteadyJournal
    <2>9. AttachmentsFirm'
      <3> SUFFICES ASSUME NEW p \in Operations,
                          (Pending(p, "attach") /\ p \in mem.moved /\ ~Stale(p))'
                   PROVE  Firm(operations[p].checkpoint)'
                          /\ operations'[p].checkpoint = operations[p].checkpoint
        BY <1>2 DEF AttachmentsFirm, Firm, Good
      <3>1. /\ Firm(operations[p].checkpoint) /\ operations[p].checkpoint \in Checkpoints
            /\ operations'[p].checkpoint = operations[p].checkpoint
        BY <1>1, <1>6, <2>8 DEF AttachmentsFirm
      <3> DEFINE d == operations[p].checkpoint
      <3>2. Good(home[d]) /\ home[d] # w /\ d # c /\ mem.references[d] = "attached"
        BY <2>5, <3>1 DEF Firm
      <3> QED BY <1>2, <2>3, <2>4, <3>1, <3>2 DEF Firm, Good
    <2>10. ReleasesMoved'
      <3>1. \A d \in Checkpoints : Movable(d)' => Movable(d)
        BY <1>2, <2>3 DEF Movable
      <3> QED BY <1>6, <3>1 DEF ReleasesMoved
    <2>11. ContentsCommitted'
      BY <1>2, <1>6, <2>1, <2>3 DEF ContentsCommitted
    <2>12. LastIncomplete'
      BY <1>2, <1>6, <1>7 DEF LastIncomplete
    <2> QED BY <1>6, <2>7, <2>8, <2>9, <2>10, <2>11, <2>12
  <1> QED BY <1>8, <1>9

(* Marking a checkpoint reclaimed changes nothing the store depends on.    *)
LEMMA ReclaimedSteady ==
    ASSUME TypesInv, JournalSteady, current' = current, home' = home, NEW c \in Checkpoints,
           retention' = [retention EXCEPT ![c].reclaimed = TRUE] \/ retention' = retention
    PROVE  /\ Steady
           /\ \A d \in Checkpoints : /\ retention'[d].pending = retention[d].pending
                                     /\ Retained(retention'[d]) => Retained(retention[d])
  <1>1. retention \in [Checkpoints -> Retention]
    BY CommittedNat
  <1>2. \A d \in Checkpoints : /\ retention'[d].generation = retention[d].generation
                               /\ retention[d].generation \in Nat
                               /\ retention'[d].pending = retention[d].pending
                               /\ retention'[d].lineage = retention[d].lineage
                               /\ retention'[d].pin = retention[d].pin
    BY <1>1 DEF Retention
  <1> QED BY <1>2 DEF Steady, JournalSteady, Retained

LEMMA SoundReclaim ==
    ASSUME Sound, TypesInv', Lossy = FALSE, NEW o \in Operations, Reclaim(o)
    PROVE  Sound'
  <1> DEFINE c == operations[o].checkpoint
  <1>1. /\ c \in Committed /\ c \in Checkpoints
        /\ ~Stale(o) /\ ~MustStay(retention[c]) /\ Pending(o, "reclaim")
        /\ ReclaimsStore(o, c)
        /\ UNCHANGED <<current, home, finishing>>
        /\ Becomes(o, "done") \/ Becomes(o, "doubtful")
        /\ retention' = [retention EXCEPT ![c].reclaimed = TRUE] \/ retention' = retention
    BY ReclaimShape DEF Sound, TypesInv
  <1>2. Complete
    BY <1>1, Entries DEF Sound, Stale, Pending
  <1>3. JournalSteady
    BY <1>1, BecomesSteady DEF Sound
  <1>4. /\ Steady
        /\ \A d \in Checkpoints : /\ retention'[d].pending = retention[d].pending
                                  /\ Retained(retention'[d]) => Retained(retention[d])
    BY <1>1, <1>3, ReclaimedSteady DEF Sound
  <1>5. ~Retained(retention[c])
    BY <1>1 DEF MustStay
  <1> HIDE DEF c
  <1> QED BY <1>1, <1>2, <1>4, <1>5, SoundDeletion

LEMMA SoundRetry ==
    ASSUME Sound, TypesInv', Lossy = FALSE, NEW o \in Operations, RetryDebt(o)
    PROVE  Sound'
  <1> DEFINE c == operations[o].checkpoint
             by == debts[c].by
  <1>1. /\ c \in Committed /\ c \in Checkpoints
        /\ operations[o].fence = current /\ operations[o].kind = "retry"
        /\ \/ ReclaimsStore(o, c) /\ ~MustStay(retention[c])
           \/ UNCHANGED <<mem, disk, files, faults>>
        /\ UNCHANGED <<current, home, finishing>>
        /\ \/ operations' = [operations EXCEPT ![o].state = "done", ![by].state = "done"]
           \/ Becomes(o, "done")
        /\ retention' = [retention EXCEPT ![c].reclaimed = TRUE] \/ retention' = retention
    BY RetryShape DEF Sound, TypesInv
  <1>2. Pending(o, "retry")
    BY DEF RetryDebt
  <1>3. Complete
    BY <1>1, Entries DEF Sound
  <1>4. JournalSteady
    <2>1. CASE Becomes(o, "done")
      BY <1>2, <2>1, BecomesSteady DEF Sound
    <2>2. CASE operations' = [operations EXCEPT ![o].state = "done", ![by].state = "done"]
      <3> DEFINE mid == [operations EXCEPT ![o].state = "done"]
      <3>1. operations \in [Operations -> Operation]
        BY CommittedNat DEF Sound
      <3>2. /\ mid \in [Operations -> Operation]
            /\ \A p \in Operations : /\ mid[p].kind = operations[p].kind
                                     /\ mid[p].checkpoint = operations[p].checkpoint
                                     /\ mid[p].generation = operations[p].generation
                                     /\ mid[p].fence = operations[p].fence
                                     /\ mid[p].state \in {operations[p].state, "done"}
        BY <3>1 DEF Operation
      <3>3. operations' = [mid EXCEPT ![by].state = "done"]
        BY <2>2
      <3> HIDE DEF mid, by
      <3>4. \A p \in Operations : /\ operations'[p].kind = mid[p].kind
                                  /\ operations'[p].checkpoint = mid[p].checkpoint
                                  /\ operations'[p].generation = mid[p].generation
                                  /\ operations'[p].fence = mid[p].fence
                                  /\ operations'[p].state \in {mid[p].state, "done"}
        BY <3>2, <3>3 DEF Operation
      <3> QED BY <3>2, <3>4 DEF JournalSteady
    <2> QED BY <1>1, <2>1, <2>2
  <1>5. /\ Steady
        /\ \A d \in Checkpoints : /\ retention'[d].pending = retention[d].pending
                                  /\ Retained(retention'[d]) => Retained(retention[d])
    BY <1>1, <1>4, ReclaimedSteady DEF Sound
  <1> HIDE DEF c, by
  <1>6. CASE ReclaimsStore(o, c) /\ ~MustStay(retention[c])
    BY <1>1, <1>3, <1>5, <1>6, SoundDeletion DEF MustStay
  <1>7. CASE UNCHANGED <<mem, disk, files, faults>>
    <2>1. UNCHANGED <<store, finishing>>
      BY <1>1, <1>7 DEF store
    <2>2. \A d \in Committed : d \in Checkpoints
      BY CommittedNat DEF Sound
    <2> QED BY <1>5, <2>1, <2>2, StoreUntouched
  <1> QED BY <1>1, <1>6, <1>7
-----------------------------------------------------------------------------
(* A commit: the content is new, or another checkpoint's that is attached  *)
(* and on disk.  The previous commit is complete, and no operation of the  *)
(* journal is for the new fence.                                           *)
LEMMA SoundCommit ==
    ASSUME Sound, TypesInv', Waits = TRUE, Commit
    PROVE  Sound'
  <1> USE DEF Sound
  <1>0. PICK c \in {current + 1} : TRUE
    OBVIOUS
  <1> DEFINE reused == Reusable(Payload[c])
  <1>0a. PICK w \in {IF reused = {} THEN c ELSE CHOOSE v \in reused : TRUE} : TRUE
    OBVIOUS
  <1> DEFINE m == [mem EXCEPT !.contents = @ \cup {w}, !.references[c] = "prepared",
                              !.shared[Payload[c]] = w]
  <1>1. /\ c = current + 1
        /\ w = IF reused = {} THEN c ELSE CHOOSE v \in reused : TRUE
        /\ current < Last /\ Complete /\ (reused # {} => w \in files)
        /\ current' = c /\ home' = [home EXCEPT ![c] = w] /\ files' = files \cup {w}
        /\ mem' = m /\ disk' = mem'
        /\ retention' = [retention EXCEPT ![c].generation = 1, ![c].lineage = TRUE]
        /\ UNCHANGED <<operations, finishing>>
    BY <1>0, <1>0a DEF Commit, Save, MayAsk
  <1>2. /\ current \in Nat /\ Last \in Nat /\ Committed = 1..current /\ Checkpoints = 1..Last
        /\ Committed \subseteq Checkpoints
        /\ mem \in Records /\ retention \in [Checkpoints -> Retention]
        /\ home \in [Checkpoints -> Checkpoints \cup {0}]
    BY CommittedNat DEF TypesInv, StoreTypes
  <1>3. c \in Checkpoints /\ c \notin Committed /\ Payload[c] \in Payloads
        /\ Committed' = Committed \cup {c}
    BY <1>1, <1>2, CheckpointStoreAssumption DEF Committed
  <1>4. reused \subseteq mem.contents /\ mem.contents \subseteq Committed
    BY DEF Reusable, ContentsCommitted
  <1>5. /\ w \in Checkpoints /\ (w = c \/ w \in mem.contents)
        /\ w \in Committed' /\ w \notin mem.quarantined
    <2>1. CASE reused = {}
      BY <1>1, <1>2, <1>3, <2>1 DEF ContentsCommitted
    <2>2. CASE reused # {}
      <3>1. w \in reused
        BY <1>1, <2>2
      <3> QED BY <1>1, <1>2, <1>3, <1>4, <2>2, <3>1 DEF ContentsCommitted
    <2> QED BY <2>1, <2>2
  <1>6. /\ SameBut(mem, m, {"contents", "references"})
        /\ m.contents = mem.contents \cup {w}
        /\ m.references = [mem.references EXCEPT ![c] = "prepared"]
    <2>1. mem \in Records /\ c \in Checkpoints /\ w \in Checkpoints /\ Payload[c] \in Payloads
      BY <1>2, <1>3, <1>5
    <2> HIDE DEF reused
    <2> QED BY <2>1 DEF Records, SameBut
  <1> HIDE DEF m
  <1>7. /\ mem'.contents = mem.contents \cup {w} /\ mem'.quarantined = mem.quarantined
        /\ mem'.moved = mem.moved /\ mem'.completed = mem.completed
        /\ mem'.references = [mem.references EXCEPT ![c] = "prepared"]
    BY <1>1, <1>6 DEF SameBut
  <1>8. mem.references \in [Checkpoints -> {"none", "prepared", "attached"}]
    BY <1>2 DEF Records
  <1>9. /\ \A d \in Checkpoints : d # c => /\ mem'.references[d] = mem.references[d]
                                           /\ home'[d] = home[d]
        /\ home'[c] = w
    BY <1>1, <1>2, <1>3, <1>7, <1>8
  <1>10. /\ \A d \in Checkpoints : d # c => retention'[d] = retention[d]
         /\ retention'[c].pending = retention[c].pending
    BY <1>1, <1>2, <1>3 DEF Retention
  <1>11. \A d \in Committed : d \in Checkpoints /\ d # c
    BY <1>2, <1>3
  <1>12. current < current' /\ retention[c].pending = 0
    BY <1>1, <1>2, <1>3 DEF ContentsCommitted
  <1>13. /\ mem.completed \subseteq Committed /\ disk.completed \subseteq Committed
         /\ Committed \subseteq mem.completed /\ disk'.completed = mem.completed
    BY <1>1, <1>7 DEF DiskAgrees, Complete
  <1>14. DiskAgrees'
    BY <1>1, <1>3, <1>7, <1>13 DEF DiskAgrees
  <1>15. ContentsCommitted'
    <2>1. /\ mem'.contents \subseteq Committed' /\ mem'.quarantined \subseteq Committed'
      BY <1>3, <1>4, <1>5, <1>7 DEF ContentsCommitted
    <2>2. mem'.quarantined \cap files' = {}
      BY <1>1, <1>5, <1>7 DEF ContentsCommitted
    <2>3. \A d \in Committed' : home'[d] \in Committed'
      BY <1>3, <1>5, <1>9, <1>11 DEF ContentsCommitted
    <2>4. \A d \in Checkpoints : d > current' => retention'[d].pending = 0
      BY <1>1, <1>2, <1>10, <1>12 DEF ContentsCommitted
    <2> QED BY <2>1, <2>2, <2>3, <2>4 DEF ContentsCommitted
  <1>16. LastIncomplete'
    <2>1. \A d \in Committed' : d \notin mem'.completed => d = current'
      BY <1>1, <1>3, <1>7, <1>13
    <2>2. \A f \in Finishers : finishing'[f].stage = "activated" =>
              finishing'[f].checkpoint \in mem'.completed
      BY <1>1, <1>7, <1>13 DEF TypesInv, FinishingCommitted
    <2> QED BY <2>1, <2>2 DEF LastIncomplete
  <1>17. \A o \in Operations : operations[o].kind # "none" => operations[o].fence # current'
                                  /\ operations[o].fence <= current'
    <2> SUFFICES ASSUME NEW o \in Operations, operations[o].kind # "none"
                 PROVE  operations[o].fence # current' /\ operations[o].fence <= current'
      OBVIOUS
    <2>1. operations[o].fence \in Nat /\ operations[o].fence <= current
      BY Entries
    <2> QED BY <1>1, <1>2, <1>12, <2>1
  <1>18. JournalFits'
    <2>1. \A o \in Operations : operations[o].kind # "none" =>
              operations[o].generation <= retention'[operations[o].checkpoint].generation
      BY <1>10, <1>11, Entries
    <2> QED BY <1>1, <1>7, <1>17, <2>1 DEF JournalFits
  <1>19. \A v : Good(v) => Good(v)'
    BY <1>1, <1>7 DEF Good
  <1>20. Good(w)'
    BY <1>1, <1>5, <1>7 DEF Good
  <1>21. RetainedSound'
    <2> SUFFICES ASSUME NEW d \in Committed', Retained(retention'[d])
                 PROVE  /\ Good(home[d])'
                        /\ d \in disk'.completed => mem'.references[d] = "attached"
      BY DEF RetainedSound, Good
    <2>1. CASE d = c
      BY <1>3, <1>9, <1>13, <1>20, <2>1 DEF Good
    <2>2. CASE d # c
      <3>1. d \in Committed /\ Retained(retention[d])
        BY <1>3, <1>10, <1>11, <2>2
      <3>2. Good(home[d]) /\ (d \in disk.completed => mem.references[d] = "attached")
        BY <3>1 DEF RetainedSound
      <3>3. d \in disk.completed
        BY <1>13, <3>1 DEF DiskAgrees
      <3> QED BY <1>9, <1>11, <1>19, <2>2, <3>1, <3>2, <3>3 DEF Good
    <2> QED BY <2>1, <2>2
  <1>22. AttachmentsFirm'
    BY <1>1, <1>17 DEF AttachmentsFirm, Pending, Stale
  <1>23. ReleasesMoved'
    <2> SUFFICES ASSUME NEW d \in Checkpoints, NEW o \in Operations, retention'[d].pending = o
                 PROVE  o \in mem'.moved \/ ~Movable(d)'
      BY DEF ReleasesMoved
    <2>1. o # 0
      BY DEF Operations
    <2>2. d # c
      BY <1>10, <1>12, <2>1
    <2>3. retention[d].pending = o
      BY <1>10, <2>2
    <2>4. d \in Committed
      BY <1>2, <2>1, <2>3 DEF ContentsCommitted
    <2>5. home[d] \in Committed /\ home'[d] = home[d] /\ mem'.references[d] = mem.references[d]
      BY <1>9, <2>2, <2>4 DEF ContentsCommitted
    <2>6. home[d] \in mem'.contents => home[d] \in mem.contents
      BY <1>3, <1>5, <1>7, <2>5
    <2> QED BY <1>7, <2>3, <2>5, <2>6 DEF ReleasesMoved, Movable
  <1> QED BY <1>14, <1>15, <1>16, <1>18, <1>21, <1>22, <1>23

LEMMA SoundInit == Init => Sound
  <1> SUFFICES ASSUME Init PROVE Sound
    OBVIOUS
  <1>1. TypesInv
    BY TypesInit
  <1>2. Committed = {}
    BY DEF Init, Committed
  <1>3. /\ current = 0 /\ mem.contents = {} /\ mem.quarantined = {} /\ mem.moved = {}
        /\ mem.completed = {} /\ disk = mem
        /\ \A c \in Checkpoints : retention[c].pending = 0
        /\ \A o \in Operations : operations[o].kind = "none"
        /\ \A f \in Finishers : finishing[f].stage = "idle"
    BY DEF Init
  <1>4. \A o \in Operations : o # 0
    BY DEF Operations
  <1>5. DiskAgrees /\ ContentsCommitted /\ LastIncomplete /\ JournalFits /\ RetainedSound
    BY <1>2, <1>3 DEF DiskAgrees, ContentsCommitted, LastIncomplete, JournalFits, RetainedSound
  <1>6. AttachmentsFirm /\ ReleasesMoved
    BY <1>3, <1>4 DEF AttachmentsFirm, ReleasesMoved, Pending
  <1> QED BY <1>1, <1>5, <1>6 DEF Sound

LEMMA SoundStep ==
    ASSUME Waits = TRUE, Lossy = FALSE
    PROVE  Sound /\ [Next]_vars => Sound'
  <1> SUFFICES ASSUME Sound, [Next]_vars PROVE Sound'
    OBVIOUS
  <1>1. TypesInv'
    BY TypesStep DEF Sound
  <1>2. CASE Commit
    BY <1>1, <1>2, SoundCommit
  <1>3. ASSUME NEW f \in Finishers, Finish(f) PROVE Sound'
    BY <1>1, <1>3, SoundRead, SoundActivate, SoundComplete DEF Finish
  <1>4. ASSUME NEW o \in Operations, Ask(o) PROVE Sound'
    BY <1>1, <1>4, SoundAsk
  <1>5. ASSUME NEW o \in Operations, Perform(o) PROVE Sound'
    <2>1. CASE RefuseRelease(o) \/ RefuseAttach(o) \/ RefuseReclaim(o) \/ DeclineReclaim(o)
      BY <1>1, <2>1, SoundRefusals
    <2>2. CASE ReleaseOne(o)
      BY <1>1, <2>2, SoundReleaseOne
    <2>3. CASE ReleaseLast(o)
      BY <1>1, <2>3, SoundReleaseLast
    <2>4. CASE Attach(o)
      BY <1>1, <2>4, SoundAttach
    <2>5. CASE Reclaim(o)
      BY <1>1, <2>5, SoundReclaim
    <2>6. CASE RetryDebt(o)
      BY <1>1, <2>6, SoundRetry
    <2> QED BY <1>5, <2>1, <2>2, <2>3, <2>4, <2>5, <2>6 DEF Perform
  <1>6. CASE Materialize \/ \E c \in Checkpoints : ExpireMaterialization(c)
    BY <1>1, <1>6, SoundLeases
  <1>7. ASSUME NEW c \in Checkpoints, PassGrace(c) \/ ExpirePin(c) PROVE Sound'
    BY <1>1, <1>7, SoundTime
  <1>8. CASE Restart
    BY <1>1, <1>8, SoundRestart
  <1>9. CASE UNCHANGED vars
    <2>1. UNCHANGED core /\ Still /\ UNCHANGED <<disk, mem, finishing>>
      BY <1>9 DEF vars, store, Still
    <2>2. DiskAgrees'
      BY <2>1 DEF Sound, DiskAgrees, Committed, core
    <2>3. \A f \in Finishers :
              finishing'[f].stage = "activated" /\ finishing'[f].checkpoint \notin mem'.completed =>
                  mem.references[finishing'[f].checkpoint] = "attached"
      BY <2>1 DEF Sound, LastIncomplete
    <2> QED BY <1>1, <2>1, <2>2, <2>3, CoreUntouched
  <1> QED BY <1>2, <1>3, <1>4, <1>5, <1>6, <1>7, <1>8, <1>9 DEF Next

(* A checkpoint somebody needs can be recovered, in this process and in    *)
(* the next one, for any number of checkpoints, operations, callers and    *)
(* faults: ReclaimCheckpointContent deletes what no attached reference     *)
(* names, and activateCheckpoint, the release of the last authority and    *)
(* its attachment keep the references where the lifecycle needs them.      *)
THEOREM ContentAlwaysKept ==
    ASSUME Waits = TRUE, Lossy = FALSE
    PROVE  Spec => []StoreInvariant
  <1>1. Sound => StoreInvariant
    <2> SUFFICES ASSUME Sound PROVE StoreInvariant
      OBVIOUS
    <2>1. TypeOK
      BY TypesSplit DEF Sound, TypesInv, LineageInv
    <2>2. ContentKept
      BY DEF Sound, RetainedSound, DiskAgrees, Good, ContentKept
    <2> QED BY <2>1, <2>2 DEF StoreInvariant
  <1>2. Sound /\ [Next]_vars => Sound'
    BY SoundStep
  <1> QED BY <1>1, <1>2, SoundInit, PTL DEF Spec
=============================================================================
