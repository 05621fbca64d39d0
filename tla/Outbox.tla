------------------------------- MODULE Outbox -------------------------------
(***************************************************************************)
(* Task Orchestration's outbox: how the operations a decision committed    *)
(* are claimed under a fenced lease, sent to the component that owns them, *)
(* and closed in the delivery ledger; what a lost answer, a slow or dead   *)
(* worker, a second delivery of one claim and a newer operation of the     *)
(* same scope do to that.  The ledger is the PostgreSQL one; the component *)
(* behind the transport is the deterministic owned transport.              *)
(*                                                                         *)
(* There is no clock.  A lease is "live" until ExpireLease; the deadline   *)
(* of a call is the lease expiry it read, so it passes with the lease, or  *)
(* earlier when a heartbeat extended the lease after the call began.       *)
(***************************************************************************)
EXTENDS Naturals, FiniteSets

CONSTANTS Operations,   \* operation identifiers, ordered as the claim query orders them
          Scopes, Scope,\* (task, fence kind, phase run, runtime run) of an operation
          MaxPosition,  \* bound: positions (activity generation, fence) within a scope
          MaxEpoch,     \* bound: recovery safety epochs
          BatchSize,    \* the dispatcher's MaxBatchSize
          Copies,       \* bound: deliveries of one claim
          MaxFaults     \* bound: crashes, errors, deferrals, premature expiries, recoveries

ASSUME OutboxAssumption ==
    /\ Operations \subseteq Nat
    /\ Scope \in [Operations -> Scopes]
    /\ MaxPosition \in Nat \ {0}
    /\ MaxEpoch \in Nat
    /\ BatchSize \in Nat \ {0}
    /\ Copies \subseteq Nat /\ 1 \in Copies
    /\ MaxFaults \in Nat

VARIABLES position,       \* outbox: the operation's order in its scope, 0 before it is committed
          epoch,          \* outbox: the safety epoch it was committed under
          recoveryEpoch,  \* the recovery state's safety epoch
          row,            \* the delivery ledger
          calls,          \* deliveries in progress
          probes,         \* reconciliations in progress
          journal,        \* downstream: what became of an operation
          latest,         \* downstream: the newest position accepted in a scope
          faults          \* faults so far

outbox == <<position, epoch, recoveryEpoch>>
downstream == <<journal, latest>>
vars == <<outbox, row, calls, probes, downstream, faults>>

Dispositions == {"Pending", "Claimed", "Deferred", "ReconciliationRequired",
                 "Accepted", "Superseded", "Poisoned"}
Terminal == {"Accepted", "Superseded", "Poisoned"}
Answers == {"none", "error", "Unknown", "Deferred"} \cup Terminal

Row == [disposition : Dispositions, fence : Nat, lease : {"none", "live", "expired"},
        sendStarted : BOOLEAN, waiting : BOOLEAN, reconcileFence : Nat]

Call == [op : Operations, fence : Nat, copy : Copies,
         stage : {"claimed", "begun", "superseding", "cleared", "sending", "answered"},
         deadline : {"lease", "short", "late"}, answer : Answers]

Probe == [op : Operations, fence : Nat, answer : {"none", "Unknown"} \cup Terminal]

Committed == {o \in Operations : position[o] > 0}
Open(o) == row[o].disposition \notin Terminal
Newer(n, o) == Scope[n] = Scope[o] /\ position[n] > position[o]
HasNewer(o) == \E n \in Committed : Newer(n, o)
Outdated(o) == recoveryEpoch > epoch[o]
Fault == faults < MaxFaults /\ faults' = faults + 1

-----------------------------------------------------------------------------
Init ==
    /\ position = [o \in Operations |-> 0]
    /\ epoch = [o \in Operations |-> 0]
    /\ recoveryEpoch = 0
    /\ row = [o \in Operations |->
                [disposition |-> "Pending", fence |-> 0, lease |-> "none",
                 sendStarted |-> FALSE, waiting |-> FALSE, reconcileFence |-> 0]]
    /\ calls = {}
    /\ probes = {}
    /\ journal = [o \in Operations |-> "Unknown"]
    /\ latest = [s \in Scopes |-> 0]
    /\ faults = 0

\* A decision commits one more operation of a scope, never an older one (the
\* positions of a scope are numbered without gaps: only their order matters).
Commit(o) ==
    /\ position[o] = 0
    /\ \E p \in 1..MaxPosition :
         /\ \A other \in Committed : Scope[other] = Scope[o] => position[other] <= p
         /\ p = 1 \/ \E other \in Committed : Scope[other] = Scope[o] /\ p <= position[other] + 1
         /\ position' = [position EXCEPT ![o] = p]
    /\ epoch' = [epoch EXCEPT ![o] = recoveryEpoch]
    /\ UNCHANGED <<recoveryEpoch, row, calls, probes, downstream, faults>>

\* A recovery fence, counted among the faults.
RaiseRecoveryEpoch ==
    /\ recoveryEpoch < MaxEpoch
    /\ recoveryEpoch' = recoveryEpoch + 1
    /\ Fault
    /\ UNCHANGED <<position, epoch, row, calls, probes, downstream>>

-----------------------------------------------------------------------------
\* A row that nobody holds any more, with a disposition of its own.
Released(o, disposition) ==
    [row[o] EXCEPT !.disposition = disposition, !.lease = "none", !.sendStarted = FALSE]

\* Variant: the sweep closes rows whose request is on its way.
SweptWhileSending(o) ==
    /\ o \in Committed /\ Open(o)
    /\ row[o].disposition # "ReconciliationRequired"
    /\ HasNewer(o)

Swept(o) ==
    /\ o \in Committed /\ Open(o)
    /\ ~row[o].sendStarted
    /\ row[o].disposition # "ReconciliationRequired"
    /\ HasNewer(o)

\* Variant: a claim that expired is not claimed again.
DueUnleased(o) ==
    /\ o \in Committed /\ Open(o) /\ ~Swept(o)
    /\ row[o].disposition # "ReconciliationRequired"
    /\ ~row[o].waiting
    /\ row[o].lease = "none"

Due(o) ==
    /\ o \in Committed /\ Open(o) /\ ~Swept(o)
    /\ row[o].disposition # "ReconciliationRequired"
    /\ ~row[o].waiting
    /\ row[o].lease # "live"

\* The first rows the query returns, those another transaction locks aside.
Batch(locked) ==
    LET found == {o \in Operations : Due(o)} \ locked
    IN  {o \in found : Cardinality({other \in found : other < o}) < BatchSize}

Unsent(o) == ~row[o].sendStarted /\ ~Outdated(o)

\* Variant: a row whose request was sent is claimed like any other.
ClaimRowResends(o) ==
    IF Outdated(o) THEN Released(o, "Superseded")
    ELSE [row[o] EXCEPT !.disposition = "Claimed", !.fence = @ + 1, !.lease = "live",
                        !.waiting = FALSE, !.sendStarted = FALSE]

ClaimRow(o) ==
    IF row[o].sendStarted THEN Released(o, "ReconciliationRequired")
    ELSE IF Outdated(o) THEN Released(o, "Superseded")
    ELSE [row[o] EXCEPT !.disposition = "Claimed", !.fence = @ + 1, !.lease = "live",
                        !.waiting = FALSE]

NewCall(o, fence, copy) ==
    [op |-> o, fence |-> fence, copy |-> copy, stage |-> "claimed",
     deadline |-> "lease", answer |-> "none"]

\* One claim transaction: the sweep of superseded rows, then the batch.
Claim(locked) ==
    LET batch == Batch(locked)
    IN  /\ batch # {} \/ \E o \in Operations : Swept(o)
        /\ row' = [o \in Operations |->
                     IF Swept(o) THEN Released(o, "Superseded")
                     ELSE IF o \in batch THEN ClaimRow(o)
                     ELSE row[o]]
        /\ calls' = calls \cup {NewCall(o, row[o].fence + 1, 1) : o \in {b \in batch : Unsent(b)}}
        /\ UNCHANGED <<outbox, probes, downstream, faults>>

\* The lease a call was given is still the row's.
Holds(c) ==
    /\ Open(c.op)
    /\ row[c.op].lease # "none"
    /\ row[c.op].fence = c.fence

HoldsLive(c) == Holds(c) /\ row[c.op].lease = "live"

Step(c, d) == calls' = (calls \ {c}) \cup {d}
End(c) == calls' = calls \ {c}

\* A heartbeat: the lease now outlives the deadline a running call has read.
Heartbeat(o) ==
    /\ row[o].lease = "live" /\ Open(o)
    /\ \E c \in calls : c.op = o /\ c.fence = row[o].fence
                        /\ c.stage \in {"cleared", "sending"} /\ c.deadline = "lease"
    /\ calls' = {IF c.op = o /\ c.fence = row[o].fence /\ c.deadline = "lease"
                      /\ c.stage # "claimed"
                 THEN [c EXCEPT !.deadline = "short"] ELSE c : c \in calls}
    /\ Fault
    /\ UNCHANGED <<outbox, row, probes, downstream>>

\* A worker delivers the claim it holds once more, after a delivery of it failed.
DeliverAgain(o, copy) ==
    /\ Open(o) /\ row[o].lease # "none"
    /\ \A d \in calls : ~(d.op = o /\ d.fence = row[o].fence /\ d.copy = copy)
    /\ calls' = calls \cup {NewCall(o, row[o].fence, copy)}
    /\ Fault
    /\ UNCHANGED <<outbox, row, probes, downstream>>

-----------------------------------------------------------------------------
\* beginDelivery; a send already started makes the outcome doubtful at once.
BeginDelivery(c) ==
    /\ c.stage = "claimed"
    /\ HoldsLive(c)
    /\ IF row[c.op].sendStarted
       THEN /\ row' = [row EXCEPT ![c.op] = Released(c.op, "ReconciliationRequired")]
            /\ End(c)
       ELSE /\ Step(c, [c EXCEPT !.stage = "begun"])
            /\ UNCHANGED row
    /\ UNCHANGED <<outbox, probes, downstream, faults>>

\* supersededBeforeSend, a read outside any transaction of the ledger.
CheckSuperseded(c) ==
    /\ c.stage = "begun"
    /\ Step(c, [c EXCEPT !.stage = IF HasNewer(c.op) \/ Outdated(c.op)
                                   THEN "superseding" ELSE "cleared"])
    /\ UNCHANGED <<outbox, row, probes, downstream, faults>>

FinishSuperseded(c) ==
    /\ c.stage = "superseding"
    /\ Holds(c)
    /\ row' = [row EXCEPT ![c.op] = Released(c.op, "Superseded")]
    /\ End(c)
    /\ UNCHANGED <<outbox, probes, downstream, faults>>

MarkSendStarted(c) ==
    /\ c.stage = "cleared"
    /\ HoldsLive(c)
    /\ ~row[c.op].sendStarted
    /\ row' = [row EXCEPT ![c.op].sendStarted = TRUE]
    /\ Step(c, [c EXCEPT !.stage = "sending"])
    /\ UNCHANGED <<outbox, probes, downstream, faults>>

\* The claim was lost: the delivery returns ClaimLost and changes nothing.
LoseClaim(c) ==
    /\ \/ c.stage = "claimed" /\ ~HoldsLive(c)
       \/ c.stage = "superseding" /\ ~Holds(c)
       \/ c.stage = "cleared" /\ (~HoldsLive(c) \/ row[c.op].sendStarted)
       \/ c.stage = "answered" /\ ~Holds(c)
       \/ c.stage = "answered" /\ c.answer = "Accepted" /\ ~HoldsLive(c)
    /\ End(c)
    /\ UNCHANGED <<outbox, row, probes, downstream, faults>>

-----------------------------------------------------------------------------
Answer(c, answer) == Step(c, [c EXCEPT !.stage = "answered", !.answer = answer])

\* The component answers an operation it knows from its journal.
Replay(c) ==
    /\ c.stage = "sending"
    /\ journal[c.op] # "Unknown"
    /\ Answer(c, journal[c.op])
    /\ UNCHANGED <<outbox, row, probes, downstream, faults>>

\* A new operation: late, overtaken, or performed.
Perform(c) ==
    /\ c.stage = "sending"
    /\ journal[c.op] = "Unknown"
    /\ LET s == Scope[c.op]
           outcome == IF c.deadline = "late" THEN "error"
                      ELSE IF position[c.op] < latest[s] THEN "Superseded"
                      ELSE "Accepted"
       IN  /\ Answer(c, outcome)
           /\ journal' = IF outcome = "error" THEN journal
                         ELSE [journal EXCEPT ![c.op] = outcome]
           /\ latest' = IF outcome = "Accepted"
                        THEN [latest EXCEPT ![s] = position[c.op]] ELSE latest
    /\ UNCHANGED <<outbox, row, probes, faults>>

\* Its prerequisites are not met, it refuses the version or the authority,
\* or the transport fails before the request arrives.
Decline(c) ==
    /\ c.stage = "sending"
    /\ \/ journal[c.op] = "Unknown" /\ c.deadline # "late" /\ Answer(c, "Deferred")
       \/ Answer(c, "Poisoned")
       \/ Answer(c, "error")
    /\ Fault
    /\ UNCHANGED <<outbox, row, probes, downstream>>

\* The answer is lost on its way back.
LoseAnswer(c) ==
    /\ c.stage = "answered" /\ c.answer # "error"
    /\ Answer(c, "error")
    /\ Fault
    /\ UNCHANGED <<outbox, row, probes, downstream>>

\* finishClaim with the normalized outcome.
FinishDelivery(c) ==
    /\ c.stage = "answered"
    /\ Holds(c)
    /\ c.answer = "Accepted" => HoldsLive(c)
    /\ \/ /\ c.answer \in Terminal
          /\ row' = [row EXCEPT ![c.op] = Released(c.op, c.answer)]
       \/ /\ c.answer = "Deferred"
          /\ row' = [row EXCEPT ![c.op] = [Released(c.op, "Deferred") EXCEPT !.waiting = TRUE]]
       \/ /\ c.answer \in {"error", "Deferred"}
          /\ row' = [row EXCEPT ![c.op] = Released(c.op, "ReconciliationRequired")]
    /\ End(c)
    /\ UNCHANGED <<outbox, probes, downstream, faults>>

-----------------------------------------------------------------------------
\* Reconcile takes a fence of its own; a second reconciler is a fault.
StartReconcile(o) ==
    /\ Open(o) /\ row[o].disposition = "ReconciliationRequired"
    /\ IF \E p \in probes : p.op = o THEN Fault ELSE UNCHANGED faults
    /\ row' = [row EXCEPT ![o].reconcileFence = @ + 1]
    /\ probes' = probes \cup
         {[op |-> o, fence |-> row[o].reconcileFence + 1, answer |-> "none"]}
    /\ UNCHANGED <<outbox, calls, downstream>>

InspectDownstream(p) ==
    /\ p.answer = "none"
    /\ \/ /\ probes' = (probes \ {p}) \cup {[p EXCEPT !.answer = journal[p.op]]}
          /\ UNCHANGED faults
       \/ /\ probes' = (probes \ {p}) \cup {[p EXCEPT !.answer = "Poisoned"]}
          /\ Fault
    /\ UNCHANGED <<outbox, row, calls, downstream>>

FinishReconcile(p) ==
    /\ p.answer # "none"
    /\ probes' = probes \ {p}
    /\ row' = IF /\ Open(p.op) /\ row[p.op].disposition = "ReconciliationRequired"
                 /\ row[p.op].reconcileFence = p.fence
              THEN [row EXCEPT ![p.op].disposition =
                      IF p.answer = "Unknown" THEN "Pending" ELSE p.answer,
                                ![p.op].waiting = FALSE]
              ELSE row
    /\ UNCHANGED <<outbox, calls, downstream, faults>>

-----------------------------------------------------------------------------
\* A worker or a reconciler dies; its call never arrives, its answer is not read.
Crash ==
    /\ Fault
    /\ \/ \E c \in calls : End(c) /\ UNCHANGED probes
       \/ \E p \in probes : probes' = probes \ {p} /\ UNCHANGED calls
    /\ UNCHANGED <<outbox, row, downstream>>

\* Time passes: under a call still running this counts as a fault.
ExpireLease(o) ==
    /\ row[o].lease = "live"
    /\ row' = [row EXCEPT ![o].lease = "expired"]
    /\ LET mine == {c \in calls : c.op = o /\ c.fence = row[o].fence}
       IN  /\ IF mine = {} THEN UNCHANGED faults ELSE Fault
           /\ calls' = (calls \ mine) \cup {[c EXCEPT !.deadline = "late"] : c \in mine}
    /\ UNCHANGED <<outbox, probes, downstream>>

PassDeadline(c) ==
    /\ c.stage \in {"cleared", "sending"} /\ c.deadline # "late"
    /\ c.deadline = "short" \/ ~Holds(c)
    /\ Step(c, [c EXCEPT !.deadline = "late"])
    /\ UNCHANGED <<outbox, row, probes, downstream, faults>>

RetryDue(o) ==
    /\ row[o].waiting
    /\ row' = [row EXCEPT ![o].waiting = FALSE]
    /\ UNCHANGED <<outbox, calls, probes, downstream, faults>>

-----------------------------------------------------------------------------
Next ==
    \/ \E o \in Operations : Commit(o)
    \/ RaiseRecoveryEpoch
    \/ \E locked \in SUBSET Operations : Claim(locked)
    \/ \E o \in Operations : Heartbeat(o) \/ \E copy \in Copies : DeliverAgain(o, copy)
    \/ \E c \in calls : BeginDelivery(c) \/ CheckSuperseded(c) \/ FinishSuperseded(c)
                        \/ MarkSendStarted(c) \/ LoseClaim(c)
    \/ \E c \in calls : Replay(c) \/ Perform(c) \/ Decline(c) \/ LoseAnswer(c)
                        \/ FinishDelivery(c)
    \/ \E o \in Operations : StartReconcile(o)
    \/ \E p \in probes : InspectDownstream(p) \/ FinishReconcile(p)
    \/ Crash
    \/ \E o \in Operations : ExpireLease(o) \/ RetryDue(o)
    \/ \E c \in calls : PassDeadline(c)

Spec == Init /\ [][Next]_vars

(***************************************************************************)
(* The dispatcher polls, a running delivery or reconciliation goes on, and *)
(* time passes.  Nothing is promised of commits, of heartbeats or of the   *)
(* recovery epoch, and a fault may always or never happen.                 *)
(***************************************************************************)
Proceed(c) ==
    \/ BeginDelivery(c) \/ CheckSuperseded(c) \/ FinishSuperseded(c) \/ MarkSendStarted(c)
    \/ LoseClaim(c) \/ Replay(c) \/ Perform(c) \/ FinishDelivery(c)

Fairness ==
    /\ WF_vars(Claim({}))
    /\ \A o \in Operations :
         /\ WF_vars(\E c \in calls : c.op = o /\ Proceed(c))
         /\ WF_vars(\E p \in probes : p.op = o /\ (InspectDownstream(p) \/ FinishReconcile(p)))
         /\ WF_vars(StartReconcile(o) \/ ExpireLease(o) \/ RetryDue(o))

FairSpec == Spec /\ Fairness

-----------------------------------------------------------------------------
(* Every variable keeps its type: the ledger's rows, the deliveries and    *)
(* reconciliations in progress, and the downstream journal.                *)
TypeOK ==
    /\ position \in [Operations -> 0..MaxPosition]
    /\ epoch \in [Operations -> 0..MaxEpoch]
    /\ recoveryEpoch \in 0..MaxEpoch
    /\ row \in [Operations -> Row]
    /\ calls \subseteq Call
    /\ probes \subseteq Probe
    /\ journal \in [Operations -> {"Unknown", "Accepted", "Superseded"}]
    /\ latest \in [Scopes -> 0..MaxPosition]
    /\ faults \in 0..MaxFaults

(* A request on its way that can still take effect is the one the ledger   *)
(* knows of: its claim is current and marked as sending, so neither the    *)
(* sweep nor a new claim nor a reconciliation decides over its head.       *)
LiveSendIsKnown ==
    \A c \in calls :
        c.stage = "sending" /\ c.deadline # "late" => Holds(c) /\ row[c.op].sendStarted

(* An operation is closed as superseded only for a reason: a newer         *)
(* operation of its scope was committed or recovery moved past its epoch.  *)
SupersededForAReason ==
    \A o \in Committed : row[o].disposition = "Superseded" => HasNewer(o) \/ Outdated(o)

(* What the rows say at every moment: they are well formed, the ledger     *)
(* knows of every request that can take effect (beginDelivery,             *)
(* markSendStarted), and nothing is superseded without a reason.           *)
DeliveryInvariant == TypeOK /\ LiveSendIsKnown /\ SupersededForAReason

(* What every committed operation is owed: the ledger closes it, however   *)
(* deliveries fail, as long as they do not fail for ever.                  *)
OperationsClose == \A o \in Operations : o \in Committed ~> ~Open(o)

(* The outbox implements its contract when no claim is delivered by two    *)
(* calls at once: the verdict of the ledger and the effect downstream      *)
(* agree, and both are final.                                              *)
Contract == INSTANCE DeliveryContract WITH
    Positions <- 1..MaxPosition,
    effect <- [o \in Operations |-> journal[o] = "Accepted"],
    verdict <- [o \in Operations |->
                  CASE row[o].disposition = "Accepted" -> "done"
                    [] row[o].disposition = "Superseded" -> "dropped"
                    [] row[o].disposition = "Poisoned" -> "refused"
                    [] OTHER -> "open"]

HonoursContract == Contract!Spec
=============================================================================
