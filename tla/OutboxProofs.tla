---------------------------- MODULE OutboxProofs ----------------------------
(* For every set of operations and scopes, when no claim is delivered by two  *)
(* calls at once: the ledger knows of every request that can take effect,     *)
(* supersedes nothing without a reason, and honours the delivery contract.    *)
EXTENDS Outbox, TLAPS

Doubtful(o) == row[o].disposition = "ReconciliationRequired"

\* A row is leased as long as it is claimed, and only a claimed one is sending.
RowsConsistent ==
    \A o \in Operations :
        /\ row[o].lease # "none" <=> row[o].disposition = "Claimed"
        /\ row[o].sendStarted => row[o].disposition = "Claimed"
        /\ position[o] = 0 => row[o].disposition = "Pending"

\* One call delivers a claim.
CallsUnique == \A c, d \in calls : c.op = d.op /\ c.fence = d.fence => c = d

\* A request that can take effect was sent under the lease the row has; a call
\* that has not sent knows that nothing was sent; what a call was told is true.
CallOK(c) ==
    /\ position[c.op] > 0 /\ c.fence <= row[c.op].fence
    /\ c.stage = "sending" /\ c.deadline # "late" => HoldsLive(c) /\ row[c.op].sendStarted
    /\ c.stage \in {"begun", "superseding"} /\ Holds(c) => ~row[c.op].sendStarted
    /\ c.stage = "superseding" => HasNewer(c.op) \/ Outdated(c.op)
    /\ c.answer \in {"Accepted", "Superseded"} => journal[c.op] = c.answer
    /\ c.answer = "Deferred" /\ Holds(c) => journal[c.op] = "Unknown"

CallsOK == \A c \in calls : CallOK(c)

ProbesFenced ==
    /\ \A p \in probes : /\ p.fence <= row[p.op].reconcileFence
                         /\ p.fence = row[p.op].reconcileFence => Doubtful(p.op)
    /\ \A p, q \in probes : p.op = q.op /\ p.fence = q.fence => p = q

ProbesTruthful ==
    \A p \in probes :
        /\ p.answer \in {"Accepted", "Superseded"} => journal[p.op] = p.answer
        /\ p.answer = "Unknown" /\ p.fence = row[p.op].reconcileFence =>
              journal[p.op] = "Unknown"

\* The component accepts in order, and what it superseded has a successor.
JournalOrdered ==
    /\ \A o \in Operations : journal[o] # "Unknown" => position[o] > 0
    /\ \A o \in Operations : journal[o] = "Accepted" => position[o] <= latest[Scope[o]]
    /\ \A o \in Operations : journal[o] = "Superseded" => HasNewer(o)
    /\ \A s \in Scopes : latest[s] > 0 =>
          \E n \in Committed : Scope[n] = s /\ position[n] = latest[s]

\* An effect the ledger has not closed is on its way or in doubt.
EffectsKnown ==
    \A o \in Operations : journal[o] = "Accepted" /\ Open(o) => row[o].sendStarted \/ Doubtful(o)

IInv ==
    /\ TypeOK
    /\ RowsConsistent
    /\ CallsUnique /\ CallsOK
    /\ ProbesFenced /\ ProbesTruthful
    /\ JournalOrdered /\ EffectsKnown
    /\ SupersededForAReason

-----------------------------------------------------------------------------
(* Types. *)

\* What a step writes is of its type.
LEMMA RowWrites ==
    ASSUME TypeOK, NEW o \in Operations, NEW d \in Dispositions
    PROVE /\ Released(o, d) \in Row
          /\ [row EXCEPT ![o] = Released(o, d)] \in [Operations -> Row]
          /\ [Released(o, d) EXCEPT !.waiting = TRUE] \in Row
          /\ [row EXCEPT ![o].sendStarted = TRUE] \in [Operations -> Row]
          /\ [row EXCEPT ![o].lease = "expired"] \in [Operations -> Row]
          /\ [row EXCEPT ![o].waiting = FALSE] \in [Operations -> Row]
          /\ [row EXCEPT ![o].disposition = d, ![o].waiting = FALSE] \in [Operations -> Row]
<1>1. row \in [Operations -> Row]
  BY DEF TypeOK
<1>2. Released(o, d) \in Row /\ [Released(o, d) EXCEPT !.waiting = TRUE] \in Row
  BY <1>1 DEF Released, Row
<1>3. [row EXCEPT ![o] = Released(o, d)] \in [Operations -> Row]
  BY <1>1, <1>2
<1>4. /\ [row EXCEPT ![o].sendStarted = TRUE] \in [Operations -> Row]
      /\ [row EXCEPT ![o].lease = "expired"] \in [Operations -> Row]
      /\ [row EXCEPT ![o].waiting = FALSE] \in [Operations -> Row]
  BY <1>1 DEF Row
<1>5. [row EXCEPT ![o].disposition = d, ![o].waiting = FALSE] \in [Operations -> Row]
  BY <1>1 DEF Row
<1> QED
  BY <1>2, <1>3, <1>4, <1>5

LEMMA FenceWrites ==
    ASSUME NEW r \in Row, NEW f \in Nat
    PROVE /\ [r EXCEPT !.disposition = "Claimed", !.fence = f, !.lease = "live", !.waiting = FALSE]
                \in Row
          /\ [r EXCEPT !.reconcileFence = f] \in Row
BY DEF Row, Dispositions

LEMMA ClaimRowTyped ==
    ASSUME TypeOK, NEW o \in Operations
    PROVE ClaimRow(o) \in Row
<1>1. /\ Released(o, "ReconciliationRequired") \in Row
      /\ Released(o, "Superseded") \in Row
  BY RowWrites DEF Dispositions
<1> DEFINE f == row[o].fence + 1
           claimed == [row[o] EXCEPT !.disposition = "Claimed", !.fence = f, !.lease = "live",
                                     !.waiting = FALSE]
<1>2. f \in Nat /\ row[o] \in Row
  BY DEF TypeOK, Row
<1>3. ClaimRow(o) \in {Released(o, "ReconciliationRequired"), Released(o, "Superseded"), claimed}
  BY DEF ClaimRow
<1> HIDE DEF f
<1>4. claimed \in Row
  BY <1>2, FenceWrites
<1> QED
  BY <1>1, <1>3, <1>4

LEMMA CallWrites ==
    ASSUME NEW c \in Call,
           NEW stage \in {"claimed", "begun", "superseding", "cleared", "sending", "answered"},
           NEW deadline \in {"lease", "short", "late"}, NEW answer \in Answers
    PROVE /\ [c EXCEPT !.stage = stage] \in Call
          /\ [c EXCEPT !.deadline = deadline] \in Call
          /\ [c EXCEPT !.stage = stage, !.answer = answer] \in Call
BY DEF Call

LEMMA NewCallTyped ==
    ASSUME NEW o \in Operations, NEW f \in Nat, NEW copy \in Copies
    PROVE NewCall(o, f, copy) \in Call
BY DEF NewCall, Call, Answers

LEMMA FaultTyped == TypeOK /\ Fault => faults' \in 0..MaxFaults
BY OutboxAssumption DEF TypeOK, Fault

LEMMA StepTyped ==
    ASSUME TypeOK, NEW c, NEW d \in Call, Step(c, d)
    PROVE calls' \subseteq Call
BY DEF Step, TypeOK

LEMMA EndTyped ==
    ASSUME TypeOK, NEW c, End(c)
    PROVE calls' \subseteq Call
BY DEF End, TypeOK

\* Nothing has happened.
LEMMA OutboxStarts == Init => IInv
<1> SUFFICES ASSUME Init PROVE IInv
  OBVIOUS
<1> USE OutboxAssumption DEF Init
<1>1. TypeOK
  BY DEF TypeOK, Row, Dispositions
<1>2. RowsConsistent /\ CallsUnique /\ CallsOK
  BY DEF RowsConsistent, CallsUnique, CallsOK
<1>3. ProbesFenced /\ ProbesTruthful /\ JournalOrdered /\ EffectsKnown /\ SupersededForAReason
  BY DEF ProbesFenced, ProbesTruthful, JournalOrdered, EffectsKnown, SupersededForAReason,
         Committed
<1> QED
  BY <1>1, <1>2, <1>3 DEF IInv

\* Every step keeps the types.
LEMMA TypesKept == TypeOK /\ [Next]_vars => TypeOK'
<1> SUFFICES ASSUME TypeOK, [Next]_vars PROVE TypeOK'
  OBVIOUS
<1> USE OutboxAssumption
<1>1. ASSUME NEW o \in Operations, Commit(o) PROVE TypeOK'
  BY <1>1 DEF Commit, TypeOK, downstream
<1>2. CASE RaiseRecoveryEpoch
  BY <1>2, FaultTyped DEF RaiseRecoveryEpoch, TypeOK, downstream
<1>3. ASSUME NEW locked \in SUBSET Operations, Claim(locked) PROVE TypeOK'
  <2>1. row' \in [Operations -> Row]
    <3>1. \A o \in Operations : row[o] \in Row /\ Released(o, "Superseded") \in Row
      BY RowWrites DEF TypeOK, Dispositions
    <3> QED
      BY <1>3, <3>1, ClaimRowTyped DEF Claim
  <2>2. \A o \in Operations : row[o].fence + 1 \in Nat
    BY DEF TypeOK, Row
  <2>3. \A o \in Operations : NewCall(o, row[o].fence + 1, 1) \in Call
    BY <2>2, NewCallTyped
  <2>4. Batch(locked) \subseteq Operations
    BY DEF Batch
  <2>5. calls' \subseteq Call
    BY <1>3, <2>3, <2>4 DEF Claim, TypeOK
  <2> QED
    BY <1>3, <2>1, <2>5 DEF Claim, TypeOK, outbox, downstream
<1>4. ASSUME NEW o \in Operations, Heartbeat(o) PROVE TypeOK'
  <2>1. \A c \in calls : c \in Call /\ [c EXCEPT !.deadline = "short"] \in Call
    BY CallWrites DEF TypeOK, Answers
  <2>2. calls' \subseteq Call
    BY <1>4, <2>1 DEF Heartbeat
  <2> QED
    BY <1>4, <2>2, FaultTyped DEF Heartbeat, TypeOK, outbox, downstream
<1>5. ASSUME NEW o \in Operations, NEW copy \in Copies, DeliverAgain(o, copy) PROVE TypeOK'
  <2>1. row[o].fence \in Nat
    BY DEF TypeOK, Row
  <2>2. calls' \subseteq Call
    BY <1>5, <2>1, NewCallTyped DEF DeliverAgain, TypeOK
  <2> QED
    BY <1>5, <2>2, FaultTyped DEF DeliverAgain, TypeOK, outbox, downstream
<1>6. ASSUME NEW c \in calls PROVE c \in Call /\ c.op \in Operations
  BY DEF TypeOK, Call
<1>7. ASSUME NEW c \in calls, BeginDelivery(c) PROVE TypeOK'
  <2>1. row' \in [Operations -> Row]
    <3>1. [row EXCEPT ![c.op] = Released(c.op, "ReconciliationRequired")] \in [Operations -> Row]
      BY <1>6, RowWrites DEF Dispositions
    <3> QED
      BY <1>7, <3>1 DEF BeginDelivery, TypeOK
  <2>2. [c EXCEPT !.stage = "begun"] \in Call
    BY <1>6, CallWrites DEF Answers
  <2>3. calls' \subseteq Call
    BY <1>7, <2>2, StepTyped, EndTyped DEF BeginDelivery
  <2> QED
    BY <1>7, <2>1, <2>3 DEF BeginDelivery, TypeOK, outbox, downstream
<1>8. ASSUME NEW c \in calls, CheckSuperseded(c) PROVE TypeOK'
  <2>1. [c EXCEPT !.stage = "superseding"] \in Call /\ [c EXCEPT !.stage = "cleared"] \in Call
    BY <1>6, CallWrites DEF Answers
  <2>2. calls' \subseteq Call
    BY <1>8, <2>1, StepTyped DEF CheckSuperseded
  <2> QED
    BY <1>8, <2>2 DEF CheckSuperseded, TypeOK, outbox, downstream
<1>9. ASSUME NEW c \in calls, FinishSuperseded(c) PROVE TypeOK'
  <2>1. [row EXCEPT ![c.op] = Released(c.op, "Superseded")] \in [Operations -> Row]
    BY <1>6, RowWrites DEF Dispositions
  <2>2. calls' \subseteq Call
    BY <1>9, EndTyped DEF FinishSuperseded
  <2> QED
    BY <1>9, <2>1, <2>2 DEF FinishSuperseded, TypeOK, outbox, downstream
<1>10. ASSUME NEW c \in calls, MarkSendStarted(c) PROVE TypeOK'
  <2>1. [row EXCEPT ![c.op].sendStarted = TRUE] \in [Operations -> Row]
    BY <1>6, RowWrites DEF Dispositions
  <2>2. [c EXCEPT !.stage = "sending"] \in Call
    BY <1>6, CallWrites DEF Answers
  <2>3. calls' \subseteq Call
    BY <1>10, <2>2, StepTyped DEF MarkSendStarted
  <2> QED
    BY <1>10, <2>1, <2>3 DEF MarkSendStarted, TypeOK, outbox, downstream
<1>11. ASSUME NEW c \in calls, LoseClaim(c) PROVE TypeOK'
  BY <1>11, EndTyped DEF LoseClaim, TypeOK, outbox, downstream
<1>12. ASSUME NEW c \in calls, NEW answer \in Answers, Answer(c, answer) PROVE calls' \subseteq Call
  <2>1. [c EXCEPT !.stage = "answered", !.answer = answer] \in Call
    BY <1>6, CallWrites
  <2> QED
    BY <1>12, <2>1, StepTyped DEF Answer
<1>13. ASSUME NEW c \in calls, Replay(c) PROVE TypeOK'
  <2>1. journal[c.op] \in Answers
    BY <1>6 DEF TypeOK, Answers, Terminal
  <2>2. calls' \subseteq Call
    BY <1>12, <1>13, <2>1 DEF Replay
  <2> QED
    BY <1>13, <2>2 DEF Replay, TypeOK, outbox, downstream
<1>14. ASSUME NEW c \in calls, Perform(c) PROVE TypeOK'
  <2>1. calls' \subseteq Call
    BY <1>12, <1>14 DEF Perform, Answers, Terminal
  <2>2. journal' \in [Operations -> {"Unknown", "Accepted", "Superseded"}]
    BY <1>6, <1>14 DEF Perform, TypeOK
  <2>3. latest' \in [Scopes -> 0..MaxPosition]
    BY <1>6, <1>14 DEF Perform, TypeOK
  <2> QED
    BY <1>14, <2>1, <2>2, <2>3 DEF Perform, TypeOK, outbox
<1>15. ASSUME NEW c \in calls, Decline(c) \/ LoseAnswer(c) PROVE TypeOK'
  <2>1. calls' \subseteq Call
    BY <1>12, <1>15 DEF Decline, LoseAnswer, Answers, Terminal
  <2> QED
    BY <1>15, <2>1, FaultTyped DEF Decline, LoseAnswer, TypeOK, outbox, downstream
<1>16. ASSUME NEW c \in calls, FinishDelivery(c) PROVE TypeOK'
  <2>1. row' \in [Operations -> Row]
    <3>1. \A d \in Dispositions : [row EXCEPT ![c.op] = Released(c.op, d)] \in [Operations -> Row]
      BY <1>6, RowWrites
    <3>2. [Released(c.op, "Deferred") EXCEPT !.waiting = TRUE] \in Row
      BY <1>6, RowWrites DEF Dispositions
    <3> QED
      BY <1>16, <3>1, <3>2 DEF FinishDelivery, Terminal, Dispositions, TypeOK
  <2> QED
    BY <1>16, <2>1, EndTyped DEF FinishDelivery, TypeOK, outbox, downstream
<1>17. ASSUME NEW o \in Operations, StartReconcile(o) PROVE TypeOK'
  <2> DEFINE f == row[o].reconcileFence + 1
  <2>1. f \in Nat /\ row[o] \in Row
    BY DEF TypeOK, Row
  <2>2. row' = [row EXCEPT ![o] = [row[o] EXCEPT !.reconcileFence = f]]
    BY <1>17 DEF StartReconcile
  <2>3. probes' = probes \cup {[op |-> o, fence |-> f, answer |-> "none"]}
    BY <1>17 DEF StartReconcile
  <2> HIDE DEF f
  <2>4. [row[o] EXCEPT !.reconcileFence = f] \in Row
    BY <2>1, FenceWrites
  <2>5. row' \in [Operations -> Row]
    BY <2>2, <2>4 DEF TypeOK
  <2>6. probes' \subseteq Probe
    BY <2>1, <2>3 DEF TypeOK, Probe
  <2> QED
    BY <1>17, <2>5, <2>6, FaultTyped DEF StartReconcile, TypeOK, outbox, downstream
<1>18. ASSUME NEW p \in probes, InspectDownstream(p) PROVE TypeOK'
  <2>1. p \in Probe /\ journal[p.op] \in {"Unknown"} \cup Terminal
    BY DEF TypeOK, Probe, Terminal
  <2>2. [p EXCEPT !.answer = journal[p.op]] \in Probe /\ [p EXCEPT !.answer = "Poisoned"] \in Probe
    BY <2>1 DEF Probe, Terminal
  <2>3. probes' \subseteq Probe
    BY <1>18, <2>2 DEF InspectDownstream, TypeOK
  <2> QED
    BY <1>18, <2>3, FaultTyped DEF InspectDownstream, TypeOK, outbox, downstream
<1>19. ASSUME NEW p \in probes, FinishReconcile(p) PROVE TypeOK'
  <2>1. p.op \in Operations /\ p.answer \in {"none", "Unknown"} \cup Terminal
    BY DEF TypeOK, Probe
  <2>2. row' \in [Operations -> Row]
    <3>1. \A d \in Dispositions :
             [row EXCEPT ![p.op].disposition = d, ![p.op].waiting = FALSE] \in [Operations -> Row]
      BY <2>1, RowWrites
    <3>2. (IF p.answer = "Unknown" THEN "Pending" ELSE p.answer) \in Dispositions
      BY <1>19, <2>1 DEF FinishReconcile, Dispositions, Terminal
    <3> QED
      BY <1>19, <3>1, <3>2 DEF FinishReconcile, TypeOK
  <2> QED
    BY <1>19, <2>2 DEF FinishReconcile, TypeOK, outbox, downstream
<1>20. CASE Crash
  BY <1>20, EndTyped, FaultTyped DEF Crash, TypeOK, outbox, downstream
<1>21. ASSUME NEW o \in Operations, ExpireLease(o) PROVE TypeOK'
  <2>1. [row EXCEPT ![o].lease = "expired"] \in [Operations -> Row]
    BY RowWrites DEF Dispositions
  <2>2. \A c \in calls : [c EXCEPT !.deadline = "late"] \in Call
    BY <1>6, CallWrites DEF Answers
  <2>3. calls' \subseteq Call
    BY <1>21, <2>2 DEF ExpireLease, TypeOK
  <2>4. faults' \in 0..MaxFaults
    BY <1>21, FaultTyped DEF ExpireLease, TypeOK
  <2> QED
    BY <1>21, <2>1, <2>3, <2>4 DEF ExpireLease, TypeOK, outbox, downstream
<1>22. ASSUME NEW o \in Operations, RetryDue(o) PROVE TypeOK'
  <2>1. [row EXCEPT ![o].waiting = FALSE] \in [Operations -> Row]
    BY RowWrites DEF Dispositions
  <2> QED
    BY <1>22, <2>1 DEF RetryDue, TypeOK, outbox, downstream
<1>23. ASSUME NEW c \in calls, PassDeadline(c) PROVE TypeOK'
  <2>1. [c EXCEPT !.deadline = "late"] \in Call
    BY <1>6, CallWrites DEF Answers
  <2>2. calls' \subseteq Call
    BY <1>23, <2>1, StepTyped DEF PassDeadline
  <2> QED
    BY <1>23, <2>2 DEF PassDeadline, TypeOK, outbox, downstream
<1>24. CASE UNCHANGED vars
  BY <1>24 DEF vars, TypeOK, outbox, downstream
<1> QED
  BY <1>1, <1>2, <1>3, <1>4, <1>5, <1>7, <1>8, <1>9, <1>10, <1>11, <1>13, <1>14, <1>15, <1>16,
     <1>17, <1>18, <1>19, <1>20, <1>21, <1>22, <1>23, <1>24 DEF Next

-----------------------------------------------------------------------------
(* Rows. *)

\* What a step makes of the row of o.
RowKept(o) ==
    /\ row'[o].disposition = row[o].disposition /\ row'[o].fence = row[o].fence
    /\ row'[o].lease = row[o].lease /\ row'[o].sendStarted = row[o].sendStarted
    /\ row'[o].reconcileFence = row[o].reconcileFence

\* The lease ends and the row gets a disposition of its own.
RowFreed(o, disposition) ==
    /\ position[o] > 0 /\ Open(o) /\ ~Doubtful(o)
    /\ row'[o].disposition = disposition /\ row'[o].lease = "none"
    /\ ~row'[o].sendStarted
    /\ row'[o].fence = row[o].fence /\ row'[o].reconcileFence = row[o].reconcileFence

RowClaimed(o) ==
    /\ position[o] > 0 /\ Open(o) /\ ~Doubtful(o) /\ row[o].lease # "live"
    /\ ~row[o].sendStarted
    /\ row'[o].disposition = "Claimed" /\ row'[o].lease = "live"
    /\ ~row'[o].sendStarted
    /\ row'[o].fence = row[o].fence + 1 /\ row'[o].reconcileFence = row[o].reconcileFence

RowSends(o) ==
    /\ row[o].lease = "live" /\ Open(o) /\ ~row[o].sendStarted /\ row'[o].sendStarted
    /\ row'[o].disposition = row[o].disposition /\ row'[o].lease = row[o].lease
    /\ row'[o].fence = row[o].fence /\ row'[o].reconcileFence = row[o].reconcileFence

RowExpires(o) ==
    /\ row[o].lease = "live" /\ row'[o].lease = "expired"
    /\ row'[o].disposition = row[o].disposition /\ row'[o].sendStarted = row[o].sendStarted
    /\ row'[o].fence = row[o].fence /\ row'[o].reconcileFence = row[o].reconcileFence

RowProbed(o) ==
    /\ Doubtful(o) /\ row'[o].reconcileFence = row[o].reconcileFence + 1
    /\ row'[o].disposition = row[o].disposition /\ row'[o].sendStarted = row[o].sendStarted
    /\ row'[o].fence = row[o].fence /\ row'[o].lease = row[o].lease

RowResolved(o, disposition) ==
    /\ Doubtful(o) /\ row'[o].disposition = disposition
    /\ row'[o].lease = row[o].lease /\ row'[o].sendStarted = row[o].sendStarted
    /\ row'[o].fence = row[o].fence /\ row'[o].reconcileFence = row[o].reconcileFence

RowEnds(o) ==
    \E d \in Dispositions \ {"Claimed", "Pending"} :
        /\ RowFreed(o, d)
        /\ d = "Superseded" => (HasNewer(o) \/ Outdated(o)) /\ journal[o] # "Accepted"
        /\ d = "Deferred" => journal[o] = "Unknown"
        /\ d = "Accepted" => journal[o] = "Accepted"

RowSettles(o) ==
    \E d \in Terminal \cup {"Pending"} :
        /\ RowResolved(o, d)
        /\ d = "Superseded" => journal[o] = "Superseded"
        /\ d = "Pending" => journal[o] = "Unknown"
        /\ d = "Accepted" => journal[o] = "Accepted"

Moves(o) ==
    \/ RowKept(o) \/ RowClaimed(o) \/ RowSends(o) \/ RowExpires(o)
    \/ RowEnds(o) \/ RowProbed(o) \/ RowSettles(o)

\* A released row.
LEMMA ReleasedRow ==
    ASSUME TypeOK, NEW o \in Operations, NEW d
    PROVE /\ Released(o, d).disposition = d /\ Released(o, d).lease = "none"
          /\ ~Released(o, d).sendStarted /\ Released(o, d).fence = row[o].fence
          /\ Released(o, d).reconcileFence = row[o].reconcileFence
          /\ [Released(o, d) EXCEPT !.waiting = TRUE].disposition = d
          /\ [Released(o, d) EXCEPT !.waiting = TRUE].lease = "none"
          /\ ~[Released(o, d) EXCEPT !.waiting = TRUE].sendStarted
          /\ [Released(o, d) EXCEPT !.waiting = TRUE].fence = row[o].fence
          /\ [Released(o, d) EXCEPT !.waiting = TRUE].reconcileFence = row[o].reconcileFence
<1>1. row[o] \in Row
  BY DEF TypeOK
<1> QED
  BY <1>1 DEF Released, Row

\* What a claim makes of a row that is due.
LEMMA ClaimedRow ==
    ASSUME TypeOK, NEW o \in Operations
    PROVE IF row[o].sendStarted THEN ClaimRow(o) = Released(o, "ReconciliationRequired")
          ELSE IF Outdated(o) THEN ClaimRow(o) = Released(o, "Superseded")
          ELSE /\ ClaimRow(o).disposition = "Claimed" /\ ClaimRow(o).lease = "live"
               /\ ~ClaimRow(o).sendStarted /\ ClaimRow(o).fence = row[o].fence + 1
               /\ ClaimRow(o).reconcileFence = row[o].reconcileFence
<1>1. row[o] \in Row
  BY DEF TypeOK
<1> QED
  BY <1>1 DEF ClaimRow, Row

\* The rows after a claim.
LEMMA ClaimRows ==
    ASSUME TypeOK, NEW locked \in SUBSET Operations, Claim(locked), NEW o \in Operations
    PROVE \/ RowKept(o) /\ ~(o \in Batch(locked) /\ Unsent(o))
          \/ RowClaimed(o) /\ o \in Batch(locked) /\ Unsent(o)
          \/ RowFreed(o, "ReconciliationRequired") /\ row[o].lease # "live" /\ row[o].sendStarted
          \/ /\ RowFreed(o, "Superseded") /\ ~row[o].sendStarted /\ (HasNewer(o) \/ Outdated(o))
             /\ ~(o \in Batch(locked) /\ Unsent(o))
<1>1. row'[o] = IF Swept(o) THEN Released(o, "Superseded")
                ELSE IF o \in Batch(locked) THEN ClaimRow(o) ELSE row[o]
  BY DEF Claim
<1>2. o \in Batch(locked) => Due(o)
  BY DEF Batch
<1>3. CASE Swept(o)
  <2>1. RowFreed(o, "Superseded") /\ ~row[o].sendStarted /\ HasNewer(o)
    <3>1. /\ position[o] > 0 /\ Open(o) /\ ~Doubtful(o) /\ ~row[o].sendStarted /\ HasNewer(o)
          /\ row'[o] = Released(o, "Superseded")
      BY <1>1, <1>3 DEF Swept, Doubtful, Committed
    <3> QED
      BY <3>1, ReleasedRow DEF RowFreed
  <2>2. o \notin Batch(locked)
    BY <1>2, <1>3 DEF Due
  <2> QED
    BY <2>1, <2>2
<1>4. CASE ~Swept(o) /\ o \in Batch(locked)
  <2>1. position[o] > 0 /\ Open(o) /\ ~Doubtful(o) /\ row[o].lease # "live"
    BY <1>2, <1>4 DEF Due, Committed, Doubtful
  <2>2. CASE row[o].sendStarted
    <3>1. row'[o] = Released(o, "ReconciliationRequired")
      BY <1>1, <1>4, <2>2, ClaimedRow
    <3> QED
      BY <2>1, <2>2, <3>1, ReleasedRow DEF RowFreed
  <2>3. CASE ~row[o].sendStarted /\ Outdated(o)
    <3>1. row'[o] = Released(o, "Superseded")
      BY <1>1, <1>4, <2>3, ClaimedRow
    <3> QED
      BY <2>1, <2>3, <3>1, ReleasedRow DEF RowFreed, Unsent
  <2>4. CASE ~row[o].sendStarted /\ ~Outdated(o)
    BY <1>1, <1>4, <2>1, <2>4, ClaimedRow DEF RowClaimed, Unsent
  <2> QED
    BY <2>2, <2>3, <2>4
<1>5. CASE ~Swept(o) /\ o \notin Batch(locked)
  BY <1>1, <1>5 DEF RowKept
<1> QED
  BY <1>3, <1>4, <1>5

-----------------------------------------------------------------------------
(* Calls. *)

\* What was committed and what recovery has moved past only grow.
Grows ==
    /\ \A o \in Operations : position[o] > 0 => position'[o] = position[o]
    /\ \A o \in Operations : position'[o] \in Nat
    /\ \A o \in Operations : position[o] > 0 => epoch'[o] = epoch[o]
    /\ recoveryEpoch' >= recoveryEpoch

LEMMA ReasonsStay ==
    ASSUME TypeOK, TypeOK', Grows, NEW o \in Operations, position[o] > 0
    PROVE /\ HasNewer(o) => HasNewer(o)'
          /\ Outdated(o) => Outdated(o)'
<1>1. \A n \in Operations : position[n] \in Nat /\ position'[n] \in Nat /\ epoch[n] \in Nat
  BY OutboxAssumption DEF TypeOK
<1>2. recoveryEpoch \in Nat /\ recoveryEpoch' \in Nat
  BY OutboxAssumption DEF TypeOK
<1> QED
  BY <1>1, <1>2 DEF Grows, HasNewer, Newer, Committed, Outdated

\* A call that is left alone keeps what it knows, whatever becomes of its row.
LEMMA OldCallOK ==
    ASSUME TypeOK, TypeOK', Grows, RowsConsistent, NEW c \in calls, CallOK(c), Moves(c.op),
           journal'[c.op] = journal[c.op] \/ (~Holds(c) /\ journal[c.op] = "Unknown"),
           RowSends(c.op) \/ RowExpires(c.op) => c.fence # row[c.op].fence,
           RowEnds(c.op) => ~(c.stage = "sending" /\ c.deadline # "late")
    PROVE CallOK(c)'
<1>1. /\ c.op \in Operations /\ c.fence \in Nat
      /\ row[c.op].fence \in Nat /\ row'[c.op].fence \in Nat
  BY DEF TypeOK, Call, Row
<1>2. /\ position[c.op] > 0 /\ c.fence <= row[c.op].fence
      /\ c.stage = "superseding" => HasNewer(c.op) \/ Outdated(c.op)
      /\ c.answer \in {"Accepted", "Superseded"} => journal[c.op] = c.answer
  BY DEF CallOK
<1>3. c.fence <= row'[c.op].fence
  BY <1>1, <1>2 DEF Moves, RowEnds, RowSettles, RowKept, RowClaimed, RowProbed, RowResolved,
     RowSends, RowExpires, RowFreed
<1>4. /\ position'[c.op] > 0 /\ c.fence <= row'[c.op].fence
      /\ c.stage = "superseding" => HasNewer(c.op)' \/ Outdated(c.op)'
      /\ c.answer \in {"Accepted", "Superseded"} => journal'[c.op] = c.answer
  BY <1>1, <1>2, <1>3, ReasonsStay DEF Grows
<1>5. CASE RowKept(c.op)
  BY <1>1, <1>4, <1>5 DEF CallOK, RowKept, Holds, HoldsLive, Open
<1>6. CASE RowClaimed(c.op)
  <2>1. c.fence # row'[c.op].fence /\ row[c.op].lease # "live"
    BY <1>1, <1>2, <1>6 DEF RowClaimed
  <2> QED
    BY <1>4, <2>1 DEF CallOK, Holds, HoldsLive
<1>7. CASE RowProbed(c.op) \/ RowSettles(c.op)
  <2>1. row[c.op].lease = "none" /\ row'[c.op].lease = "none"
    BY <1>1, <1>7 DEF RowProbed, RowSettles, RowResolved, Doubtful, RowsConsistent
  <2> QED
    BY <1>4, <2>1 DEF CallOK, Holds, HoldsLive
<1>8. CASE RowSends(c.op) \/ RowExpires(c.op)
  <2>1. c.fence # row[c.op].fence /\ c.fence # row'[c.op].fence
    BY <1>8 DEF RowSends, RowExpires
  <2> QED
    BY <1>4, <2>1 DEF CallOK, Holds, HoldsLive
<1>9. CASE RowEnds(c.op)
  <2>1. row'[c.op].lease = "none" /\ ~(c.stage = "sending" /\ c.deadline # "late")
    BY <1>9 DEF RowEnds, RowFreed
  <2> QED
    BY <1>4, <2>1 DEF CallOK, Holds, HoldsLive
<1> QED
  BY <1>5, <1>6, <1>7, <1>8, <1>9 DEF Moves

\* What is asked of every call a step leaves alone.
LeftAlone(e) ==
    /\ journal'[e.op] = journal[e.op] \/ (~Holds(e) /\ journal[e.op] = "Unknown")
    /\ RowSends(e.op) \/ RowExpires(e.op) => e.fence # row[e.op].fence
    /\ RowEnds(e.op) => ~(e.stage = "sending" /\ e.deadline # "late")

LEMMA CallStays ==
    ASSUME TypeOK, TypeOK', Grows, RowsConsistent, CallsOK, \A o \in Operations : Moves(o),
           NEW e \in calls, LeftAlone(e)
    PROVE CallOK(e)'
<1>1. CallOK(e) /\ Moves(e.op)
  BY DEF CallsOK, TypeOK, Call
<1>2. /\ journal'[e.op] = journal[e.op] \/ (~Holds(e) /\ journal[e.op] = "Unknown")
      /\ RowSends(e.op) \/ RowExpires(e.op) => e.fence # row[e.op].fence
      /\ RowEnds(e.op) => ~(e.stage = "sending" /\ e.deadline # "late")
  BY DEF LeftAlone
<1> QED
  BY <1>1, <1>2, OldCallOK

LEMMA QuietAlone ==
    ASSUME TypeOK, RowsConsistent, CallsOK, NEW e \in calls, RowKept(e.op),
           journal'[e.op] = journal[e.op]
    PROVE LeftAlone(e)
<1>1. e.op \in Operations /\ CallOK(e)
  BY DEF TypeOK, Call, CallsOK
<1>2. ~RowSends(e.op) /\ ~RowExpires(e.op)
  BY DEF RowKept, RowSends, RowExpires
<1>3. RowEnds(e.op) => row[e.op].lease = "none"
  BY DEF RowEnds, RowFreed, RowKept
<1>4. e.stage = "sending" /\ e.deadline # "late" => row[e.op].lease = "live"
  BY <1>1 DEF CallOK, HoldsLive
<1>5. RowEnds(e.op) => ~(e.stage = "sending" /\ e.deadline # "late")
  BY <1>3, <1>4
<1> QED
  BY <1>2, <1>5 DEF LeftAlone

\* The other deliveries of an operation whose lease a call holds are all stale.
LEMMA OthersAlone ==
    ASSUME TypeOK, RowsConsistent, CallsUnique, CallsOK, NEW c \in calls, Holds(c),
           \A q \in Operations : q # c.op => RowKept(q) /\ journal'[q] = journal[q],
           journal'[c.op] = journal[c.op] \/ journal[c.op] = "Unknown",
           NEW e \in calls, e # c
    PROVE LeftAlone(e)
<1>1. e.op \in Operations /\ CallOK(e)
  BY DEF TypeOK, Call, CallsOK
<1>2. CASE e.op # c.op
  BY <1>1, <1>2, QuietAlone
<1>3. CASE e.op = c.op
  <2>1. e.fence # row[e.op].fence
    BY <1>3 DEF CallsUnique, Holds
  <2>2. ~Holds(e)
    BY <2>1 DEF Holds
  <2>3. ~(e.stage = "sending" /\ e.deadline # "late")
    BY <1>1, <2>2 DEF CallOK, HoldsLive
  <2> QED
    BY <1>3, <2>1, <2>2, <2>3 DEF LeftAlone
<1> QED
  BY <1>2, <1>3

LEMMA StepsGrow == ASSUME TypeOK, TypeOK', [Next]_vars PROVE Grows
<1> USE OutboxAssumption
<1>1. ASSUME NEW o \in Operations, Commit(o) PROVE Grows
  BY <1>1 DEF Commit, Grows, TypeOK
<1>2. CASE RaiseRecoveryEpoch
  BY <1>2 DEF RaiseRecoveryEpoch, Grows, TypeOK
<1>3. CASE UNCHANGED outbox
  BY <1>3 DEF outbox, Grows, TypeOK
<1> QED
  BY <1>1, <1>2, <1>3 DEF Next, Claim, Heartbeat, DeliverAgain, BeginDelivery, CheckSuperseded,
     FinishSuperseded, MarkSendStarted, LoseClaim, Replay, Perform, Decline, LoseAnswer,
     FinishDelivery, StartReconcile, InspectDownstream, FinishReconcile, Crash, ExpireLease,
     RetryDue, PassDeadline, vars

\* A step in which call c becomes d, or ends.
LEMMA StepUnique ==
    ASSUME CallsUnique, NEW c \in calls, NEW d, Step(c, d), d.op = c.op, d.fence = c.fence
    PROVE CallsUnique'
BY DEF CallsUnique, Step

LEMMA EndUnique ==
    ASSUME CallsUnique, NEW c \in calls, End(c)
    PROVE CallsUnique'
BY DEF CallsUnique, End

\* The fields of a call after a write.
LEMMA CallFields ==
    ASSUME NEW c \in Call, NEW s, NEW a
    PROVE /\ [c EXCEPT !.stage = s].op = c.op /\ [c EXCEPT !.stage = s].fence = c.fence
          /\ [c EXCEPT !.stage = s].stage = s /\ [c EXCEPT !.stage = s].answer = c.answer
          /\ [c EXCEPT !.stage = s].deadline = c.deadline
          /\ [c EXCEPT !.deadline = s].op = c.op /\ [c EXCEPT !.deadline = s].fence = c.fence
          /\ [c EXCEPT !.deadline = s].stage = c.stage /\ [c EXCEPT !.deadline = s].answer = c.answer
          /\ [c EXCEPT !.deadline = s].deadline = s
          /\ [c EXCEPT !.stage = s, !.answer = a].op = c.op
          /\ [c EXCEPT !.stage = s, !.answer = a].fence = c.fence
          /\ [c EXCEPT !.stage = s, !.answer = a].stage = s
          /\ [c EXCEPT !.stage = s, !.answer = a].answer = a
BY DEF Call

-----------------------------------------------------------------------------
(* What each step makes of the rows. *)

\* The row of a call that holds its lease.
LEMMA HeldRow ==
    ASSUME TypeOK, RowsConsistent, NEW c \in calls, CallOK(c), Holds(c)
    PROVE /\ c.op \in Operations /\ position[c.op] > 0 /\ Open(c.op)
          /\ row[c.op].disposition = "Claimed" /\ ~Doubtful(c.op)
<1>1. c.op \in Operations
  BY DEF TypeOK, Call
<1> QED
  BY <1>1 DEF CallOK, Holds, RowsConsistent, Doubtful

\* A row that is written as released, the others being left alone.
LEMMA FreedRow ==
    ASSUME TypeOK, NEW o \in Operations, NEW d, position[o] > 0, Open(o), ~Doubtful(o),
           \/ row' = [row EXCEPT ![o] = Released(o, d)]
           \/ row' = [row EXCEPT ![o] = [Released(o, d) EXCEPT !.waiting = TRUE]]
    PROVE RowFreed(o, d) /\ \A q \in Operations : q # o => RowKept(q)
<1>1. row[o] \in Row /\ row \in [Operations -> Row]
  BY DEF TypeOK
<1>2. /\ row'[o].disposition = d /\ row'[o].lease = "none" /\ ~row'[o].sendStarted
      /\ row'[o].fence = row[o].fence /\ row'[o].reconcileFence = row[o].reconcileFence
  <2>1. CASE row' = [row EXCEPT ![o] = Released(o, d)]
    BY <1>1, <2>1 DEF Released, Row
  <2>2. CASE row' = [row EXCEPT ![o] = [Released(o, d) EXCEPT !.waiting = TRUE]]
    BY <1>1, <2>2 DEF Released, Row
  <2> QED
    BY <2>1, <2>2
<1>4. RowFreed(o, d)
  BY <1>2 DEF RowFreed
<1>5. \A q \in Operations : q # o => RowKept(q)
  BY DEF TypeOK, RowKept
<1> QED
  BY <1>4, <1>5

LEMMA SameRows == ASSUME row' = row, NEW o \in Operations PROVE Moves(o)
BY DEF Moves, RowKept

LEMMA StepsMove ==
    ASSUME IInv, [Next]_vars
    PROVE \A o \in Operations : Moves(o)
<1> USE DEF IInv
<1>1. CASE row' = row
  BY <1>1, SameRows
<1>2. ASSUME NEW locked \in SUBSET Operations, Claim(locked), NEW o \in Operations PROVE Moves(o)
  <2>1. RowFreed(o, "ReconciliationRequired") => RowEnds(o)
    BY DEF RowEnds, Dispositions
  <2>2. RowFreed(o, "Superseded") /\ ~row[o].sendStarted /\ (HasNewer(o) \/ Outdated(o))
           => RowEnds(o)
    <3>1. RowFreed(o, "Superseded") /\ ~row[o].sendStarted => journal[o] # "Accepted"
      BY DEF RowFreed, EffectsKnown
    <3> QED
      BY <3>1 DEF RowEnds, Dispositions
  <2> QED
    BY <1>2, <2>1, <2>2, ClaimRows DEF Moves
<1>3. ASSUME NEW c \in calls, NEW d, Holds(c),
             \/ row' = [row EXCEPT ![c.op] = Released(c.op, d)]
             \/ row' = [row EXCEPT ![c.op] = [Released(c.op, d) EXCEPT !.waiting = TRUE]]
      PROVE RowFreed(c.op, d) /\ \A q \in Operations : q # c.op => RowKept(q)
  BY <1>3, HeldRow, FreedRow DEF CallsOK
<1>4. ASSUME NEW c \in calls, NEW d \in Dispositions \ {"Claimed", "Pending"}, Holds(c),
             \/ row' = [row EXCEPT ![c.op] = Released(c.op, d)]
             \/ row' = [row EXCEPT ![c.op] = [Released(c.op, d) EXCEPT !.waiting = TRUE]],
             d = "Superseded" => (HasNewer(c.op) \/ Outdated(c.op)) /\ journal[c.op] # "Accepted",
             d = "Deferred" => journal[c.op] = "Unknown",
             d = "Accepted" => journal[c.op] = "Accepted"
      PROVE \A o \in Operations : Moves(o)
  <2>1. RowEnds(c.op)
    BY <1>3, <1>4 DEF RowEnds
  <2> QED
    BY <1>3, <1>4, <2>1 DEF Moves
<1>13. ASSUME NEW c \in calls, Holds(c),
              row' = [row EXCEPT ![c.op] = Released(c.op, "ReconciliationRequired")]
       PROVE \A o \in Operations : Moves(o)
  <2> DEFINE d == "ReconciliationRequired"
  <2>1. /\ d \in Dispositions \ {"Claimed", "Pending"}
        /\ d # "Superseded" /\ d # "Deferred" /\ d # "Accepted"
    BY DEF Dispositions
  <2>2. row' = [row EXCEPT ![c.op] = Released(c.op, d)]
    BY <1>13
  <2> HIDE DEF d
  <2> QED
    BY <1>4, <1>13, <2>1, <2>2
<1>5. ASSUME NEW c \in calls, BeginDelivery(c) PROVE \A o \in Operations : Moves(o)
  <2>1. CASE row[c.op].sendStarted
    BY <1>13, <1>5, <2>1 DEF BeginDelivery, HoldsLive
  <2>2. CASE ~row[c.op].sendStarted
    BY <1>1, <1>5, <2>2 DEF BeginDelivery
  <2> QED
    BY <2>1, <2>2
<1>6. ASSUME NEW c \in calls, FinishSuperseded(c) PROVE \A o \in Operations : Moves(o)
  <2>1. Holds(c) /\ ~row[c.op].sendStarted /\ (HasNewer(c.op) \/ Outdated(c.op))
    BY <1>6 DEF FinishSuperseded, CallsOK, CallOK
  <2>2. journal[c.op] # "Accepted"
    BY <2>1, HeldRow DEF EffectsKnown, CallsOK
  <2> DEFINE d == "Superseded"
  <2>3. d \in Dispositions \ {"Claimed", "Pending"} /\ d # "Deferred" /\ d # "Accepted"
    BY DEF Dispositions
  <2>4. row' = [row EXCEPT ![c.op] = Released(c.op, d)]
    BY <1>6 DEF FinishSuperseded
  <2> HIDE DEF d
  <2> QED
    BY <1>4, <2>1, <2>2, <2>3, <2>4
<1>7. ASSUME NEW c \in calls, MarkSendStarted(c), NEW o \in Operations PROVE Moves(o)
  <2>1. row[o] \in Row /\ c.op \in Operations
    BY DEF TypeOK, Call
  <2> QED
    BY <1>7, <2>1 DEF MarkSendStarted, HoldsLive, Holds, Moves, RowKept, RowSends, TypeOK, Row
<1>8. ASSUME NEW c \in calls, FinishDelivery(c) PROVE \A o \in Operations : Moves(o)
  <2>1. Holds(c) /\ CallOK(c) /\ c.op \in Operations
    BY <1>8, HeldRow DEF FinishDelivery, CallsOK
  <2>2. CASE c.answer \in Terminal /\ row' = [row EXCEPT ![c.op] = Released(c.op, c.answer)]
    <3>1. c.answer = "Superseded" => HasNewer(c.op) /\ journal[c.op] # "Accepted"
      BY <2>1 DEF CallOK, JournalOrdered
    <3>2. c.answer = "Accepted" => journal[c.op] = "Accepted"
      BY <2>1 DEF CallOK
    <3>3. c.answer \in Dispositions \ {"Claimed", "Pending"} /\ c.answer # "Deferred"
      BY <2>2 DEF Terminal, Dispositions
    <3> QED
      BY <1>4, <2>1, <2>2, <3>1, <3>2, <3>3
  <2>3. CASE /\ c.answer = "Deferred"
             /\ row' = [row EXCEPT ![c.op] = [Released(c.op, "Deferred") EXCEPT !.waiting = TRUE]]
    <3>1. journal[c.op] = "Unknown"
      BY <2>1, <2>3 DEF CallOK
    <3> QED
      BY <1>4, <2>1, <2>3, <3>1 DEF Dispositions
  <2>4. CASE row' = [row EXCEPT ![c.op] = Released(c.op, "ReconciliationRequired")]
    BY <1>13, <2>1, <2>4
  <2> QED
    BY <1>8, <2>2, <2>3, <2>4 DEF FinishDelivery
<1>9. ASSUME NEW p \in Operations, StartReconcile(p), NEW o \in Operations PROVE Moves(o)
  <2>1. row[o] \in Row
    BY DEF TypeOK
  <2> QED
    BY <1>9, <2>1 DEF StartReconcile, Moves, RowKept, RowProbed, Doubtful, TypeOK, Row
<1>10. ASSUME NEW p \in probes, FinishReconcile(p), NEW o \in Operations PROVE Moves(o)
  <2>1. row[o] \in Row /\ p.op \in Operations /\ p.answer \in {"Unknown"} \cup Terminal
    BY <1>10 DEF TypeOK, Probe, FinishReconcile
  <2>2. CASE row' = row
    BY <1>1, <2>2
  <2>3. CASE row' # row
    <3> DEFINE d == IF p.answer = "Unknown" THEN "Pending" ELSE p.answer
    <3>1. /\ Doubtful(p.op) /\ p.fence = row[p.op].reconcileFence
          /\ row' = [row EXCEPT ![p.op].disposition = d, ![p.op].waiting = FALSE]
      BY <1>10, <2>3 DEF FinishReconcile, Doubtful
    <3>2. /\ d \in Terminal \cup {"Pending"}
          /\ d = "Superseded" => journal[p.op] = "Superseded"
          /\ d = "Pending" => journal[p.op] = "Unknown"
          /\ d = "Accepted" => journal[p.op] = "Accepted"
      BY <2>1, <3>1 DEF ProbesTruthful, Terminal
    <3> HIDE DEF d
    <3>3. CASE o = p.op
      <4>1. RowResolved(o, d)
        BY <2>1, <3>1, <3>3 DEF RowResolved, TypeOK, Row
      <4> QED
        BY <3>2, <3>3, <4>1 DEF Moves, RowSettles
    <3>4. CASE o # p.op
      BY <2>1, <3>1, <3>4 DEF Moves, RowKept, TypeOK
    <3> QED
      BY <3>3, <3>4
  <2> QED
    BY <2>2, <2>3
<1>11. ASSUME NEW p \in Operations, ExpireLease(p), NEW o \in Operations PROVE Moves(o)
  <2>1. row[o] \in Row
    BY DEF TypeOK
  <2> QED
    BY <1>11, <2>1 DEF ExpireLease, Moves, RowKept, RowExpires, TypeOK, Row
<1>12. ASSUME NEW p \in Operations, RetryDue(p), NEW o \in Operations PROVE Moves(o)
  <2>1. row[o] \in Row
    BY DEF TypeOK
  <2> QED
    BY <1>12, <2>1 DEF RetryDue, Moves, RowKept, TypeOK, Row
<1> QED
  BY <1>1, <1>2, <1>5, <1>6, <1>7, <1>8, <1>9, <1>10, <1>11, <1>12 DEF Next, Commit,
     RaiseRecoveryEpoch, Heartbeat, DeliverAgain, CheckSuperseded, LoseClaim, Replay, Perform,
     Decline, LoseAnswer, InspectDownstream, Crash, PassDeadline, vars

-----------------------------------------------------------------------------
(* What moving rows keep. *)

LEMMA RowsStayConsistent ==
    ASSUME TypeOK, TypeOK', RowsConsistent, Grows, \A o \in Operations : Moves(o)
    PROVE RowsConsistent'
<1> SUFFICES ASSUME NEW o \in Operations
             PROVE /\ row'[o].lease # "none" <=> row'[o].disposition = "Claimed"
                   /\ row'[o].sendStarted => row'[o].disposition = "Claimed"
                   /\ position'[o] = 0 => row'[o].disposition = "Pending"
  BY DEF RowsConsistent
<1>1. /\ row[o].lease # "none" <=> row[o].disposition = "Claimed"
      /\ row[o].sendStarted => row[o].disposition = "Claimed"
      /\ position[o] = 0 => row[o].disposition = "Pending"
      /\ position[o] \in Nat
      /\ position[o] > 0 => position'[o] > 0
  BY OutboxAssumption DEF RowsConsistent, TypeOK, Grows
<1>2. CASE RowKept(o)
  BY <1>1, <1>2 DEF RowKept
<1>3. CASE RowClaimed(o)
  BY <1>1, <1>3 DEF RowClaimed
<1>4. CASE RowSends(o)
  BY <1>1, <1>4 DEF RowSends
<1>5. CASE RowExpires(o)
  BY <1>1, <1>5 DEF RowExpires
<1>6. CASE RowEnds(o)
  BY <1>1, <1>6 DEF RowEnds, RowFreed
<1>7. CASE RowProbed(o)
  BY <1>1, <1>7 DEF RowProbed, Doubtful
<1>8. CASE RowSettles(o)
  BY <1>1, <1>8 DEF RowSettles, RowResolved, Doubtful, Terminal
<1> QED
  BY <1>2, <1>3, <1>4, <1>5, <1>6, <1>7, <1>8 DEF Moves

\* A reconciliation that goes on stays fenced, unless its own finish ends it.
ProbeFenced(p) ==
    /\ p.fence <= row[p.op].reconcileFence
    /\ p.fence = row[p.op].reconcileFence => Doubtful(p.op)

LEMMA ProbeStaysFenced ==
    ASSUME TypeOK, TypeOK', RowsConsistent, NEW p \in Probe, ProbeFenced(p), Moves(p.op),
           RowSettles(p.op) => p.fence # row[p.op].reconcileFence
    PROVE ProbeFenced(p)' /\ (p.fence = row'[p.op].reconcileFence =>
                                  p.fence = row[p.op].reconcileFence)
<1>1. /\ p.op \in Operations /\ p.fence \in Nat
      /\ row[p.op].reconcileFence \in Nat /\ row'[p.op].reconcileFence \in Nat
  BY DEF TypeOK, Row, Probe
<1>2. CASE RowKept(p.op)
  BY <1>1, <1>2 DEF RowKept, ProbeFenced, Doubtful
<1>3. CASE RowClaimed(p.op) \/ RowEnds(p.op)
  BY <1>1, <1>3 DEF RowClaimed, RowEnds, RowFreed, ProbeFenced
<1>4. CASE RowSends(p.op) \/ RowExpires(p.op)
  BY <1>1, <1>4 DEF RowSends, RowExpires, ProbeFenced, Doubtful
<1>5. CASE RowProbed(p.op)
  BY <1>1, <1>5 DEF RowProbed, ProbeFenced
<1>6. CASE RowSettles(p.op)
  BY <1>1, <1>6 DEF RowSettles, RowResolved, ProbeFenced
<1> QED
  BY <1>2, <1>3, <1>4, <1>5, <1>6 DEF Moves

\* An effect stays known as long as the component performs nothing new.
LEMMA EffectStaysKnown ==
    ASSUME TypeOK, RowsConsistent, EffectsKnown, NEW o \in Operations, Moves(o),
           journal'[o] = journal[o], journal'[o] = "Accepted", Open(o)'
    PROVE row'[o].sendStarted \/ Doubtful(o)'
<1>1. Open(o) => row[o].sendStarted \/ Doubtful(o)
  BY DEF EffectsKnown
<1>2. CASE RowKept(o)
  BY <1>1, <1>2 DEF RowKept, Open, Doubtful
<1>3. CASE RowClaimed(o)
  BY <1>1, <1>3 DEF RowClaimed
<1>4. CASE RowSends(o)
  BY <1>4 DEF RowSends
<1>5. CASE RowExpires(o)
  BY <1>1, <1>5 DEF RowExpires, Open, Doubtful
<1>6. CASE RowEnds(o)
  BY <1>1, <1>6 DEF RowEnds, RowFreed, Open, Doubtful, Dispositions, Terminal
<1>7. CASE RowProbed(o)
  BY <1>7 DEF RowProbed, Doubtful
<1>8. CASE RowSettles(o)
  BY <1>8 DEF RowSettles, RowResolved, Open, Terminal
<1> QED
  BY <1>2, <1>3, <1>4, <1>5, <1>6, <1>7, <1>8 DEF Moves

\* What was superseded has a reason, and keeps it.
LEMMA ReasonsKept ==
    ASSUME TypeOK, TypeOK', RowsConsistent, JournalOrdered, SupersededForAReason, Grows,
           \A o \in Operations : Moves(o)
    PROVE SupersededForAReason'
<1> SUFFICES ASSUME NEW o \in Operations, row'[o].disposition = "Superseded"
             PROVE HasNewer(o)' \/ Outdated(o)'
  BY DEF SupersededForAReason, Committed
<1>1. row[o].disposition = "Superseded" => position[o] > 0 /\ (HasNewer(o) \/ Outdated(o))
  BY OutboxAssumption DEF SupersededForAReason, RowsConsistent, Committed, TypeOK
<1>2. position[o] > 0 /\ (HasNewer(o) \/ Outdated(o))
  <2>1. CASE row[o].disposition = "Superseded"
    BY <1>1, <2>1
  <2>2. CASE RowEnds(o)
    BY <2>2 DEF RowEnds, RowFreed
  <2>3. CASE RowSettles(o)
    <3>1. journal[o] = "Superseded"
      BY <2>3 DEF RowSettles, RowResolved
    <3> QED
      BY <3>1 DEF JournalOrdered
  <2> QED
    BY <2>1, <2>2, <2>3 DEF Moves, RowKept, RowClaimed, RowSends, RowExpires, RowProbed
<1> QED
  BY <1>2, ReasonsStay

\* The component's order stands while it performs nothing new.
LEMMA OrderKept ==
    ASSUME TypeOK, TypeOK', JournalOrdered, Grows, UNCHANGED downstream
    PROVE JournalOrdered'
<1>1. \A o \in Operations : /\ position[o] \in Nat /\ position'[o] \in Nat
                            /\ journal'[o] = journal[o]
  BY OutboxAssumption DEF TypeOK, downstream
<1>2. \A s \in Scopes : latest'[s] = latest[s] /\ latest[s] \in Nat
  BY OutboxAssumption DEF TypeOK, downstream
<1>3. \A o \in Operations : Scope[o] \in Scopes
  BY OutboxAssumption
<1>4. \A o \in Operations : journal'[o] # "Unknown" => position'[o] > 0
  BY <1>1 DEF JournalOrdered, Grows
<1>5. \A o \in Operations : journal'[o] = "Accepted" => position'[o] <= latest'[Scope[o]]
  BY <1>1, <1>2, <1>3 DEF JournalOrdered, Grows
<1>6. \A o \in Operations : journal'[o] = "Superseded" => HasNewer(o)'
  <2>1. \A o \in Operations : journal'[o] = "Superseded" => position[o] > 0 /\ HasNewer(o)
    BY <1>1 DEF JournalOrdered
  <2> QED
    BY <2>1, ReasonsStay
<1>7. \A s \in Scopes : latest'[s] > 0 =>
         \E n \in Committed' : Scope[n] = s /\ position'[n] = latest'[s]
  <2> SUFFICES ASSUME NEW s \in Scopes, latest'[s] > 0
               PROVE \E n \in Committed' : Scope[n] = s /\ position'[n] = latest'[s]
    OBVIOUS
  <2>1. PICK n \in Committed : Scope[n] = s /\ position[n] = latest[s]
    BY <1>2 DEF JournalOrdered
  <2>2. n \in Operations /\ position'[n] = position[n] /\ position[n] > 0
    BY <2>1 DEF Committed, Grows
  <2> QED
    BY <1>2, <2>1, <2>2 DEF Committed
<1> QED
  BY <1>4, <1>5, <1>6, <1>7 DEF JournalOrdered

-----------------------------------------------------------------------------
(* What each step makes of the calls. *)

Settled == TypeOK /\ TypeOK' /\ Grows /\ \A o \in Operations : Moves(o)

\* A call that becomes d, or ends, while it holds its lease or all is quiet.
LEMMA OneCallMoves ==
    ASSUME IInv, Settled, NEW c \in calls,
           \A d \in calls' : (d \in calls /\ d # c) \/ CallOK(d)',
           \/ UNCHANGED <<row, journal>>
           \/ /\ Holds(c)
              /\ \A q \in Operations : q # c.op => RowKept(q) /\ journal'[q] = journal[q]
              /\ journal'[c.op] = journal[c.op] \/ journal[c.op] = "Unknown"
    PROVE CallsOK'
<1> USE DEF IInv, Settled
<1>1. ASSUME NEW e \in calls, e # c PROVE LeftAlone(e)
  <2>1. CASE UNCHANGED <<row, journal>>
    <3>1. RowKept(e.op) /\ journal'[e.op] = journal[e.op]
      BY <2>1 DEF RowKept
    <3> QED
      BY <3>1, QuietAlone
  <2>2. CASE /\ Holds(c)
             /\ \A q \in Operations : q # c.op => RowKept(q) /\ journal'[q] = journal[q]
             /\ journal'[c.op] = journal[c.op] \/ journal[c.op] = "Unknown"
    BY <1>1, <2>2, OthersAlone
  <2> QED
    BY <2>1, <2>2
<1>2. \A e \in calls : e # c => CallOK(e)'
  BY <1>1, CallStays
<1> QED
  BY <1>2 DEF CallsOK

\* What every version of a call has in common.
LEMMA SameCall ==
    ASSUME TypeOK, TypeOK', Grows, NEW c \in calls, CallOK(c), NEW d, d.op = c.op,
           d.fence = c.fence, row'[c.op].fence = row[c.op].fence
    PROVE /\ position'[d.op] > 0 /\ d.fence <= row'[d.op].fence
          /\ c.op \in Operations /\ c \in Call
<1>1. c.op \in Operations /\ c \in Call
  BY DEF TypeOK, Call
<1> QED
  BY <1>1 DEF CallOK, Grows

\* A call that goes on without writing to the ledger.
LEMMA QuietStep ==
    ASSUME IInv, Settled, NEW c \in calls, NEW d, Step(c, d), UNCHANGED <<row, journal>>,
           d.op = c.op, d.fence = c.fence,
           d.stage = "sending" /\ d.deadline # "late" =>
              c.stage = "sending" /\ c.deadline # "late",
           d.stage \in {"begun", "superseding"} /\ Holds(c) => ~row[c.op].sendStarted,
           d.stage = "superseding" => HasNewer(c.op) \/ Outdated(c.op),
           d.answer \in {"Accepted", "Superseded"} => journal[c.op] = d.answer,
           d.answer = "Deferred" /\ Holds(c) => journal[c.op] = "Unknown"
    PROVE CallsOK'
<1> USE DEF IInv, Settled
<1>1. CallOK(c)
  BY DEF CallsOK
<1>2. position'[d.op] > 0 /\ d.fence <= row'[d.op].fence /\ c.op \in Operations
  BY <1>1, SameCall
<1>3. Holds(d)' = Holds(c) /\ HoldsLive(d)' = HoldsLive(c)
  BY DEF Holds, HoldsLive, Open
<1>4. d.stage = "sending" /\ d.deadline # "late" => HoldsLive(d)' /\ row'[d.op].sendStarted
  BY <1>1, <1>3 DEF CallOK
<1>5. d.stage = "superseding" => HasNewer(d.op)' \/ Outdated(d.op)'
  BY <1>1, <1>2, ReasonsStay DEF CallOK
<1>6. CallOK(d)'
  BY <1>2, <1>3, <1>4, <1>5 DEF CallOK
<1> QED
  BY <1>6, OneCallMoves DEF Step

LEMMA ClaimKeepsCalls ==
    ASSUME IInv, Settled, NEW locked \in SUBSET Operations, Claim(locked)
    PROVE CallsOK' /\ CallsUnique'
<1> USE DEF IInv, Settled
<1>1. journal' = journal
  BY DEF Claim, downstream
<1>2. ASSUME NEW e \in calls PROVE LeftAlone(e)
  <2>1. e.op \in Operations /\ CallOK(e)
    BY DEF TypeOK, Call, CallsOK
  <2>2. CASE RowKept(e.op)
    BY <1>1, <2>2, QuietAlone
  <2>3. CASE RowClaimed(e.op)
    <3>1. ~RowSends(e.op) /\ ~RowExpires(e.op) /\ ~RowEnds(e.op)
      BY <2>3 DEF RowClaimed, RowSends, RowExpires, RowEnds, RowFreed
    <3> QED
      BY <1>1, <3>1 DEF LeftAlone
  <2>4. CASE row'[e.op].lease = "none" /\ row[e.op].lease # "live"
    <3>1. ~RowSends(e.op) /\ ~RowExpires(e.op)
      BY <2>4 DEF RowSends, RowExpires
    <3>2. ~(e.stage = "sending" /\ e.deadline # "late")
      BY <2>1, <2>4 DEF CallOK, HoldsLive
    <3> QED
      BY <1>1, <3>1, <3>2 DEF LeftAlone
  <2>5. CASE ~row[e.op].sendStarted /\ RowFreed(e.op, "Superseded")
    <3>1. ~RowSends(e.op) /\ ~RowExpires(e.op)
      BY <2>5 DEF RowSends, RowExpires, RowFreed
    <3>2. ~(e.stage = "sending" /\ e.deadline # "late")
      BY <2>1, <2>5 DEF CallOK
    <3> QED
      BY <1>1, <3>1, <3>2 DEF LeftAlone
  <2> QED
    BY <2>1, <2>2, <2>3, <2>4, <2>5, ClaimRows DEF RowFreed
<1> DEFINE fresh == {NewCall(o, row[o].fence + 1, 1) : o \in {b \in Batch(locked) : Unsent(b)}}
<1>3. calls' = calls \cup fresh
  BY DEF Claim
<1>4. ASSUME NEW d \in fresh
      PROVE /\ d.op \in Operations /\ d.fence = row[d.op].fence + 1 /\ RowClaimed(d.op)
            /\ d.stage = "claimed" /\ d.answer = "none"
            /\ d = NewCall(d.op, row[d.op].fence + 1, 1)
  <2>1. PICK o \in {b \in Batch(locked) : Unsent(b)} : d = NewCall(o, row[o].fence + 1, 1)
    OBVIOUS
  <2>2. o \in Operations /\ o \in Batch(locked) /\ Unsent(o)
    BY <2>1 DEF Batch
  <2>3. RowClaimed(o)
    BY <2>2, ClaimRows DEF Unsent
  <2>4. /\ d.op = o /\ d.fence = row[o].fence + 1 /\ d.stage = "claimed" /\ d.answer = "none"
    BY <2>1 DEF NewCall
  <2> QED
    BY <2>1, <2>2, <2>3, <2>4
<1> HIDE DEF fresh
<1>5. \A o \in Operations : row[o].fence \in Nat /\ row'[o].fence \in Nat
  BY DEF TypeOK, Row
<1>6. ASSUME NEW d \in fresh PROVE CallOK(d)'
  <2>1. row'[d.op].fence = d.fence /\ position'[d.op] > 0
    BY <1>4 DEF RowClaimed, Grows
  <2> QED
    BY <1>4, <1>5, <2>1 DEF CallOK
<1>7. CallsOK'
  BY <1>2, <1>3, <1>6, CallStays DEF CallsOK
<1>8. ASSUME NEW e \in calls, NEW d \in fresh PROVE ~(e.op = d.op /\ e.fence = d.fence)
  <2>1. e.fence <= row[e.op].fence /\ e.fence \in Nat
    BY DEF CallsOK, CallOK, TypeOK, Call
  <2> QED
    BY <1>4, <1>5, <2>1
<1>9. \A c, d \in fresh : c.op = d.op /\ c.fence = d.fence => c = d
  BY <1>4
<1>10. CallsUnique'
  BY <1>3, <1>8, <1>9 DEF CallsUnique
<1> QED
  BY <1>7, <1>10

\* A call that reads the lease expiry the row has now, or whose deadline passes.
LEMMA HeartbeatKeepsCalls ==
    ASSUME IInv, Settled, NEW o \in Operations, Heartbeat(o)
    PROVE CallsOK' /\ CallsUnique'
<1> USE DEF IInv, Settled
<1>1. row' = row /\ journal' = journal
  BY DEF Heartbeat, downstream
<1>2. ASSUME NEW c \in calls PROVE CallOK(c)' /\ c \in Call
  <2>1. RowKept(c.op) /\ c \in Call
    BY <1>1 DEF RowKept, TypeOK
  <2> QED
    BY <1>1, <2>1, QuietAlone, CallStays
<1>3. ASSUME NEW d \in calls'
      PROVE \E c \in calls : d = c \/ (c.deadline = "lease" /\ d = [c EXCEPT !.deadline = "short"])
  BY DEF Heartbeat
<1>4. ASSUME NEW d \in calls'
      PROVE \E c \in calls : /\ d.op = c.op /\ d.fence = c.fence
                             /\ d.stage = c.stage /\ d.answer = c.answer
                             /\ c.deadline = "late" <=> d.deadline = "late"
  <2>1. PICK c \in calls : d = c \/ (c.deadline = "lease" /\ d = [c EXCEPT !.deadline = "short"])
    BY <1>3
  <2>2. CASE c.deadline = "lease" /\ d = [c EXCEPT !.deadline = "short"]
    <3>1. /\ d.op = c.op /\ d.fence = c.fence /\ d.stage = c.stage /\ d.answer = c.answer
          /\ d.deadline = "short"
      BY <1>2, <2>2, CallFields
    <3> QED
      BY <2>2, <3>1
  <2> QED
    BY <2>1, <2>2
<1>5. CallsOK'
  <2> SUFFICES ASSUME NEW d \in calls' PROVE CallOK(d)'
    BY DEF CallsOK
  <2>1. PICK c \in calls : /\ d.op = c.op /\ d.fence = c.fence
                           /\ d.stage = c.stage /\ d.answer = c.answer
                           /\ c.deadline = "late" <=> d.deadline = "late"
    BY <1>4
  <2>2. CallOK(c)'
    BY <1>2
  <2>3. Holds(c)' = Holds(d)' /\ HoldsLive(c)' = HoldsLive(d)'
    BY <2>1 DEF Holds, HoldsLive, Open
  <2> QED
    BY <2>1, <2>2, <2>3 DEF CallOK
<1>6. CallsUnique'
  <2> DEFINE Read(c) == IF /\ c.op = o /\ c.fence = row[o].fence
                           /\ c.deadline = "lease" /\ c.stage # "claimed"
                        THEN [c EXCEPT !.deadline = "short"] ELSE c
  <2>1. calls' = {Read(c) : c \in calls}
    BY DEF Heartbeat
  <2>2. \A c \in calls : Read(c).op = c.op /\ Read(c).fence = c.fence
    BY <1>2, CallFields
  <2> HIDE DEF Read
  <2> QED
    BY <2>1, <2>2 DEF CallsUnique
<1> QED
  BY <1>5, <1>6

LEMMA ExpiryKeepsCalls ==
    ASSUME IInv, Settled, NEW o \in Operations, ExpireLease(o)
    PROVE CallsOK' /\ CallsUnique'
<1> USE DEF IInv, Settled
<1> DEFINE mine == {c \in calls : c.op = o /\ c.fence = row[o].fence}
<1>1. /\ calls' = (calls \ mine) \cup {[c EXCEPT !.deadline = "late"] : c \in mine}
      /\ journal' = journal
      /\ \A q \in Operations : q # o => RowKept(q)
  BY DEF ExpireLease, downstream, RowKept, TypeOK
<1>2. /\ row'[o].fence = row[o].fence /\ row'[o].sendStarted = row[o].sendStarted
      /\ row'[o].disposition = row[o].disposition /\ row'[o].lease = "expired"
      /\ row[o].lease = "live"
  BY DEF ExpireLease, TypeOK, Row
<1>3. ASSUME NEW e \in calls \ mine PROVE CallOK(e)'
  <2>1. e.op \in Operations /\ CallOK(e)
    BY DEF TypeOK, Call, CallsOK
  <2>2. CASE e.op # o
    BY <1>1, <1>3, <2>1, <2>2, QuietAlone, CallStays
  <2>3. CASE e.op = o
    <3>1. e.fence # row[e.op].fence
      BY <1>3, <2>3
    <3>2. ~RowEnds(e.op)
      BY <1>2, <2>3 DEF RowEnds, RowFreed
    <3>3. LeftAlone(e)
      BY <1>1, <3>1, <3>2 DEF LeftAlone
    <3> QED
      BY <3>3, CallStays
  <2> QED
    BY <2>2, <2>3
<1>4. ASSUME NEW c \in mine
      PROVE /\ CallOK([c EXCEPT !.deadline = "late"])'
            /\ [c EXCEPT !.deadline = "late"].op = c.op
            /\ [c EXCEPT !.deadline = "late"].fence = c.fence
  <2> DEFINE d == [c EXCEPT !.deadline = "late"]
  <2>1. c \in Call /\ c \in calls /\ c.op = o /\ CallOK(c)
    BY <1>4 DEF TypeOK, CallsOK
  <2>2. /\ d.op = c.op /\ d.fence = c.fence /\ d.stage = c.stage /\ d.answer = c.answer
        /\ d.deadline = "late"
    BY <2>1, CallFields
  <2> HIDE DEF d
  <2>3. position'[d.op] > 0 /\ d.fence <= row'[d.op].fence
    BY <1>2, <2>1, <2>2, SameCall
  <2>4. Holds(d)' = Holds(c)
    BY <1>2, <2>1, <2>2 DEF Holds, Open
  <2>5. d.stage = "superseding" => HasNewer(d.op)' \/ Outdated(d.op)'
    BY <2>1, <2>2, ReasonsStay DEF CallOK
  <2>6. CallOK(d)'
    BY <1>1, <1>2, <2>1, <2>2, <2>3, <2>4, <2>5 DEF CallOK
  <2> QED
    BY <2>2, <2>6 DEF d
<1>5. CallsOK'
  BY <1>1, <1>3, <1>4 DEF CallsOK
<1>6. CallsUnique'
  <2> DEFINE Late(c) == [c EXCEPT !.deadline = "late"]
  <2>1. \A d \in calls' : d \in calls \ mine \/ \E c \in mine : d = Late(c)
    BY <1>1
  <2>2. \A c \in mine : Late(c).op = c.op /\ Late(c).fence = c.fence /\ c \in calls
    BY <1>4
  <2>3. \A c, d \in mine : c = d
    BY DEF CallsUnique
  <2>4. \A c \in mine : c.op = o /\ c.fence = row[o].fence
    OBVIOUS
  <2>5. \A c \in calls \ mine : ~(c.op = o /\ c.fence = row[o].fence)
    OBVIOUS
  <2> HIDE DEF Late, mine
  <2> QED
    BY <2>1, <2>2, <2>3, <2>4, <2>5 DEF CallsUnique
<1> QED
  BY <1>5, <1>6

\* Copies hold one delivery of a claim: the worker repeats none that still runs.
LEMMA RepeatKeepsCalls ==
    ASSUME IInv, Settled, Copies = {1}, NEW o \in Operations, NEW copy \in Copies,
           DeliverAgain(o, copy)
    PROVE CallsOK' /\ CallsUnique'
<1> USE DEF IInv, Settled
<1>0. PICK new : new = NewCall(o, row[o].fence, copy)
  OBVIOUS
<1>1. /\ row' = row /\ journal' = journal /\ calls' = calls \cup {new}
      /\ \A d \in calls : ~(d.op = o /\ d.fence = row[o].fence /\ d.copy = copy)
      /\ Open(o) /\ row[o].lease # "none"
  BY <1>0 DEF DeliverAgain, downstream
<1>2. \A e \in calls : CallOK(e)'
  <2>1. \A e \in calls : RowKept(e.op) /\ journal'[e.op] = journal[e.op]
    BY <1>1 DEF RowKept
  <2> QED
    BY <2>1, QuietAlone, CallStays
<1>3. /\ new.op = o /\ new.fence = row[o].fence /\ new.stage = "claimed" /\ new.answer = "none"
  BY <1>0 DEF NewCall
<1>4. position[o] > 0 /\ row[o].fence \in Nat
  BY <1>1, OutboxAssumption DEF RowsConsistent, TypeOK, Row
<1>5. CallOK(new)'
  <2>1. /\ position'[new.op] > 0 /\ row'[new.op].fence = new.fence /\ new.fence \in Nat
        /\ new.stage = "claimed" /\ new.answer = "none"
    BY <1>1, <1>3, <1>4 DEF Grows
  <2> QED
    BY <2>1 DEF CallOK
<1>6. \A d \in calls : d.copy = copy
  BY DEF TypeOK, Call
<1>7. CallsOK'
  BY <1>1, <1>2, <1>5 DEF CallsOK
<1>8. \A d \in calls : ~(d.op = new.op /\ d.fence = new.fence)
  BY <1>1, <1>3, <1>6
<1>9. CallsUnique'
  BY <1>1, <1>8 DEF CallsUnique
<1> QED
  BY <1>7, <1>9

\* A call that writes to the row it holds.
LEMMA WritesKeepCalls ==
    ASSUME IInv, Settled, NEW c \in calls, journal' = journal,
           \/ FinishSuperseded(c) \/ FinishDelivery(c) \/ MarkSendStarted(c)
           \/ BeginDelivery(c) /\ row[c.op].sendStarted
    PROVE CallsOK' /\ CallsUnique'
<1> USE DEF IInv, Settled
<1>1. Holds(c) /\ c \in Call /\ c.op \in Operations /\ CallOK(c)
  BY DEF FinishSuperseded, FinishDelivery, MarkSendStarted, BeginDelivery, HoldsLive, TypeOK,
     Call, CallsOK
<1>2. /\ \A q \in Operations : q # c.op => RowKept(q) /\ journal'[q] = journal[q]
      /\ journal'[c.op] = journal[c.op]
  BY <1>1 DEF FinishSuperseded, FinishDelivery, MarkSendStarted, BeginDelivery, RowKept, TypeOK
<1>5. ASSUME \A d \in calls' : (d \in calls /\ d # c) \/ CallOK(d)'
      PROVE CallsOK'
  BY <1>1, <1>2, <1>5, OneCallMoves
<1>3. CASE calls' = calls \ {c}
  <2>1. \A d \in calls' : d \in calls /\ d # c
    BY <1>3
  <2>2. CallsOK'
    BY <1>5, <2>1
  <2> QED
    BY <1>3, <2>2, EndUnique DEF End
<1>4. CASE MarkSendStarted(c)
  <2> DEFINE d == [c EXCEPT !.stage = "sending"]
  <2>1. /\ d.op = c.op /\ d.fence = c.fence /\ d.stage = "sending" /\ d.answer = c.answer
        /\ d.deadline = c.deadline
    BY <1>1, CallFields
  <2>2. Step(c, d) /\ HoldsLive(c)
    BY <1>4 DEF MarkSendStarted
  <2> HIDE DEF d
  <2>3. /\ row'[c.op].sendStarted /\ row'[c.op].fence = row[c.op].fence
        /\ row'[c.op].disposition = row[c.op].disposition /\ row'[c.op].lease = row[c.op].lease
    BY <1>1, <1>4 DEF MarkSendStarted, TypeOK, Row
  <2>4. HoldsLive(d)' /\ Holds(d)'
    BY <2>1, <2>2, <2>3 DEF HoldsLive, Holds, Open
  <2>5. position'[d.op] > 0 /\ d.fence <= row'[d.op].fence
    BY <1>1, <2>1, <2>3, SameCall
  <2>6. CallOK(d)'
    BY <1>1, <2>1, <2>3, <2>4, <2>5 DEF CallOK
  <2>7. CallsOK'
    BY <1>5, <2>2, <2>6 DEF Step
  <2> QED
    BY <2>1, <2>2, <2>7, StepUnique
<1> QED
  BY <1>3, <1>4 DEF FinishSuperseded, FinishDelivery, BeginDelivery, End

\* A call that goes on, or hears an answer, and writes nothing to the ledger.
LEMMA ReadsKeepCalls ==
    ASSUME IInv, Settled, NEW c \in calls, UNCHANGED <<row, journal>>,
           \/ BeginDelivery(c) \/ CheckSuperseded(c) \/ Replay(c) \/ Decline(c) \/ LoseAnswer(c)
           \/ PassDeadline(c) \/ Perform(c)
    PROVE CallsOK' /\ CallsUnique'
<1> USE DEF IInv, Settled
<1>1. c \in Call /\ c.op \in Operations /\ CallOK(c)
  BY DEF TypeOK, Call, CallsOK
<1>2. ASSUME NEW s, Step(c, [c EXCEPT !.stage = s]), s \in {"begun", "superseding", "cleared"},
             s \in {"begun", "superseding"} /\ Holds(c) => ~row[c.op].sendStarted,
             s = "superseding" => HasNewer(c.op) \/ Outdated(c.op)
      PROVE CallsOK' /\ CallsUnique'
  <2> DEFINE d == [c EXCEPT !.stage = s]
  <2>1. /\ d.op = c.op /\ d.fence = c.fence /\ d.stage = s /\ d.answer = c.answer
        /\ d.deadline = c.deadline /\ Step(c, d)
    BY <1>1, <1>2, CallFields
  <2> HIDE DEF d
  <2> QED
    BY <1>1, <1>2, <2>1, QuietStep, StepUnique DEF CallOK
<1>3. ASSUME NEW a, Answer(c, a), a \in {"Accepted", "Superseded"} => journal[c.op] = a,
             a = "Deferred" => journal[c.op] = "Unknown"
      PROVE CallsOK' /\ CallsUnique'
  <2> DEFINE d == [c EXCEPT !.stage = "answered", !.answer = a]
  <2>1. /\ d.op = c.op /\ d.fence = c.fence /\ d.stage = "answered" /\ d.answer = a
        /\ Step(c, d)
    BY <1>1, <1>3, CallFields DEF Answer
  <2> HIDE DEF d
  <2> QED
    BY <1>1, <1>3, <2>1, QuietStep, StepUnique
<1>4. CASE BeginDelivery(c) /\ ~row[c.op].sendStarted
  BY <1>2, <1>4 DEF BeginDelivery
<1>5. CASE CheckSuperseded(c)
  <2> DEFINE s == IF HasNewer(c.op) \/ Outdated(c.op) THEN "superseding" ELSE "cleared"
  <2>1. Step(c, [c EXCEPT !.stage = s]) /\ c.stage = "begun"
    BY <1>5 DEF CheckSuperseded
  <2>2. s \in {"superseding", "cleared"} /\ (s = "superseding" => HasNewer(c.op) \/ Outdated(c.op))
    OBVIOUS
  <2> HIDE DEF s
  <2> QED
    BY <1>1, <1>2, <2>1, <2>2 DEF CallOK
<1>6. CASE Replay(c)
  <2>1. journal[c.op] \in {"Accepted", "Superseded"} /\ Answer(c, journal[c.op])
    BY <1>1, <1>6 DEF Replay, TypeOK
  <2> QED
    BY <1>3, <2>1
<1>7. CASE Decline(c)
  BY <1>3, <1>7 DEF Decline
<1>8. CASE LoseAnswer(c)
  BY <1>3, <1>8 DEF LoseAnswer
<1>9. CASE PassDeadline(c)
  <2> DEFINE d == [c EXCEPT !.deadline = "late"]
  <2>1. /\ d.op = c.op /\ d.fence = c.fence /\ d.stage = c.stage /\ d.answer = c.answer
        /\ d.deadline = "late" /\ Step(c, d)
    BY <1>1, <1>9, CallFields DEF PassDeadline
  <2> HIDE DEF d
  <2> QED
    BY <1>1, <2>1, QuietStep, StepUnique DEF CallOK
<1>10. CASE Perform(c)
  <2>1. Answer(c, "error")
    <3> DEFINE outcome == IF c.deadline = "late" THEN "error"
                          ELSE IF position[c.op] < latest[Scope[c.op]] THEN "Superseded"
                          ELSE "Accepted"
    <3>1. /\ Answer(c, outcome) /\ journal[c.op] = "Unknown"
          /\ outcome # "error" => journal' = [journal EXCEPT ![c.op] = outcome]
      BY <1>10 DEF Perform
    <3>2. outcome \in {"error", "Superseded", "Accepted"}
      OBVIOUS
    <3> HIDE DEF outcome
    <3>3. outcome = "error"
      BY <1>1, <3>1, <3>2 DEF TypeOK
    <3> QED
      BY <3>1, <3>3
  <2> QED
    BY <1>3, <2>1
<1>11. CASE BeginDelivery(c) /\ row[c.op].sendStarted
  BY <1>11, WritesKeepCalls
<1> QED
  BY <1>4, <1>5, <1>6, <1>7, <1>8, <1>9, <1>10, <1>11

-----------------------------------------------------------------------------
(* What the component's answer to a new operation makes of it all. *)

\* The operation is new, its request alive, and the component's order decides.
Settles(c, outcome) ==
    /\ HoldsLive(c) /\ row[c.op].sendStarted /\ journal[c.op] = "Unknown"
    /\ Answer(c, outcome) /\ row' = row /\ probes' = probes
    /\ journal' = [journal EXCEPT ![c.op] = outcome]
    /\ \/ /\ outcome = "Superseded" /\ position[c.op] < latest[Scope[c.op]]
          /\ latest' = latest
       \/ /\ outcome = "Accepted" /\ ~(position[c.op] < latest[Scope[c.op]])
          /\ latest' = [latest EXCEPT ![Scope[c.op]] = position[c.op]]

LEMMA PerformSettles ==
    ASSUME IInv, NEW c \in calls, Perform(c)
    PROVE UNCHANGED downstream \/ \E outcome \in {"Accepted", "Superseded"} : Settles(c, outcome)
<1> DEFINE outcome == IF c.deadline = "late" THEN "error"
                      ELSE IF position[c.op] < latest[Scope[c.op]] THEN "Superseded"
                      ELSE "Accepted"
<1>1. /\ c.stage = "sending" /\ journal[c.op] = "Unknown" /\ Answer(c, outcome)
      /\ journal' = IF outcome = "error" THEN journal ELSE [journal EXCEPT ![c.op] = outcome]
      /\ latest' = IF outcome = "Accepted" THEN [latest EXCEPT ![Scope[c.op]] = position[c.op]]
                   ELSE latest
      /\ row' = row /\ probes' = probes
  BY DEF Perform
<1>2. c.deadline # "late" => HoldsLive(c) /\ row[c.op].sendStarted
  BY <1>1 DEF IInv, CallsOK, CallOK
<1>3. CASE c.deadline = "late"
  BY <1>1, <1>3 DEF downstream
<1>4. CASE c.deadline # "late" /\ position[c.op] < latest[Scope[c.op]]
  <2>1. outcome = "Superseded"
    BY <1>4
  <2> QED
    BY <1>1, <1>2, <1>4, <2>1 DEF Settles
<1>5. CASE c.deadline # "late" /\ ~(position[c.op] < latest[Scope[c.op]])
  <2>1. outcome = "Accepted"
    BY <1>5
  <2> QED
    BY <1>1, <1>2, <1>5, <2>1 DEF Settles
<1> QED
  BY <1>3, <1>4, <1>5

\* No newer operation of the scope has had its effect.
LEMMA OvertakesNone ==
    ASSUME IInv, NEW c \in calls, Settles(c, "Accepted")
    PROVE \A n \in Committed : Newer(n, c.op) => journal[n] # "Accepted"
<1> SUFFICES ASSUME NEW n \in Operations, Newer(n, c.op), journal[n] = "Accepted"
             PROVE FALSE
  BY DEF Committed
<1>1. c.op \in Operations /\ Scope[c.op] \in Scopes
  BY OutboxAssumption DEF IInv, TypeOK, Call
<1>2. position[n] <= latest[Scope[n]] /\ Scope[n] = Scope[c.op] /\ position[n] > position[c.op]
  BY DEF IInv, JournalOrdered, Newer
<1>3. /\ position[n] \in Nat /\ position[c.op] \in Nat /\ latest[Scope[c.op]] \in Nat
      /\ ~(position[c.op] < latest[Scope[c.op]])
  <2>1. ~(position[c.op] < latest[Scope[c.op]])
    BY DEF Settles
  <2>2. 0..MaxPosition \subseteq Nat
    OBVIOUS
  <2>3. position \in [Operations -> 0..MaxPosition] /\ latest \in [Scopes -> 0..MaxPosition]
    BY DEF IInv, TypeOK
  <2> QED
    BY <1>1, <2>1, <2>2, <2>3
<1> QED
  BY <1>2, <1>3

LEMMA SettlingKeepsOrder ==
    ASSUME IInv, TypeOK', UNCHANGED outbox, NEW c \in calls,
           NEW outcome \in {"Accepted", "Superseded"}, Settles(c, outcome)
    PROVE JournalOrdered'
<1> DEFINE s == Scope[c.op]
<1>1. /\ c.op \in Operations /\ s \in Scopes /\ position[c.op] > 0
      /\ \A o \in Operations : position[o] \in Nat /\ position'[o] = position[o]
      /\ \A r \in Scopes : latest[r] \in Nat
      /\ Committed' = Committed
      /\ \A o \in Operations : Scope[o] \in Scopes
  <2>1. c.op \in Operations /\ position[c.op] > 0
    BY DEF IInv, TypeOK, Call, CallsOK, CallOK
  <2>2. position' = position
    BY DEF outbox
  <2>3. \A o \in Operations : Scope[o] \in Scopes
    BY OutboxAssumption
  <2>4. 0..MaxPosition \subseteq Nat
    OBVIOUS
  <2>5. position \in [Operations -> 0..MaxPosition] /\ latest \in [Scopes -> 0..MaxPosition]
    BY DEF IInv, TypeOK
  <2> QED
    BY <2>1, <2>2, <2>3, <2>4, <2>5 DEF Committed
<1>2. \A o \in Operations : HasNewer(o)' = HasNewer(o)
  BY <1>1 DEF HasNewer, Newer, outbox
<1>3. \A o \in Operations : journal'[o] = IF o = c.op THEN outcome ELSE journal[o]
  BY DEF Settles, IInv, TypeOK
<1>4. \A r \in Scopes : latest'[r] \in Nat /\ latest[r] <= latest'[r] /\ (r # s => latest'[r] = latest[r])
  <2>1. CASE latest' = latest
    BY <1>1, <2>1
  <2>2. CASE latest' = [latest EXCEPT ![s] = position[c.op]] /\ ~(position[c.op] < latest[s])
    BY <1>1, <2>2 DEF IInv, TypeOK
  <2> QED
    BY <2>1, <2>2 DEF Settles
<1>5. outcome = "Accepted" => position[c.op] <= latest'[s] /\ latest'[s] = position[c.op]
  BY <1>1 DEF Settles, IInv, TypeOK
<1>6. outcome = "Superseded" => HasNewer(c.op) /\ latest' = latest
  <2>1. SUFFICES ASSUME outcome = "Superseded" PROVE HasNewer(c.op) /\ latest' = latest
    OBVIOUS
  <2>2. position[c.op] < latest[s] /\ latest' = latest
    BY <2>1 DEF Settles
  <2>3. PICK n \in Committed : Scope[n] = s /\ position[n] = latest[s]
    BY <1>1, <2>2 DEF IInv, JournalOrdered
  <2> QED
    BY <1>1, <2>2, <2>3 DEF HasNewer, Newer, Committed
<1> HIDE DEF s
<1>7. \A o \in Operations : journal'[o] # "Unknown" => position'[o] > 0
  BY <1>1, <1>3 DEF IInv, JournalOrdered
<1>8. \A o \in Operations : journal'[o] = "Accepted" => position'[o] <= latest'[Scope[o]]
  BY <1>1, <1>3, <1>4, <1>5 DEF IInv, JournalOrdered, s
<1>9. \A o \in Operations : journal'[o] = "Superseded" => HasNewer(o)'
  BY <1>1, <1>2, <1>3, <1>6 DEF IInv, JournalOrdered
<1>10. \A r \in Scopes : latest'[r] > 0 =>
          \E n \in Committed' : Scope[n] = r /\ position'[n] = latest'[r]
  <2> SUFFICES ASSUME NEW r \in Scopes, latest'[r] > 0
               PROVE \E n \in Committed : Scope[n] = r /\ position[n] = latest'[r]
    BY <1>1 DEF Committed
  <2>1. CASE latest'[r] = latest[r]
    BY <2>1 DEF IInv, JournalOrdered
  <2>2. CASE latest'[r] # latest[r]
    <3>1. r = s /\ outcome = "Accepted" /\ latest'[s] = position[c.op]
      BY <1>4, <1>5, <1>6, <2>2
    <3> QED
      BY <1>1, <3>1 DEF Committed, s
  <2> QED
    BY <2>1, <2>2
<1> QED
  BY <1>7, <1>8, <1>9, <1>10 DEF JournalOrdered

\* Only the call that is answered is told, and only a stale one knew better.
LEMMA SettlingKeepsCalls ==
    ASSUME IInv, Settled, NEW c \in calls,
           NEW outcome \in {"Accepted", "Superseded"}, Settles(c, outcome)
    PROVE CallsOK' /\ CallsUnique'
<1> USE DEF IInv, Settled
<1> DEFINE d == [c EXCEPT !.stage = "answered", !.answer = outcome]
<1>1. c \in Call /\ c.op \in Operations /\ CallOK(c) /\ Holds(c)
  BY DEF TypeOK, Call, CallsOK, Settles, HoldsLive
<1>2. /\ d.op = c.op /\ d.fence = c.fence /\ d.stage = "answered" /\ d.answer = outcome
      /\ Step(c, d)
  BY <1>1, CallFields DEF Settles, Answer
<1> HIDE DEF d
<1>3. /\ \A q \in Operations : q # c.op => RowKept(q) /\ journal'[q] = journal[q]
      /\ journal'[c.op] = outcome /\ journal[c.op] = "Unknown" /\ row' = row
  BY <1>1 DEF Settles, TypeOK, RowKept
<1>4. position'[d.op] > 0 /\ d.fence <= row'[d.op].fence
  BY <1>1, <1>2, <1>3, SameCall
<1>5. CallOK(d)'
  BY <1>1, <1>2, <1>3, <1>4 DEF CallOK
<1>6. \A e \in calls' : (e \in calls /\ e # c) \/ CallOK(e)'
  BY <1>2, <1>5 DEF Step
<1>7. CallsOK'
  BY <1>1, <1>3, <1>6, OneCallMoves
<1> QED
  BY <1>2, <1>7, StepUnique

\* A reconciliation that heard of nothing has a fence the answered row has passed.
LEMMA SettlingKeepsProbes ==
    ASSUME IInv, NEW c \in calls,
           NEW outcome \in {"Accepted", "Superseded"}, Settles(c, outcome)
    PROVE ProbesTruthful'
<1> USE DEF IInv
<1>1. c.op \in Operations /\ ~Doubtful(c.op)
  BY HeldRow DEF Settles, HoldsLive, CallsOK
<1>2. ASSUME NEW p \in probes
      PROVE /\ p.answer \in {"Accepted", "Superseded"} => journal'[p.op] = p.answer
            /\ p.answer = "Unknown" /\ p.fence = row[p.op].reconcileFence => journal'[p.op] = "Unknown"
  <2>1. p.op \in Operations
    BY DEF TypeOK, Probe
  <2>2. CASE p.op # c.op
    <3>1. journal'[p.op] = journal[p.op]
      BY <1>1, <2>1, <2>2 DEF Settles, TypeOK
    <3> QED
      BY <3>1 DEF ProbesTruthful
  <2>3. CASE p.op = c.op
    <3>1. journal[p.op] = "Unknown" /\ p.fence # row[p.op].reconcileFence
      BY <1>1, <2>3 DEF Settles, ProbesFenced
    <3> QED
      BY <3>1 DEF ProbesTruthful
  <2> QED
    BY <2>2, <2>3
<1> QED
  BY <1>2 DEF ProbesTruthful, Settles

-----------------------------------------------------------------------------
(* The inductive step. *)

\* A reconciliation that is left alone stays fenced and truthful.
LEMMA ProbesStay ==
    ASSUME IInv, Settled, probes' \subseteq probes, journal' = journal,
           \A p \in probes' : RowSettles(p.op) => p.fence # row[p.op].reconcileFence
    PROVE ProbesFenced' /\ ProbesTruthful'
<1> USE DEF IInv, Settled
<1>1. ASSUME NEW p \in probes'
      PROVE ProbeFenced(p)' /\ (p.fence = row'[p.op].reconcileFence =>
                                   p.fence = row[p.op].reconcileFence)
  <2>1. p \in Probe /\ Moves(p.op) /\ ProbeFenced(p)
    BY DEF TypeOK, Probe, ProbesFenced, ProbeFenced
  <2> QED
    BY <2>1, ProbeStaysFenced
<1>2. ProbesFenced'
  BY <1>1 DEF ProbesFenced, ProbeFenced
<1>3. ProbesTruthful'
  BY <1>1 DEF ProbesTruthful
<1> QED
  BY <1>2, <1>3

LEMMA StartKeepsProbes ==
    ASSUME IInv, Settled, NEW o \in Operations, StartReconcile(o)
    PROVE ProbesFenced' /\ ProbesTruthful'
<1> USE DEF IInv, Settled
<1>1. PICK q : q = [op |-> o, fence |-> row[o].reconcileFence + 1, answer |-> "none"]
  OBVIOUS
<1>2. /\ probes' = probes \cup {q} /\ journal' = journal
      /\ Doubtful(o) /\ Doubtful(o)'
      /\ row'[o].reconcileFence = q.fence /\ q.op = o /\ q.answer = "none"
      /\ row[o].reconcileFence \in Nat /\ q.fence = row[o].reconcileFence + 1
  BY <1>1 DEF StartReconcile, downstream, Doubtful, TypeOK, Row
<1>3. \A p \in probes : ~RowSettles(p.op)
  <2>1. \A p \in Operations : row'[p].disposition = row[p].disposition
    BY DEF StartReconcile, TypeOK, Row
  <2> QED
    BY <2>1 DEF RowSettles, RowResolved, Doubtful, TypeOK, Probe, Terminal
<1>4. ASSUME NEW p \in probes
      PROVE /\ ProbeFenced(p)' /\ p.fence \in Nat /\ p.fence <= row[p.op].reconcileFence
            /\ p.fence = row'[p.op].reconcileFence => p.fence = row[p.op].reconcileFence
  <2>1. p \in Probe /\ Moves(p.op) /\ ProbeFenced(p) /\ p.fence \in Nat
    BY DEF TypeOK, Probe, ProbesFenced, ProbeFenced
  <2>2. p.fence <= row[p.op].reconcileFence
    BY DEF ProbesFenced
  <2> QED
    BY <1>3, <2>1, <2>2, ProbeStaysFenced
<1>5. ProbeFenced(q)'
  BY <1>2 DEF ProbeFenced
<1>6. \A p \in probes : ~(p.op = q.op /\ p.fence = q.fence)
  BY <1>2, <1>4
<1>7. \A p \in probes' : ProbeFenced(p)'
  BY <1>2, <1>4, <1>5
<1>8. \A p, r \in probes' : p.op = r.op /\ p.fence = r.fence => p = r
  BY <1>2, <1>6 DEF ProbesFenced
<1>9. ProbesTruthful'
  BY <1>2, <1>4 DEF ProbesTruthful
<1> QED
  BY <1>7, <1>8, <1>9 DEF ProbesFenced, ProbeFenced

\* The component tells a reconciliation what its journal says.
LEMMA InspectKeepsProbes ==
    ASSUME IInv, NEW p \in probes, InspectDownstream(p)
    PROVE ProbesFenced' /\ ProbesTruthful'
<1> USE DEF IInv
<1>1. row' = row /\ journal' = journal /\ p \in Probe
  BY DEF InspectDownstream, downstream, TypeOK
<1>2. PICK q : /\ q.op = p.op /\ q.fence = p.fence
               /\ probes' = (probes \ {p}) \cup {q}
               /\ q.answer = journal[p.op] \/ q.answer = "Poisoned"
  <2>1. CASE probes' = (probes \ {p}) \cup {[p EXCEPT !.answer = journal[p.op]]}
    <3>1. /\ [p EXCEPT !.answer = journal[p.op]].op = p.op
          /\ [p EXCEPT !.answer = journal[p.op]].fence = p.fence
          /\ [p EXCEPT !.answer = journal[p.op]].answer = journal[p.op]
      BY <1>1 DEF Probe
    <3> QED
      BY <2>1, <3>1
  <2>2. CASE probes' = (probes \ {p}) \cup {[p EXCEPT !.answer = "Poisoned"]}
    <3>1. /\ [p EXCEPT !.answer = "Poisoned"].op = p.op
          /\ [p EXCEPT !.answer = "Poisoned"].fence = p.fence
          /\ [p EXCEPT !.answer = "Poisoned"].answer = "Poisoned"
      BY <1>1 DEF Probe
    <3> QED
      BY <2>2, <3>1
  <2> QED
    BY <2>1, <2>2 DEF InspectDownstream
<1>3. ProbesFenced'
  BY <1>1, <1>2 DEF ProbesFenced, Doubtful
<1>4. ProbesTruthful'
  BY <1>1, <1>2 DEF ProbesTruthful
<1> QED
  BY <1>3, <1>4

LEMMA FinishKeepsProbes ==
    ASSUME IInv, Settled, NEW p \in probes, FinishReconcile(p)
    PROVE ProbesFenced' /\ ProbesTruthful'
<1> USE DEF IInv, Settled
<1>1. probes' = probes \ {p} /\ journal' = journal
  BY DEF FinishReconcile, downstream
<1>2. ASSUME NEW q \in probes', RowSettles(q.op) PROVE q.fence # row[q.op].reconcileFence
  <2>1. row'[q.op].disposition # row[q.op].disposition /\ q.op \in Operations
    BY <1>1, <1>2 DEF RowSettles, RowResolved, Doubtful, Terminal, TypeOK, Probe
  <2>2. q.op = p.op /\ row[p.op].reconcileFence = p.fence
    BY <2>1 DEF FinishReconcile, TypeOK, Probe
  <2> QED
    BY <1>1, <2>2 DEF ProbesFenced
<1> QED
  BY <1>1, <1>2, ProbesStay

\* Calls that only end, while no lease begins, ends or starts to send.
LEMMA IdleCallsStay ==
    ASSUME IInv, Settled, calls' \subseteq calls, journal' = journal,
           \A o \in Operations : /\ row'[o].lease = row[o].lease
                                 /\ row'[o].sendStarted = row[o].sendStarted
    PROVE CallsOK' /\ CallsUnique'
<1> USE DEF IInv, Settled
<1>1. ASSUME NEW e \in calls PROVE CallOK(e)'
  <2>1. e.op \in Operations /\ CallOK(e)
    BY DEF TypeOK, Call, CallsOK
  <2>2. ~RowSends(e.op) /\ ~RowExpires(e.op)
    BY <2>1 DEF RowSends, RowExpires
  <2>3. RowEnds(e.op) => row[e.op].lease = "none"
    BY <2>1 DEF RowEnds, RowFreed
  <2>4. e.stage = "sending" /\ e.deadline # "late" => row[e.op].lease = "live"
    BY <2>1 DEF CallOK, HoldsLive
  <2>5. RowEnds(e.op) => ~(e.stage = "sending" /\ e.deadline # "late")
    BY <2>3, <2>4
  <2>6. LeftAlone(e)
    BY <2>2, <2>5 DEF LeftAlone
  <2> QED
    BY <2>6, CallStays
<1>2. CallsOK'
  BY <1>1 DEF CallsOK
<1>3. CallsUnique'
  BY DEF CallsUnique
<1> QED
  BY <1>2, <1>3

LEMMA StepKeepsCalls ==
    ASSUME IInv, Settled, Copies = {1}, [Next]_vars
    PROVE CallsOK' /\ CallsUnique'
<1>1. CASE row' = row /\ journal' = journal /\ calls' \subseteq calls
  BY <1>1, IdleCallsStay
<1>2. ASSUME NEW locked \in SUBSET Operations, Claim(locked) PROVE CallsOK' /\ CallsUnique'
  BY <1>2, ClaimKeepsCalls
<1>3. ASSUME NEW o \in Operations, Heartbeat(o) \/ \E copy \in Copies : DeliverAgain(o, copy)
      PROVE CallsOK' /\ CallsUnique'
  BY <1>3, HeartbeatKeepsCalls, RepeatKeepsCalls
<1>4. ASSUME NEW c \in calls,
             BeginDelivery(c) \/ CheckSuperseded(c) \/ FinishSuperseded(c) \/ MarkSendStarted(c)
             \/ FinishDelivery(c) \/ Replay(c) \/ Decline(c) \/ LoseAnswer(c) \/ PassDeadline(c)
      PROVE CallsOK' /\ CallsUnique'
  <2>1. journal' = journal
    BY <1>4 DEF BeginDelivery, CheckSuperseded, FinishSuperseded, MarkSendStarted, FinishDelivery,
       Replay, Decline, LoseAnswer, PassDeadline, downstream
  <2>2. CASE FinishSuperseded(c) \/ FinishDelivery(c) \/ MarkSendStarted(c)
    BY <2>1, <2>2, WritesKeepCalls
  <2>3. CASE BeginDelivery(c)
    <3>1. row[c.op].sendStarted \/ row' = row
      BY <2>3 DEF BeginDelivery
    <3> QED
      BY <2>1, <2>3, <3>1, WritesKeepCalls, ReadsKeepCalls
  <2>4. CASE CheckSuperseded(c) \/ Replay(c) \/ Decline(c) \/ LoseAnswer(c) \/ PassDeadline(c)
    <3>1. row' = row
      BY <2>4 DEF CheckSuperseded, Replay, Decline, LoseAnswer, PassDeadline
    <3> QED
      BY <2>1, <2>4, <3>1, ReadsKeepCalls
  <2> QED
    BY <1>4, <2>2, <2>3, <2>4
<1>5. ASSUME NEW c \in calls, Perform(c) PROVE CallsOK' /\ CallsUnique'
  <2>1. CASE UNCHANGED downstream
    <3>1. UNCHANGED <<row, journal>>
      BY <1>5, <2>1 DEF Perform, downstream
    <3> QED
      BY <1>5, <3>1, ReadsKeepCalls
  <2>2. CASE \E outcome \in {"Accepted", "Superseded"} : Settles(c, outcome)
    BY <2>2, SettlingKeepsCalls
  <2> QED
    BY <1>5, <2>1, <2>2, PerformSettles
<1>6. ASSUME NEW o \in Operations, StartReconcile(o) \/ RetryDue(o)
      PROVE CallsOK' /\ CallsUnique'
  <2>1. /\ calls' = calls /\ journal' = journal
        /\ \A q \in Operations : /\ row'[q].lease = row[q].lease
                                 /\ row'[q].sendStarted = row[q].sendStarted
    BY <1>6 DEF StartReconcile, RetryDue, downstream, IInv, TypeOK, Row
  <2> QED
    BY <2>1, IdleCallsStay
<1>7. ASSUME NEW p \in probes, FinishReconcile(p) PROVE CallsOK' /\ CallsUnique'
  <2>1. /\ calls' = calls /\ journal' = journal
        /\ \A q \in Operations : /\ row'[q].lease = row[q].lease
                                 /\ row'[q].sendStarted = row[q].sendStarted
    BY <1>7 DEF FinishReconcile, downstream, IInv, TypeOK, Row
  <2> QED
    BY <2>1, IdleCallsStay
<1>8. ASSUME NEW o \in Operations, ExpireLease(o) PROVE CallsOK' /\ CallsUnique'
  BY <1>8, ExpiryKeepsCalls
<1>9. CASE \/ \E o \in Operations : Commit(o)
           \/ RaiseRecoveryEpoch
           \/ \E c \in calls : LoseClaim(c)
           \/ \E p \in probes : InspectDownstream(p)
           \/ Crash
           \/ UNCHANGED vars
  <2>1. row' = row /\ journal' = journal /\ calls' \subseteq calls
    BY <1>9 DEF Commit, RaiseRecoveryEpoch, LoseClaim, InspectDownstream, Crash, vars, downstream,
       End
  <2> QED
    BY <1>1, <2>1
<1> QED
  BY <1>2, <1>3, <1>4, <1>5, <1>6, <1>7, <1>8, <1>9 DEF Next

LEMMA StepKeepsProbes ==
    ASSUME IInv, Settled, [Next]_vars
    PROVE ProbesFenced' /\ ProbesTruthful'
<1>1. ASSUME probes' \subseteq probes, journal' = journal,
             \A o \in Operations : row'[o].disposition = row[o].disposition \/ ~Doubtful(o)
      PROVE ProbesFenced' /\ ProbesTruthful'
  <2>1. \A p \in probes' : ~RowSettles(p.op)
    BY <1>1 DEF RowSettles, RowResolved, Doubtful, Terminal, IInv, TypeOK, Probe
  <2> QED
    BY <1>1, <2>1, ProbesStay
<1>3. ASSUME NEW locked \in SUBSET Operations, Claim(locked)
      PROVE ProbesFenced' /\ ProbesTruthful'
  <2>1. \A o \in Operations : row'[o].disposition = row[o].disposition \/ ~Doubtful(o)
    BY <1>3, ClaimRows DEF IInv, RowKept, RowClaimed, RowFreed
  <2> QED
    BY <1>1, <1>3, <2>1 DEF Claim, downstream
<1>4. ASSUME NEW c \in calls,
             BeginDelivery(c) \/ FinishSuperseded(c) \/ MarkSendStarted(c) \/ FinishDelivery(c)
      PROVE ProbesFenced' /\ ProbesTruthful'
  <2>1. Holds(c) /\ CallOK(c)
    BY <1>4 DEF BeginDelivery, FinishSuperseded, MarkSendStarted, FinishDelivery, HoldsLive, IInv,
       CallsOK
  <2>2. ~Doubtful(c.op)
    BY <2>1, HeldRow DEF IInv
  <2>3. \A o \in Operations : o # c.op => row'[o] = row[o]
    BY <1>4 DEF BeginDelivery, FinishSuperseded, MarkSendStarted, FinishDelivery, IInv, TypeOK
  <2>4. probes' = probes /\ journal' = journal
    BY <1>4 DEF BeginDelivery, FinishSuperseded, MarkSendStarted, FinishDelivery, downstream
  <2> QED
    BY <1>1, <2>2, <2>3, <2>4
<1>5. ASSUME NEW c \in calls, Perform(c) PROVE ProbesFenced' /\ ProbesTruthful'
  <2>1. row' = row /\ probes' = probes
    BY <1>5 DEF Perform
  <2>2. CASE UNCHANGED downstream
    BY <1>1, <2>1, <2>2 DEF downstream
  <2>3. CASE \E outcome \in {"Accepted", "Superseded"} : Settles(c, outcome)
    <3>1. ProbesFenced'
      BY <2>1 DEF IInv, ProbesFenced, Doubtful
    <3> QED
      BY <2>3, <3>1, SettlingKeepsProbes
  <2> QED
    BY <1>5, <2>2, <2>3, PerformSettles
<1>6. ASSUME NEW o \in Operations, StartReconcile(o) PROVE ProbesFenced' /\ ProbesTruthful'
  BY <1>6, StartKeepsProbes
<1>7. ASSUME NEW p \in probes, InspectDownstream(p) \/ FinishReconcile(p)
      PROVE ProbesFenced' /\ ProbesTruthful'
  BY <1>7, InspectKeepsProbes, FinishKeepsProbes
<1>8. ASSUME NEW o \in Operations, ExpireLease(o) \/ RetryDue(o)
      PROVE ProbesFenced' /\ ProbesTruthful'
  <2>1. \A q \in Operations : row'[q].disposition = row[q].disposition
    BY <1>8 DEF ExpireLease, RetryDue, IInv, TypeOK, Row
  <2> QED
    BY <1>1, <1>8, <2>1 DEF ExpireLease, RetryDue, downstream
<1>9. CASE row' = row /\ journal' = journal /\ probes' \subseteq probes
  BY <1>1, <1>9
<1>10. CASE \/ \E o \in Operations : Commit(o)
            \/ RaiseRecoveryEpoch
            \/ \E o \in Operations : Heartbeat(o) \/ \E copy \in Copies : DeliverAgain(o, copy)
            \/ \E c \in calls : CheckSuperseded(c) \/ LoseClaim(c) \/ Replay(c) \/ Decline(c)
                                \/ LoseAnswer(c) \/ PassDeadline(c)
            \/ Crash
            \/ UNCHANGED vars
  <2>1. row' = row /\ journal' = journal /\ probes' \subseteq probes
    BY <1>10 DEF Commit, RaiseRecoveryEpoch, Heartbeat, DeliverAgain, CheckSuperseded, LoseClaim,
       Replay, Decline, LoseAnswer, PassDeadline, Crash, vars, downstream
  <2> QED
    BY <1>9, <2>1
<1> QED
  BY <1>3, <1>4, <1>5, <1>6, <1>7, <1>8, <1>10 DEF Next

LEMMA StepKeepsEffects ==
    ASSUME IInv, Settled, [Next]_vars
    PROVE JournalOrdered' /\ EffectsKnown'
<1> USE DEF Settled
<1>1. CASE UNCHANGED downstream
  <2>1. EffectsKnown'
    <3>1. journal' = journal
      BY <1>1 DEF downstream
    <3> QED
      BY <3>1, EffectStaysKnown DEF IInv, EffectsKnown
  <2> QED
    BY <1>1, <2>1, OrderKept DEF IInv
<1>2. ASSUME NEW c \in calls, NEW outcome \in {"Accepted", "Superseded"}, Settles(c, outcome),
             UNCHANGED outbox
      PROVE JournalOrdered' /\ EffectsKnown'
  <2>1. row' = row /\ row[c.op].sendStarted
    BY <1>2 DEF Settles
  <2>2. \A o \in Operations : o # c.op => journal'[o] = journal[o]
    BY <1>2 DEF Settles, IInv, TypeOK
  <2>3. EffectsKnown'
    BY <2>1, <2>2 DEF IInv, EffectsKnown, Open, Doubtful
  <2> QED
    BY <1>2, <2>3, SettlingKeepsOrder
<1>3. ASSUME NEW c \in calls, Perform(c) PROVE JournalOrdered' /\ EffectsKnown'
  <2>1. UNCHANGED outbox
    BY <1>3 DEF Perform
  <2> QED
    BY <1>1, <1>2, <1>3, <2>1, PerformSettles
<1> QED
  BY <1>1, <1>3 DEF Next, Commit, RaiseRecoveryEpoch, Claim, Heartbeat, DeliverAgain,
     BeginDelivery, CheckSuperseded, FinishSuperseded, MarkSendStarted, LoseClaim, Replay, Decline,
     LoseAnswer, FinishDelivery, StartReconcile, InspectDownstream, FinishReconcile, Crash,
     ExpireLease, RetryDue, PassDeadline, vars

\* Every step keeps the invariant.
LEMMA StepsKeepIInv == ASSUME Copies = {1}, IInv, [Next]_vars PROVE IInv' /\ Settled
<1>1. Settled
  <2>1. TypeOK /\ TypeOK'
    BY TypesKept DEF IInv
  <2> QED
    BY <2>1, StepsGrow, StepsMove DEF Settled
<1>2. RowsConsistent'
  BY <1>1, RowsStayConsistent DEF Settled, IInv
<1>3. SupersededForAReason'
  BY <1>1, ReasonsKept DEF Settled, IInv
<1>4. CallsOK' /\ CallsUnique'
  BY <1>1, StepKeepsCalls
<1>5. ProbesFenced' /\ ProbesTruthful'
  BY <1>1, StepKeepsProbes
<1>6. JournalOrdered' /\ EffectsKnown'
  BY <1>1, StepKeepsEffects
<1> QED
  BY <1>1, <1>2, <1>3, <1>4, <1>5, <1>6 DEF IInv, Settled

-----------------------------------------------------------------------------
(* The theorems. *)

\* The strengthened invariant holds of every behaviour in which no claim is
\* delivered by two calls at once.
THEOREM OutboxInvariantHolds == ASSUME Copies = {1} PROVE Spec => []IInv
BY OutboxStarts, StepsKeepIInv, PTL DEF Spec

\* The rows are well formed, the ledger knows of every request that can still
\* take effect (beginDelivery, markSendStarted), and supersedes for a reason.
THEOREM SendsAreAlwaysKnown == ASSUME Copies = {1} PROVE Spec => []DeliveryInvariant
<1>1. IInv => DeliveryInvariant
  BY DEF IInv, DeliveryInvariant, LiveSendIsKnown, CallsOK, CallOK, HoldsLive
<1> QED
  BY <1>1, OutboxInvariantHolds, PTL

-----------------------------------------------------------------------------
(* The contract. *)

\* What the contract reads in a row.
Verdict(o) ==
    CASE row[o].disposition = "Accepted" -> "done"
      [] row[o].disposition = "Superseded" -> "dropped"
      [] row[o].disposition = "Poisoned" -> "refused"
      [] OTHER -> "open"

Effect == [o \in Operations |-> journal[o] = "Accepted"]
Verdicts == [o \in Operations |-> Verdict(o)]

LEMMA ContractStarts == Init => Contract!Init
<1> SUFFICES ASSUME Init PROVE Contract!Init
  OBVIOUS
<1>1. Effect = [o \in Operations |-> FALSE]
  BY DEF Effect, Init
<1>2. \A o \in Operations : Verdict(o) = "open"
  BY DEF Verdict, Init
<1>3. Verdicts = [o \in Operations |-> "open"]
  BY <1>2 DEF Verdicts
<1> QED
  BY <1>1, <1>3 DEF Init, Contract!Init, Effect, Verdicts, Verdict

LEMMA VerdictOfRow ==
    ASSUME NEW o \in Operations
    PROVE /\ Open(o) => Verdict(o) = "open"
          /\ ~Open(o) => Verdict(o) \in {"done", "dropped", "refused"}
          /\ Verdict(o) = "done" => row[o].disposition = "Accepted"
          /\ Verdict(o) = "dropped" => row[o].disposition = "Superseded"
BY DEF Verdict, Open, Terminal

\* A row that is closed was committed, and is closed with the truth.
LEMMA ClosingTruth ==
    ASSUME IInv, Settled, NEW o \in Operations, Open(o), ~Open(o)'
    PROVE /\ position[o] > 0
          /\ row'[o].disposition = "Accepted" => journal[o] = "Accepted"
          /\ row'[o].disposition = "Superseded" => journal[o] # "Accepted"
<1>1. RowEnds(o) \/ RowSettles(o)
  BY DEF Settled, Moves, RowKept, RowClaimed, RowSends, RowExpires, RowProbed, Open, Terminal
<1>2. CASE RowEnds(o)
  BY <1>2 DEF RowEnds, RowFreed
<1>3. CASE RowSettles(o)
  <2>1. position[o] > 0
    BY <1>3, OutboxAssumption DEF RowSettles, RowResolved, Doubtful, IInv, RowsConsistent, TypeOK
  <2> QED
    BY <1>3, <2>1 DEF RowSettles, RowResolved
<1> QED
  BY <1>1, <1>2, <1>3

\* Whatever else a step does to the rows, it closes some, and closes no row twice.
LEMMA ClosesSome ==
    ASSUME IInv, Settled, UNCHANGED <<position, journal>>
    PROVE Contract!Next
<1>0. PICK closed : closed = {o \in Operations : Open(o) /\ ~Open(o)'}
  OBVIOUS
<1> DEFINE v == [o \in closed |-> Verdict(o)']
<1>1. closed \in SUBSET Contract!Committed
  BY <1>0, ClosingTruth DEF Contract!Committed
<1>2. \A o \in closed : Verdict(o) = "open" /\ o \in Contract!Committed
  BY <1>0, <1>1, VerdictOfRow
<1>3. \A o \in closed : Verdict(o)' \in {"done", "dropped", "refused"}
  BY <1>0 DEF Verdict, Open, Terminal
<1>4. v \in [closed -> {"done", "dropped", "refused"}]
  BY <1>3
<1>5. ASSUME NEW o \in closed
      PROVE /\ v[o] = "done" => Effect[o]
            /\ v[o] = "dropped" => ~Effect[o]
  <2>1. v[o] = Verdict(o)' /\ o \in Operations /\ Open(o) /\ ~Open(o)'
    BY <1>0
  <2>2. /\ Verdict(o)' = "done" => row'[o].disposition = "Accepted"
        /\ Verdict(o)' = "dropped" => row'[o].disposition = "Superseded"
    BY DEF Verdict
  <2> QED
    BY <2>1, <2>2, ClosingTruth DEF Effect
<1>6. ASSUME NEW o \in Operations, o \notin closed PROVE Verdict(o)' = Verdict(o)
  <2>1. CASE Open(o)
    <3>1. Open(o)'
      BY <1>0, <1>6, <2>1
    <3>2. Verdict(o) = "open" /\ Verdict(o)' = "open"
      BY <2>1, <3>1 DEF Verdict, Open, Terminal
    <3> QED
      BY <3>2
  <2>2. CASE ~Open(o)
    <3>1. RowKept(o) \/ RowExpires(o)
      BY <2>2 DEF Settled, Moves, RowClaimed, RowSends, RowEnds, RowFreed, RowProbed, RowSettles,
         RowResolved, Doubtful, Open, Terminal
    <3> QED
      BY <3>1 DEF RowKept, RowExpires, Verdict
  <2> QED
    BY <2>1, <2>2
<1>7. Verdicts' = [o \in Operations |-> IF o \in closed THEN v[o] ELSE Verdicts[o]]
  BY <1>6 DEF Verdicts
<1> HIDE DEF v
<1>8. \A o \in closed : o \in Operations
  BY <1>1 DEF Contract!Committed
<1>9. \A o \in closed : Verdicts[o] = "open" /\ o \in Contract!Committed
  BY <1>2, <1>8 DEF Verdicts
<1>10. UNCHANGED <<position, Effect>>
  BY DEF Effect
<1>11. Contract!Close(closed)
  BY <1>4, <1>5, <1>7, <1>9, <1>10 DEF Contract!Close, Effect, Verdicts, Verdict
<1> QED
  BY <1>1, <1>11 DEF Contract!Next

LEMMA StepsKeepContract ==
    ASSUME IInv, Settled, [Next]_vars
    PROVE [Contract!Next]_(Contract!vars)
<1>1. ASSUME NEW o \in Operations, Commit(o) PROVE Contract!Commit(o)
  BY <1>1 DEF Commit, downstream, Contract!Commit, Contract!Committed, Committed
<1>2. ASSUME NEW c \in calls, Settles(c, "Accepted"), UNCHANGED outbox PROVE Contract!Perform(c.op)
  <2>1. /\ c.op \in Operations /\ position[c.op] > 0 /\ Open(c.op)
        /\ journal[c.op] = "Unknown" /\ row' = row /\ position' = position
        /\ journal' = [journal EXCEPT ![c.op] = "Accepted"]
    BY <1>2, HeldRow DEF Settles, HoldsLive, IInv, CallsOK, outbox
  <2>2. Effect' = [Effect EXCEPT ![c.op] = TRUE]
    BY <2>1 DEF Effect, IInv, TypeOK
  <2>3. ~\E n \in Committed : Newer(n, c.op) /\ Effect[n]
    BY <1>2, OvertakesNone DEF Effect, Committed
  <2>4. Verdict(c.op) = "open"
    BY <2>1, VerdictOfRow
  <2>5. c.op \in Committed /\ ~Effect[c.op] /\ Verdicts[c.op] = "open" /\ Verdicts' = Verdicts
    BY <2>1, <2>4 DEF Effect, Committed, Verdicts, Verdict
  <2> QED
    BY <2>1, <2>2, <2>3, <2>5
       DEF Contract!Perform, Contract!Committed, Contract!Newer, Committed, Newer, Effect, Verdicts,
           Verdict
<1>3. ASSUME NEW c \in calls, Settles(c, "Superseded"), UNCHANGED outbox
      PROVE UNCHANGED Contract!vars
  <2>1. row' = row /\ position' = position
    BY <1>3 DEF Settles, outbox
  <2>2. \A o \in Operations : (journal'[o] = "Accepted") = (journal[o] = "Accepted")
    BY <1>3 DEF Settles, IInv, TypeOK
  <2> QED
    BY <2>1, <2>2 DEF Contract!vars
<1>4. CASE UNCHANGED <<position, journal>>
  BY <1>4, ClosesSome
<1>5. ASSUME NEW c \in calls, Perform(c) PROVE [Contract!Next]_(Contract!vars)
  <2>1. UNCHANGED outbox /\ (UNCHANGED downstream => UNCHANGED <<position, journal>>)
    BY <1>5 DEF Perform, outbox, downstream
  <2>2. c.op \in Operations
    BY DEF IInv, TypeOK, Call
  <2> QED
    BY <1>2, <1>3, <1>4, <1>5, <2>1, <2>2, PerformSettles DEF Contract!Next
<1>6. \/ UNCHANGED <<position, journal>>
      \/ \E o \in Operations : Commit(o)
      \/ \E c \in calls : Perform(c)
  BY DEF Next, RaiseRecoveryEpoch, Claim, Heartbeat, DeliverAgain,
     BeginDelivery, CheckSuperseded, FinishSuperseded, MarkSendStarted, LoseClaim, Replay, Decline,
     LoseAnswer, FinishDelivery, StartReconcile, InspectDownstream, FinishReconcile, Crash,
     ExpireLease, RetryDue, PassDeadline, vars, outbox, downstream
<1> QED
  BY <1>1, <1>4, <1>5, <1>6 DEF Contract!Next

\* The ledger and the component honour the contract of the outbox: an effect at
\* most once and never after a newer one of its scope, a verdict that is true
\* and final.
THEOREM ContractIsHonoured == ASSUME Copies = {1} PROVE Spec => HonoursContract
<1>1. IInv /\ [Next]_vars => [Contract!Next]_(Contract!vars)
  BY StepsKeepIInv, StepsKeepContract
<1> QED
  BY <1>1, ContractStarts, OutboxInvariantHolds, PTL DEF Spec, HonoursContract, Contract!Spec
=============================================================================
