--------------------------- MODULE AdmissionProofs ---------------------------
(***************************************************************************)
(* Admission's invariants for every value of its constants.  IInv is       *)
(* inductive.  The first half says what each operation does to the tables, *)
(* row by row, and that it keeps every row a row; the second takes each    *)
(* conjunct of IInv through each operation from those facts, and not from  *)
(* the definitions of the operations.  The last part shows that each step  *)
(* is one of CapacityLedger or a stutter.                                  *)
(***************************************************************************)
EXTENDS Admission, TLAPS, FiniteSetTheorems

(***************************************************************************)
(* What each operation does to the rows.                                   *)
(***************************************************************************)
ItemRecord == [state : ItemStates, current : 0..MaxGeneration,
               last : 0..MaxGeneration]
GrantRecord == [state : GrantStates, expires : Nat, revision : Nat, fence : Nat,
                leaseBy : Nat, terminal : Nat]
RunRecord == [phase : Phases, generation : 0..MaxGeneration, revision : Nat,
              fence : Nat]
EvidenceRecord == [kind : {"Fenced", "NoLease", "Release"}, grant : Grants,
                   exact : BOOLEAN, revision : Nat, fence : Nat]

\* A grant is a pair of an item and a generation.
LEMMA GrantPairs ==
    /\ \A i \in Items, n \in Generations :
          <<i, n>> \in Grants /\ <<i, n>>[1] = i /\ <<i, n>>[2] = n
    /\ \A g \in Grants : g[1] \in Items /\ g[2] \in Generations /\ g = <<g[1], g[2]>>
  BY DEF Grants

\* The record fields the operations write keep a row a row.
LEMMA GrantRows ==
    ASSUME NEW r \in GrantRecord, NEW s \in GrantStates, NEW x \in Nat, NEW y \in Nat,
           NEW z \in Nat
    PROVE  /\ [r EXCEPT !.state = s] \in GrantRecord
           /\ [r EXCEPT !.state = s, !.expires = x] \in GrantRecord
           /\ [r EXCEPT !.state = s, !.terminal = x] \in GrantRecord
           /\ [r EXCEPT !.state = s, !.revision = x, !.fence = y, !.leaseBy = z] \in GrantRecord
  BY DEF GrantRecord

\* A run that ends is still a run.
LEMMA RunRows ==
    ASSUME NEW r \in RunRecord, NEW p \in Phases, NEW x \in Nat, NEW y \in Nat
    PROVE  /\ [r EXCEPT !.phase = p, !.revision = x, !.fence = y] \in RunRecord
           /\ [r EXCEPT !.phase = p, !.revision = x] \in RunRecord
           /\ [r EXCEPT !.phase = p] \in RunRecord
           /\ [r EXCEPT !.revision = x] \in RunRecord
  BY DEF RunRecord

LEMMA TypeInit == Init => TypeOK
  BY SchedulerConstants, AdmissionConstants
     DEF Init, SchedulerInit, TypeOK, SchedulerTypeOK, AbsentItem, AbsentGrant,
         NoClaim, CreatedRun, Grants, Generations, ItemStates, CancelStates,
         GrantStates, ReservationStates, Phases

\* What TypeOK says of each variable, by the names above.
LEMMA Typed ==
    TypeOK => /\ clock \in Nat
              /\ item \in [Items -> ItemRecord]
              /\ cancel \in [Items -> CancelStates]
              /\ grant \in [Grants -> GrantRecord]
              /\ logical \in [Grants -> ReservationStates]
              /\ node \in [Grants -> ReservationStates]
              /\ physical \in [Grants -> {"None", "Held", "Released"}]
              /\ turn \in Nat
              /\ claim \in [item : Items \cup {0}, now : Nat]
              /\ run \in [Items -> RunRecord]
              /\ evidence \subseteq EvidenceRecord
              /\ nodeReady \in BOOLEAN
              /\ faults \in 0..MaxFaults
              /\ offered \subseteq Items
  BY DEF TypeOK, SchedulerTypeOK, ItemRecord, GrantRecord, RunRecord, EvidenceRecord

\* The run an end leaves behind and the evidence it commits.
LEMMA Ending ==
    ASSUME TypeOK, RunGenerations, NEW i \in Items, NEW exact \in BOOLEAN,
           run[i].phase # "Created"
    PROVE  /\ RunGrant(i) \in Grants
           /\ TerminalEvidence(i, exact) \subseteq EvidenceRecord
           /\ Evidence("Release", RunGrant(i), exact, run[i].revision, run[i].fence)
                \in EvidenceRecord
           /\ Finished(i) \in RunRecord
           /\ Finished(i).generation = run[i].generation
           /\ Finished(i).phase = IF run[i].phase = "Leased" THEN "Fenced" ELSE "Ended"
  <1> DEFINE p == IF run[i].phase = "Leased" THEN "Fenced" ELSE "Ended"
             x == run[i].revision + 1
             y == run[i].fence + 1
  <1>1. run[i] \in RunRecord
    BY Typed
  <1>2. run[i].generation \in Generations
    BY <1>1, SchedulerConstants DEF RunRecord, RunGenerations, Generations
  <1>3. RunGrant(i) \in Grants
    BY <1>2, GrantPairs DEF RunGrant
  <1>4. TerminalEvidence(i, exact) \subseteq EvidenceRecord
    BY <1>1, <1>3 DEF TerminalEvidence, Evidence, EvidenceRecord, RunRecord
  <1>5. Evidence("Release", RunGrant(i), exact, run[i].revision, run[i].fence)
          \in EvidenceRecord
    BY <1>1, <1>3 DEF Evidence, EvidenceRecord, RunRecord
  <1>6. Finished(i) = [run[i] EXCEPT !.phase = p, !.revision = x, !.fence = y]
    BY DEF Finished
  <1>7. p \in Phases /\ x \in Nat /\ y \in Nat
    BY <1>1 DEF Phases, RunRecord
  <1>8. /\ Finished(i).generation = run[i].generation
        /\ Finished(i).phase = p
    BY <1>1, <1>6 DEF RunRecord
  <1> HIDE DEF p, x, y
  <1>9. [run[i] EXCEPT !.phase = p, !.revision = x, !.fence = y] \in RunRecord
    BY <1>1, <1>7, RunRows
  <1>10. Finished(i) \in RunRecord
    BY <1>6, <1>9
  <1> QED BY <1>3, <1>4, <1>5, <1>8, <1>10 DEF p

-----------------------------------------------------------------------------
(* The tables after each operation, row by row. *)

LEMMA StartShape ==
    ASSUME TypeOK, NEW i \in Items, NEW n \in Generations, NEW t \in RecentTimes,
           StartRun(i, n, t), NEW g \in Grants, g = <<i, n>>
    PROVE  /\ run[i].phase = "Created" /\ claim.item # i
           /\ item[i].state = "Delivering" /\ item[i].current = n
           /\ grant[g].state = "ReservedUnbound"
           /\ item' \in [Items -> ItemRecord]
           /\ item'[i].state = "Accepted"
           /\ item'[i].current = item[i].current /\ item'[i].last = item[i].last
           /\ \A j \in Items \ {i} : item'[j] = item[j]
           /\ grant' \in [Grants -> GrantRecord]
           /\ grant'[g].state = "Bound" /\ grant'[g].revision = 2 /\ grant'[g].fence = 2
           /\ \A h \in Grants \ {g} : grant'[h] = grant[h]
           /\ logical' = [logical EXCEPT ![g] = IF @ = "ReservedUnbound" THEN "Bound" ELSE @]
           /\ node' = [node EXCEPT ![g] = IF @ = "ReservedUnbound" THEN "Bound" ELSE @]
           /\ run' \in [Items -> RunRecord]
           /\ run'[i].phase = "Waiting" /\ run'[i].generation = n
           /\ \A j \in Items \ {i} : run'[j] = run[j]
           /\ UNCHANGED <<clock, cancel, physical, turn, claim, evidence, nodeReady,
                          faults, offered>>
  <1> DEFINE x == Earlier(grant[g].expires, Deadline[i])
             r == [grant[g] EXCEPT !.state = "Bound", !.revision = 2, !.fence = 2, !.leaseBy = x]
             s == [phase |-> "Waiting", generation |-> n, revision |-> 2, fence |-> 2]
  <1>1. /\ run[i].phase = "Created" /\ claim.item # i
        /\ item[i].state = "Delivering" /\ item[i].current = n
        /\ grant[g].state = "ReservedUnbound"
        /\ item' = [item EXCEPT ![i] = [@ EXCEPT !.state = "Accepted"]]
        /\ grant' = [grant EXCEPT ![g] = r]
        /\ logical' = [logical EXCEPT ![g] = IF @ = "ReservedUnbound" THEN "Bound" ELSE @]
        /\ node' = [node EXCEPT ![g] = IF @ = "ReservedUnbound" THEN "Bound" ELSE @]
        /\ run' = [run EXCEPT ![i] = s]
        /\ UNCHANGED <<clock, cancel, physical, turn, claim, evidence, nodeReady,
                       faults, offered>>
    BY DEF StartRun, AcceptRuntimeStart
  <1>2. /\ item \in [Items -> ItemRecord] /\ grant \in [Grants -> GrantRecord]
        /\ run \in [Items -> RunRecord]
    BY Typed
  <1>3. x \in Nat
    BY <1>2, SchedulerConstants DEF GrantRecord, Earlier
  <1>4. s \in RunRecord
    BY SchedulerConstants DEF RunRecord, Phases, Generations
  <1>5. /\ [item[i] EXCEPT !.state = "Accepted"] \in ItemRecord
        /\ item'[i].state = "Accepted"
        /\ item'[i].current = item[i].current /\ item'[i].last = item[i].last
    BY <1>1, <1>2 DEF ItemRecord, ItemStates
  <1>6. /\ r.state = "Bound" /\ r.revision = 2 /\ r.fence = 2
    BY <1>2 DEF GrantRecord
  <1>7. s.phase = "Waiting" /\ s.generation = n
    OBVIOUS
  <1> HIDE DEF x
  <1>8. r \in GrantRecord
    BY <1>2, <1>3, GrantRows DEF GrantStates
  <1> HIDE DEF r, s
  <1>9. item' \in [Items -> ItemRecord] /\ \A j \in Items \ {i} : item'[j] = item[j]
    BY <1>1, <1>2, <1>5
  <1>10. /\ grant' \in [Grants -> GrantRecord] /\ grant'[g] = r
         /\ \A h \in Grants \ {g} : grant'[h] = grant[h]
    BY <1>1, <1>2, <1>8
  <1>11. /\ run' \in [Items -> RunRecord] /\ run'[i] = s
         /\ \A j \in Items \ {i} : run'[j] = run[j]
    BY <1>1, <1>2, <1>4
  <1> QED BY <1>1, <1>5, <1>6, <1>7, <1>9, <1>10, <1>11

LEMMA CommitShape ==
    ASSUME TypeOK, RunGenerations, NEW i \in Items, NEW t \in RecentTimes,
           CommitLease(i, t), NEW g, g = RunGrant(i)
    PROVE  /\ g \in Grants
           /\ run[i].phase = "Waiting"
           /\ grant[g].state = "Bound" /\ node[g] = "Bound"
           /\ grant' \in [Grants -> GrantRecord]
           /\ grant'[g].state = "LeaseAttached"
           /\ grant'[g].revision = grant[g].revision
           /\ grant'[g].fence = grant[g].fence
           /\ \A h \in Grants \ {g} : grant'[h] = grant[h]
           /\ node' = [node EXCEPT ![g] = "LeaseAttached"]
           /\ physical' = [physical EXCEPT ![g] = "Held"]
           /\ run' \in [Items -> RunRecord]
           /\ run'[i].phase = "Leased" /\ run'[i].generation = run[i].generation
           /\ \A j \in Items \ {i} : run'[j] = run[j]
           /\ nodeReady' \in BOOLEAN
           /\ UNCHANGED <<clock, item, cancel, logical, turn, claim, evidence, faults,
                          offered>>
  <1> DEFINE r == [grant[g] EXCEPT !.state = "LeaseAttached"]
             x == run[i].revision + 1
             s == [run[i] EXCEPT !.phase = "Leased", !.revision = x]
  <1>1. /\ run[i].phase = "Waiting"
        /\ grant[g].state = "Bound" /\ node[g] = "Bound"
        /\ grant' = [grant EXCEPT ![g] = r]
        /\ node' = [node EXCEPT ![g] = "LeaseAttached"]
        /\ physical' = [physical EXCEPT ![g] = "Held"]
        /\ nodeReady' \in BOOLEAN
        /\ UNCHANGED <<clock, item, cancel, logical, turn, claim, evidence, faults, offered>>
    BY DEF CommitLease, AttachRuntimeLease
  <1>2. grant \in [Grants -> GrantRecord] /\ run \in [Items -> RunRecord]
    BY Typed
  <1>3. run' = [run EXCEPT ![i] = s]
    BY <1>2 DEF CommitLease, RunRecord
  <1>4. g \in Grants
    BY <1>1, Ending
  <1>5. x \in Nat
    BY <1>2 DEF RunRecord
  <1>6. /\ r.state = "LeaseAttached" /\ r.revision = grant[g].revision
        /\ r.fence = grant[g].fence
    BY <1>2, <1>4 DEF GrantRecord
  <1>7. s.phase = "Leased" /\ s.generation = run[i].generation
    BY <1>2 DEF RunRecord
  <1> HIDE DEF x
  <1>8. r \in GrantRecord
    BY <1>2, <1>4, GrantRows DEF GrantStates
  <1>9. s \in RunRecord
    BY <1>2, <1>5, RunRows DEF Phases
  <1> HIDE DEF r, s
  <1>10. /\ grant' \in [Grants -> GrantRecord] /\ grant'[g] = r
         /\ \A h \in Grants \ {g} : grant'[h] = grant[h]
    BY <1>1, <1>2, <1>4, <1>8
  <1>11. /\ run' \in [Items -> RunRecord] /\ run'[i] = s
         /\ \A j \in Items \ {i} : run'[j] = run[j]
    BY <1>2, <1>3, <1>9
  <1> QED BY <1>1, <1>4, <1>6, <1>7, <1>10, <1>11

\* Applying terminal evidence e rewrites the grant's row only where it says.
LEMMA FencedShape ==
    ASSUME TypeOK, NEW e \in evidence, ApplyFenced(e), NEW g, g = e.grant
    PROVE  /\ g \in Grants /\ e.kind = "Fenced"
           /\ grant[g].state \in {"Bound", "LeaseAttached", "TerminalNoLease", "Released"}
           /\ grant[g].revision > 0 /\ e.revision > grant[g].revision
           /\ grant[g].terminal \in {0, e.revision}
           /\ grant' \in [Grants -> GrantRecord]
           /\ grant'[g].state = IF /\ node[g] = "Released"
                                   /\ grant[g].state \in {"Bound", "TerminalNoLease"}
                                THEN "Released" ELSE grant[g].state
           /\ grant'[g].revision = grant[g].revision
           /\ grant'[g].fence = grant[g].fence
           /\ grant'[g].terminal = e.revision
           /\ \A h \in Grants \ {g} : grant'[h] = grant[h]
           /\ logical' = [logical EXCEPT ![g] = IF @ = "Bound" THEN "Released" ELSE @]
           /\ UNCHANGED <<clock, item, cancel, node, physical, turn, claim, run, evidence,
                          nodeReady, faults, offered>>
  <1> DEFINE u == IF node[g] = "Released" /\ grant[g].state \in {"Bound", "TerminalNoLease"}
                  THEN "Released" ELSE grant[g].state
             r == [grant[g] EXCEPT !.state = u, !.terminal = e.revision]
  <1>1. /\ e.kind = "Fenced"
        /\ grant[g].state \in {"Bound", "LeaseAttached", "TerminalNoLease", "Released"}
        /\ grant[g].revision > 0 /\ e.revision > grant[g].revision
        /\ grant[g].terminal \in {0, e.revision}
        /\ logical' = [logical EXCEPT ![g] = IF @ = "Bound" THEN "Released" ELSE @]
        /\ UNCHANGED <<clock, item, cancel, node, physical, turn, claim, run, evidence,
                       nodeReady, faults, offered>>
    BY DEF ApplyFenced, ApplyRuntimeFencedOrTerminal, TerminalEvidenceMatches, contractVars
  <1>2. grant \in [Grants -> GrantRecord] /\ evidence \subseteq EvidenceRecord
    BY Typed
  <1>3. g \in Grants /\ e.revision \in Nat
    BY <1>2 DEF EvidenceRecord
  <1>4. grant' = [grant EXCEPT ![g] = r]
    BY DEF ApplyFenced, ApplyRuntimeFencedOrTerminal
  <1>5. u \in GrantStates
    BY <1>2, <1>3 DEF GrantRecord, GrantStates
  <1>6. /\ r.state = u /\ r.revision = grant[g].revision /\ r.fence = grant[g].fence
        /\ r.terminal = e.revision
    BY <1>2, <1>3 DEF GrantRecord
  <1> HIDE DEF u
  <1>7. r \in GrantRecord
    BY <1>2, <1>3, <1>5, GrantRows
  <1> HIDE DEF r
  <1>8. /\ grant' \in [Grants -> GrantRecord] /\ grant'[g] = r
        /\ \A h \in Grants \ {g} : grant'[h] = grant[h]
    BY <1>2, <1>3, <1>4, <1>7
  <1> QED BY <1>1, <1>3, <1>6, <1>8 DEF u

LEMMA NoLeaseShape ==
    ASSUME TypeOK, NEW e \in evidence, ApplyNoLease(e), NEW g, g = e.grant
    PROVE  /\ g \in Grants /\ e.kind = "NoLease"
           /\ grant[g].state \in {"Bound", "TerminalNoLease", "Released"}
           /\ node[g] \in {"Bound", "Released"}
           /\ grant[g].revision > 0 /\ e.revision > grant[g].revision
           /\ grant[g].terminal \in {0, e.revision}
           /\ grant' \in [Grants -> GrantRecord]
           /\ grant'[g].state = IF logical[g] = "Released" THEN "Released" ELSE "TerminalNoLease"
           /\ grant'[g].revision = grant[g].revision
           /\ grant'[g].fence = grant[g].fence
           /\ grant'[g].terminal = e.revision
           /\ \A h \in Grants \ {g} : grant'[h] = grant[h]
           /\ node' = [node EXCEPT ![g] = "Released"]
           /\ UNCHANGED <<clock, item, cancel, logical, physical, turn, claim, run, evidence,
                          nodeReady, faults, offered>>
  <1> DEFINE u == IF logical[g] = "Released" THEN "Released" ELSE "TerminalNoLease"
             r == [grant[g] EXCEPT !.state = u, !.terminal = e.revision]
  <1>1. /\ e.kind = "NoLease"
        /\ grant[g].state \in {"Bound", "TerminalNoLease", "Released"}
        /\ node[g] \in {"Bound", "Released"}
        /\ grant[g].revision > 0 /\ e.revision > grant[g].revision
        /\ grant[g].terminal \in {0, e.revision}
        /\ grant' = [grant EXCEPT ![g] = r]
        /\ node' = [node EXCEPT ![g] = "Released"]
        /\ UNCHANGED <<clock, item, cancel, logical, physical, turn, claim, run, evidence,
                       nodeReady, faults, offered>>
    BY DEF ApplyNoLease, ApplyNoLeasePhysicalDisposition, TerminalEvidenceMatches, contractVars
  <1>2. grant \in [Grants -> GrantRecord] /\ evidence \subseteq EvidenceRecord
    BY Typed
  <1>3. g \in Grants /\ e.revision \in Nat
    BY <1>2 DEF EvidenceRecord
  <1>4. u \in GrantStates
    BY DEF GrantStates
  <1>5. /\ r.state = u /\ r.revision = grant[g].revision /\ r.fence = grant[g].fence
        /\ r.terminal = e.revision
    BY <1>2, <1>3 DEF GrantRecord
  <1> HIDE DEF u
  <1>6. r \in GrantRecord
    BY <1>2, <1>3, <1>4, GrantRows
  <1> HIDE DEF r
  <1>7. /\ grant' \in [Grants -> GrantRecord] /\ grant'[g] = r
        /\ \A h \in Grants \ {g} : grant'[h] = grant[h]
    BY <1>1, <1>2, <1>3, <1>6
  <1> QED BY <1>1, <1>3, <1>5, <1>7 DEF u

LEMMA ReleaseShape ==
    ASSUME TypeOK, NEW e \in evidence, ApplyRelease(e), NEW g, g = e.grant
    PROVE  /\ g \in Grants /\ e.kind = "Release"
           /\ grant[g].state = "LeaseAttached" /\ node[g] = "LeaseAttached"
           /\ physical[g] = "Held"
           /\ grant' \in [Grants -> GrantRecord]
           /\ grant'[g].state = IF logical[g] = "Released" THEN "Released" ELSE "LeaseAttached"
           /\ grant'[g].revision = grant[g].revision
           /\ grant'[g].fence = grant[g].fence
           /\ grant'[g].terminal = grant[g].terminal
           /\ \A h \in Grants \ {g} : grant'[h] = grant[h]
           /\ node' = [node EXCEPT ![g] = "Released"]
           /\ physical' = [physical EXCEPT ![g] = "Released"]
           /\ UNCHANGED <<clock, item, cancel, logical, turn, claim, run, evidence,
                          nodeReady, faults, offered>>
  <1> DEFINE u == IF logical[g] = "Released" THEN "Released" ELSE "LeaseAttached"
             r == [grant[g] EXCEPT !.state = u]
  <1>1. /\ e.kind = "Release"
        /\ grant[g].state = "LeaseAttached" /\ node[g] = "LeaseAttached"
        /\ physical[g] = "Held"
        /\ grant' = [grant EXCEPT ![g] = r]
        /\ node' = [node EXCEPT ![g] = "Released"]
        /\ physical' = [physical EXCEPT ![g] = "Released"]
        /\ UNCHANGED <<clock, item, cancel, logical, turn, claim, run, evidence,
                       nodeReady, faults, offered>>
    BY DEF ApplyRelease, ApplyPhysicalCapacityReleaseReady, contractVars
  <1>2. grant \in [Grants -> GrantRecord] /\ evidence \subseteq EvidenceRecord
    BY Typed
  <1>3. g \in Grants
    BY <1>2 DEF EvidenceRecord
  <1>4. u \in GrantStates
    BY DEF GrantStates
  <1>5. /\ r.state = u /\ r.revision = grant[g].revision /\ r.fence = grant[g].fence
        /\ r.terminal = grant[g].terminal
    BY <1>2, <1>3 DEF GrantRecord
  <1> HIDE DEF u
  <1>6. r \in GrantRecord
    BY <1>2, <1>3, <1>4, GrantRows
  <1> HIDE DEF r
  <1>7. /\ grant' \in [Grants -> GrantRecord] /\ grant'[g] = r
        /\ \A h \in Grants \ {g} : grant'[h] = grant[h]
    BY <1>1, <1>2, <1>3, <1>6
  <1> QED BY <1>1, <1>3, <1>5, <1>7 DEF u

LEMMA EndShape ==
    ASSUME TypeOK, RunGenerations, NEW i \in Items, NEW exact \in Exactness,
           FinishRun(i, exact) \/ ExecuteCancel(i, exact), NEW g, g = RunGrant(i)
    PROVE  /\ g \in Grants /\ run[i].phase \in Live
           /\ run' \in [Items -> RunRecord]
           /\ run'[i].generation = run[i].generation
           /\ run'[i].phase = IF run[i].phase = "Leased" THEN "Fenced" ELSE "Ended"
           /\ \A j \in Items \ {i} : run'[j] = run[j]
           /\ evidence \subseteq evidence' /\ evidence' \subseteq EvidenceRecord
           /\ \A e \in evidence' \ evidence :
                 /\ e.grant = g
                 /\ e.kind = "Fenced" \/ (e.kind = "NoLease" /\ run[i].phase # "Leased")
           /\ cancel' \in [Items -> CancelStates]
           /\ UNCHANGED <<clock, item, grant, logical, node, physical, turn, claim,
                          nodeReady, faults, offered>>
  <1>1. /\ run[i].phase \in Live
        /\ run' = [run EXCEPT ![i] = Finished(i)]
        /\ evidence' = evidence \cup TerminalEvidence(i, exact)
        /\ UNCHANGED <<clock, item, grant, logical, node, physical, turn, claim,
                       nodeReady, faults, offered>>
    BY DEF FinishRun, ExecuteCancel, schedulerVars, tables
  <1>2. /\ run \in [Items -> RunRecord] /\ cancel \in [Items -> CancelStates]
        /\ evidence \subseteq EvidenceRecord
    BY Typed
  <1>3. exact \in BOOLEAN /\ run[i].phase # "Created"
    BY <1>1, AdmissionConstants DEF Live
  <1>4. /\ g \in Grants
        /\ TerminalEvidence(i, exact) \subseteq EvidenceRecord
        /\ Finished(i) \in RunRecord
        /\ Finished(i).generation = run[i].generation
        /\ Finished(i).phase = IF run[i].phase = "Leased" THEN "Fenced" ELSE "Ended"
    BY <1>3, Ending
  <1>5. \A e \in TerminalEvidence(i, exact) :
           /\ e.grant = g
           /\ e.kind = "Fenced" \/ (e.kind = "NoLease" /\ run[i].phase # "Leased")
    <2> SUFFICES ASSUME NEW e \in TerminalEvidence(i, exact)
                 PROVE  /\ e.grant = g
                        /\ e.kind = "Fenced" \/ (e.kind = "NoLease" /\ run[i].phase # "Leased")
      OBVIOUS
    <2>1. PICK kind \in {"Fenced", "NoLease"} :
             /\ e = Evidence(kind, RunGrant(i), exact, run[i].revision + 1, run[i].fence + 1)
             /\ kind = "Fenced" \/ run[i].phase # "Leased"
      BY DEF TerminalEvidence
    <2>2. e.grant = g /\ e.kind = kind
      BY <2>1 DEF Evidence
    <2> QED BY <2>1, <2>2
  <1>6. cancel' \in [Items -> CancelStates]
    BY <1>2 DEF FinishRun, ExecuteCancel, AcceptRuntimeCancel, schedulerVars, tables,
                CancelStates
  <1>7. /\ run' \in [Items -> RunRecord] /\ run'[i] = Finished(i)
        /\ \A j \in Items \ {i} : run'[j] = run[j]
    BY <1>1, <1>2, <1>4
  <1> QED BY <1>1, <1>2, <1>4, <1>5, <1>6, <1>7

LEMMA ResetShape ==
    ASSUME TypeOK, RunGenerations, NEW i \in Items, NEW exact \in Exactness,
           ResetSandbox(i, exact), NEW g, g = RunGrant(i)
    PROVE  /\ g \in Grants /\ run[i].phase = "Fenced"
           /\ run' \in [Items -> RunRecord]
           /\ run'[i].generation = run[i].generation /\ run'[i].phase = "Reset"
           /\ \A j \in Items \ {i} : run'[j] = run[j]
           /\ evidence \subseteq evidence' /\ evidence' \subseteq EvidenceRecord
           /\ \A e \in evidence' \ evidence : e.grant = g /\ e.kind = "Release"
           /\ UNCHANGED <<clock, item, cancel, grant, logical, node, physical, turn, claim,
                          nodeReady, faults, offered>>
  <1> DEFINE v == Evidence("Release", RunGrant(i), exact, run[i].revision, run[i].fence)
             s == [run[i] EXCEPT !.phase = "Reset"]
  <1>1. /\ run[i].phase = "Fenced"
        /\ run' = [run EXCEPT ![i] = s]
        /\ evidence' = evidence \cup {v}
        /\ UNCHANGED <<clock, item, cancel, grant, logical, node, physical, turn, claim,
                       nodeReady, faults, offered>>
    BY DEF ResetSandbox, schedulerVars, tables
  <1>2. run \in [Items -> RunRecord] /\ evidence \subseteq EvidenceRecord
    BY Typed
  <1>3. exact \in BOOLEAN
    BY AdmissionConstants
  <1>4. g \in Grants /\ v \in EvidenceRecord
    BY <1>1, <1>3, Ending
  <1>5. v.grant = g /\ v.kind = "Release"
    BY DEF Evidence
  <1>6. s.generation = run[i].generation /\ s.phase = "Reset"
    BY <1>2 DEF RunRecord
  <1>7. s \in RunRecord
    BY <1>2, RunRows DEF Phases
  <1> HIDE DEF v, s
  <1>8. /\ run' \in [Items -> RunRecord] /\ run'[i] = s
        /\ \A j \in Items \ {i} : run'[j] = run[j]
    BY <1>1, <1>2, <1>7
  <1> QED BY <1>1, <1>2, <1>4, <1>5, <1>6, <1>8

NextGrant(i) == <<i, item[i].last + 1>>
Delivered(i) == [state |-> "Delivering", current |-> item[i].last + 1,
                 last |-> item[i].last + 1]
SameBinding(h) == /\ grant'[h].revision = grant[h].revision
                  /\ grant'[h].fence = grant[h].fence
                  /\ grant'[h].terminal = grant[h].terminal

\* A committed claim: a first grant, or one in the stead of the expired grant.
LEMMA AdmitShape ==
    ASSUME TypeOK, NEW i \in Items, Admit(i)
    PROVE  /\ NextGrant(i) \in Grants
           /\ claim.item = i /\ item[i].current = 0 /\ RoomFor(i)
           /\ item' \in [Items -> ItemRecord]
           /\ item'[i] = Delivered(i)
           /\ \A j \in Items \ {i} : item'[j] = item[j]
           /\ grant' \in [Grants -> GrantRecord]
           /\ grant'[NextGrant(i)].state = "ReservedUnbound"
           /\ SameBinding(NextGrant(i))
           /\ \A h \in Grants \ {NextGrant(i)} : grant'[h] = grant[h]
           /\ logical' = [logical EXCEPT ![NextGrant(i)] = "ReservedUnbound"]
           /\ node' = [node EXCEPT ![NextGrant(i)] = "ReservedUnbound"]
           /\ turn' \in Nat /\ claim' = NoClaim
           /\ UNCHANGED <<clock, cancel, physical, contractVars>>
  <1> DEFINE n == item[i].last + 1
             g == NextGrant(i)
             x == Earlier(claim.now + GrantTTL, Deadline[i])
             r == [grant[g] EXCEPT !.state = "ReservedUnbound", !.expires = x]
             s == Delivered(i)
  <1>1. /\ claim.item = i /\ item[i].current = 0 /\ RoomFor(i)
        /\ item[i].last < MaxGeneration
        /\ item' = [item EXCEPT ![i] = s]
        /\ grant' = [grant EXCEPT ![g] = r]
        /\ logical' = [logical EXCEPT ![g] = "ReservedUnbound"]
        /\ node' = [node EXCEPT ![g] = "ReservedUnbound"]
        /\ turn' = Home[i] /\ claim' = NoClaim
        /\ UNCHANGED <<clock, cancel, physical, contractVars>>
    BY DEF Admit, ClaimAdmit, Reserve, NextGrant, Delivered
  <1>2. /\ item \in [Items -> ItemRecord] /\ grant \in [Grants -> GrantRecord]
        /\ claim \in [item : Items \cup {0}, now : Nat]
    BY Typed
  <1>3. n \in Generations /\ n \in 0..MaxGeneration
    BY <1>1, <1>2, SchedulerConstants DEF ItemRecord, Generations
  <1>4. g \in Grants
    BY <1>3, GrantPairs DEF NextGrant
  <1>5. x \in Nat /\ turn' \in Nat
    BY <1>1, <1>2, SchedulerConstants DEF Earlier
  <1>6. s \in ItemRecord
    BY <1>3 DEF ItemRecord, ItemStates, Delivered
  <1>7. /\ r.state = "ReservedUnbound" /\ r.revision = grant[g].revision
        /\ r.fence = grant[g].fence /\ r.terminal = grant[g].terminal
    BY <1>2, <1>4 DEF GrantRecord
  <1> HIDE DEF x
  <1>8. r \in GrantRecord
    BY <1>2, <1>4, <1>5, GrantRows DEF GrantStates
  <1> HIDE DEF r
  <1>9. /\ grant' \in [Grants -> GrantRecord] /\ grant'[g] = r
        /\ \A h \in Grants \ {g} : grant'[h] = grant[h]
    BY <1>1, <1>2, <1>4, <1>8
  <1>10. /\ item' \in [Items -> ItemRecord] /\ item'[i] = s
         /\ \A j \in Items \ {i} : item'[j] = item[j]
    BY <1>1, <1>2, <1>6
  <1> QED BY <1>1, <1>4, <1>5, <1>7, <1>9, <1>10 DEF SameBinding

LEMMA ReadmitShape ==
    ASSUME TypeOK, NEW i \in Items, Readmit(i),
           CurrentGrant(i) \in Grants, item[i].current <= item[i].last
    PROVE  /\ NextGrant(i) \in Grants /\ CurrentGrant(i) # NextGrant(i)
           /\ claim.item = i /\ item[i].current > 0
           /\ RoomWithout(i, CurrentGrant(i))
           /\ grant[CurrentGrant(i)].state = "ReservedUnbound"
           /\ item' \in [Items -> ItemRecord]
           /\ item'[i] = Delivered(i)
           /\ \A j \in Items \ {i} : item'[j] = item[j]
           /\ grant' \in [Grants -> GrantRecord]
           /\ grant'[NextGrant(i)].state = "ReservedUnbound"
           /\ grant'[CurrentGrant(i)].state = "ExpiredUnbound"
           /\ SameBinding(NextGrant(i)) /\ SameBinding(CurrentGrant(i))
           /\ \A h \in Grants \ {NextGrant(i), CurrentGrant(i)} : grant'[h] = grant[h]
           /\ logical' = [Expired(logical, CurrentGrant(i)) EXCEPT
                             ![NextGrant(i)] = "ReservedUnbound"]
           /\ node' = [Expired(node, CurrentGrant(i)) EXCEPT
                          ![NextGrant(i)] = "ReservedUnbound"]
           /\ turn' \in Nat /\ claim' = NoClaim
           /\ UNCHANGED <<clock, cancel, physical, contractVars>>
  <1> DEFINE n == item[i].last + 1
             g == NextGrant(i)
             o == CurrentGrant(i)
             x == Earlier(claim.now + GrantTTL, Deadline[i])
             q == [grant[o] EXCEPT !.state = "ExpiredUnbound"]
             r == [grant[g] EXCEPT !.state = "ReservedUnbound", !.expires = x]
             s == Delivered(i)
  <1>1. /\ claim.item = i /\ item[i].current > 0 /\ RoomWithout(i, o)
        /\ grant[o].state = "ReservedUnbound"
        /\ item[i].last < MaxGeneration
        /\ item' = [item EXCEPT ![i] = s]
        /\ grant' = [[grant EXCEPT ![o] = q] EXCEPT
                        ![g] = [@ EXCEPT !.state = "ReservedUnbound", !.expires = x]]
        /\ logical' = [Expired(logical, o) EXCEPT ![g] = "ReservedUnbound"]
        /\ node' = [Expired(node, o) EXCEPT ![g] = "ReservedUnbound"]
        /\ turn' = Home[i] /\ claim' = NoClaim
        /\ UNCHANGED <<clock, cancel, physical, contractVars>>
    BY DEF Readmit, ClaimReadmit, Reserve, NextGrant, Delivered
  <1>2. /\ item \in [Items -> ItemRecord] /\ grant \in [Grants -> GrantRecord]
        /\ claim \in [item : Items \cup {0}, now : Nat]
    BY Typed
  <1>3. n \in Generations /\ n \in 0..MaxGeneration
    BY <1>1, <1>2, SchedulerConstants DEF ItemRecord, Generations
  <1>4. g \in Grants
    BY <1>3, GrantPairs DEF NextGrant
  <1>5. x \in Nat /\ turn' \in Nat
    BY <1>1, <1>2, SchedulerConstants DEF Earlier
  <1>6. s \in ItemRecord
    BY <1>3 DEF ItemRecord, ItemStates, Delivered
  <1>7. o # g
    BY <1>2, <1>3 DEF CurrentGrant, NextGrant, Generations, ItemRecord
  <1>8. /\ r.state = "ReservedUnbound" /\ q.state = "ExpiredUnbound"
        /\ r.revision = grant[g].revision /\ q.revision = grant[o].revision
        /\ r.fence = grant[g].fence /\ q.fence = grant[o].fence
        /\ r.terminal = grant[g].terminal /\ q.terminal = grant[o].terminal
    BY <1>2, <1>4 DEF GrantRecord
  <1> HIDE DEF x
  <1>9. r \in GrantRecord /\ q \in GrantRecord
    BY <1>2, <1>4, <1>5, GrantRows DEF GrantStates
  <1>10. grant' = [[grant EXCEPT ![o] = q] EXCEPT ![g] = r]
    BY <1>1, <1>2, <1>4, <1>7
  <1> HIDE DEF r, q
  <1>11. /\ grant' \in [Grants -> GrantRecord] /\ grant'[g] = r /\ grant'[o] = q
         /\ \A h \in Grants \ {g, o} : grant'[h] = grant[h]
    BY <1>2, <1>4, <1>7, <1>9, <1>10
  <1>12. /\ item' \in [Items -> ItemRecord] /\ item'[i] = s
         /\ \A j \in Items \ {i} : item'[j] = item[j]
    BY <1>1, <1>2, <1>6
  <1> QED BY <1>1, <1>4, <1>5, <1>7, <1>8, <1>11, <1>12 DEF SameBinding

-----------------------------------------------------------------------------
(* Type correctness needs two facts of IInv: a run that is over was accepted  *)
(* with some generation, and a current grant is the last one.                 *)

LEMMA TypeSteps ==
    ASSUME TypeOK, RunGenerations, ItemGenerations, [Next]_vars
    PROVE  TypeOK'
<1> USE DEF TypeOK, SchedulerTypeOK
<1>1. ASSUME NEW i \in Items, EnqueueStart(i) PROVE TypeOK'
  BY <1>1 DEF EnqueueStart, Enqueue, contractVars, ItemStates
<1>2. ASSUME NEW i \in Items, EnqueueCancellation(i) PROVE TypeOK'
  BY <1>2 DEF EnqueueCancellation, EnqueueCancel, contractVars, CancelStates
<1>3. ASSUME NEW i \in Items, BeginClaim(i) PROVE TypeOK'
  BY <1>3 DEF BeginClaim, ClaimBegin, contractVars, tables
<1>4. ASSUME NEW i \in Items, Redeliver(i) PROVE TypeOK'
  BY <1>4 DEF Redeliver, ClaimRedeliver, contractVars, tables, NoClaim
<1>5. ASSUME NEW i \in Items, Admit(i) PROVE TypeOK'
  <2> DEFINE g == NextGrant(i)
  <2>1. /\ g \in Grants
        /\ item' \in [Items -> ItemRecord] /\ grant' \in [Grants -> GrantRecord]
        /\ logical' = [logical EXCEPT ![g] = "ReservedUnbound"]
        /\ node' = [node EXCEPT ![g] = "ReservedUnbound"]
        /\ turn' \in Nat /\ claim' = NoClaim
        /\ UNCHANGED <<clock, cancel, physical, contractVars>>
    BY <1>5, AdmitShape
  <2> HIDE DEF g
  <2> QED BY <2>1 DEF ItemRecord, GrantRecord, ReservationStates, NoClaim, contractVars
<1>6. ASSUME NEW i \in Items, Readmit(i) PROVE TypeOK'
  <2> DEFINE g == NextGrant(i)
             o == CurrentGrant(i)
  <2>1. item[i].current = item[i].last /\ item[i].current > 0 /\ item[i] \in ItemRecord
    BY <1>6, Typed DEF Readmit, ClaimReadmit, ItemGenerations, ItemStates, ItemRecord
  <2>2. item[i].current <= item[i].last /\ o \in Grants
    BY <2>1, GrantPairs, SchedulerConstants DEF ItemRecord, CurrentGrant, Generations
  <2> HIDE DEF TypeOK, SchedulerTypeOK
  <2>3. /\ g \in Grants
        /\ item' \in [Items -> ItemRecord] /\ grant' \in [Grants -> GrantRecord]
        /\ logical' = [Expired(logical, o) EXCEPT ![g] = "ReservedUnbound"]
        /\ node' = [Expired(node, o) EXCEPT ![g] = "ReservedUnbound"]
        /\ turn' \in Nat /\ claim' = NoClaim
        /\ UNCHANGED <<clock, cancel, physical, contractVars>>
    BY <1>6, <2>2, ReadmitShape
  <2> HIDE DEF g, o
  <2> USE DEF TypeOK, SchedulerTypeOK
  <2>4. /\ Expired(logical, o) \in [Grants -> ReservationStates]
        /\ Expired(node, o) \in [Grants -> ReservationStates]
    BY DEF Expired, ReservationStates
  <2> QED BY <2>3, <2>4 DEF ItemRecord, GrantRecord, ReservationStates, NoClaim, contractVars
<1>7. CASE RollbackClaim
  BY <1>7 DEF RollbackClaim, ClaimRollback, contractVars, tables, NoClaim
<1>8. ASSUME NEW i \in Items, ClaimCancellation(i) PROVE TypeOK'
  BY <1>8 DEF ClaimCancellation, schedulerVars, tables
<1>9. ASSUME NEW i \in Items, NEW exact \in Exactness,
             FinishRun(i, exact) \/ ExecuteCancel(i, exact)
      PROVE TypeOK'
  <2>1. /\ run' \in [Items -> RunRecord] /\ evidence' \subseteq EvidenceRecord
        /\ cancel' \in [Items -> CancelStates]
        /\ UNCHANGED <<clock, item, grant, logical, node, physical, turn, claim,
                       nodeReady, faults, offered>>
    BY <1>9, EndShape
  <2> QED BY <2>1 DEF RunRecord, EvidenceRecord
<1>10. ASSUME NEW i \in Items, NEW n \in Generations, NEW t \in RecentTimes, StartRun(i, n, t)
       PROVE TypeOK'
  <2> DEFINE g == <<i, n>>
  <2>1. g \in Grants
    BY GrantPairs
  <2>2. /\ item' \in [Items -> ItemRecord] /\ grant' \in [Grants -> GrantRecord]
        /\ run' \in [Items -> RunRecord]
        /\ logical' = [logical EXCEPT ![g] = IF @ = "ReservedUnbound" THEN "Bound" ELSE @]
        /\ node' = [node EXCEPT ![g] = IF @ = "ReservedUnbound" THEN "Bound" ELSE @]
        /\ UNCHANGED <<clock, cancel, physical, turn, claim, evidence, nodeReady, faults,
                       offered>>
    BY <1>10, <2>1, StartShape
  <2> HIDE DEF g
  <2> QED BY <2>1, <2>2 DEF ItemRecord, GrantRecord, RunRecord, ReservationStates
<1>11. ASSUME NEW i \in Items, ReviseRun(i) PROVE TypeOK'
  BY <1>11 DEF ReviseRun, schedulerVars, tables
<1>12. ASSUME NEW i \in Items, NEW t \in RecentTimes, CommitLease(i, t) PROVE TypeOK'
  <2> DEFINE g == RunGrant(i)
  <2>1. /\ g \in Grants
        /\ grant' \in [Grants -> GrantRecord] /\ run' \in [Items -> RunRecord]
        /\ node' = [node EXCEPT ![g] = "LeaseAttached"]
        /\ physical' = [physical EXCEPT ![g] = "Held"]
        /\ nodeReady' \in BOOLEAN
        /\ UNCHANGED <<clock, item, cancel, logical, turn, claim, evidence, faults, offered>>
    BY <1>12, CommitShape
  <2> HIDE DEF g
  <2> QED BY <2>1 DEF GrantRecord, RunRecord, ReservationStates
<1>13. ASSUME NEW i \in Items, NEW exact \in Exactness, ResetSandbox(i, exact) PROVE TypeOK'
  <2>1. /\ run' \in [Items -> RunRecord] /\ evidence' \subseteq EvidenceRecord
        /\ UNCHANGED <<clock, item, cancel, grant, logical, node, physical, turn, claim,
                       nodeReady, faults, offered>>
    BY <1>13, ResetShape
  <2> QED BY <2>1 DEF RunRecord, EvidenceRecord
<1>15. ASSUME NEW e \in evidence, ApplyFenced(e) PROVE TypeOK'
  <2> DEFINE g == e.grant
  <2>1. /\ g \in Grants /\ grant' \in [Grants -> GrantRecord]
        /\ logical' = [logical EXCEPT ![g] = IF @ = "Bound" THEN "Released" ELSE @]
        /\ UNCHANGED <<clock, item, cancel, node, physical, turn, claim, run, evidence,
                       nodeReady, faults, offered>>
    BY <1>15, FencedShape
  <2> HIDE DEF g
  <2> QED BY <2>1 DEF GrantRecord, ReservationStates
<1>16. ASSUME NEW e \in evidence, ApplyNoLease(e) PROVE TypeOK'
  <2> DEFINE g == e.grant
  <2>1. /\ g \in Grants /\ grant' \in [Grants -> GrantRecord]
        /\ node' = [node EXCEPT ![g] = "Released"]
        /\ UNCHANGED <<clock, item, cancel, logical, physical, turn, claim, run, evidence,
                       nodeReady, faults, offered>>
    BY <1>16, NoLeaseShape
  <2> HIDE DEF g
  <2> QED BY <2>1 DEF GrantRecord, ReservationStates
<1>17. ASSUME NEW e \in evidence, ApplyRelease(e) PROVE TypeOK'
  <2> DEFINE g == e.grant
  <2>1. /\ g \in Grants /\ grant' \in [Grants -> GrantRecord]
        /\ node' = [node EXCEPT ![g] = "Released"]
        /\ physical' = [physical EXCEPT ![g] = "Released"]
        /\ UNCHANGED <<clock, item, cancel, logical, turn, claim, run, evidence,
                       nodeReady, faults, offered>>
    BY <1>17, ReleaseShape
  <2> HIDE DEF g
  <2> QED BY <2>1 DEF GrantRecord, ReservationStates
<1>18. CASE AttestNode
  BY <1>18 DEF AttestNode, schedulerVars, tables
<1>19. CASE QuarantineNode
  <2>1. faults' \in 0..MaxFaults
    BY <1>19, AdmissionConstants DEF QuarantineNode
  <2> QED BY <1>19, <2>1 DEF QuarantineNode, schedulerVars, tables
<1>20. CASE AdvanceClock
  BY <1>20 DEF AdvanceClock, Tick, contractVars, tables
<1>21. CASE UNCHANGED vars
  BY <1>21 DEF vars, schedulerVars, tables, contractVars
<1> HIDE DEF TypeOK, SchedulerTypeOK
<1> QED
  BY <1>1, <1>2, <1>3, <1>4, <1>5, <1>6, <1>7, <1>8, <1>9, <1>10, <1>11, <1>12,
     <1>13, <1>15, <1>16, <1>17, <1>18, <1>19, <1>20, <1>21
     DEF Next, ClaimStep, CancelStep, RunStep, EvidenceStep, NodeStep

(***************************************************************************)
(* The invariant.                                                          *)
(***************************************************************************)
\* The conjuncts of IInv that speak of rows and not of how many there are.
RowInv ==
    /\ ItemGenerations /\ GrantsIssued /\ BindingStates /\ ClaimHoldsCandidate
    /\ RunGenerations /\ EvidenceOfRun /\ RowsAgree /\ OneOutstandingOffer
    /\ StartBoundOnce /\ CapacityHeldForRun

\* A run that was started has a grant of its own, bound to it.
LEMMA RunBound ==
    ASSUME TypeOK, RowInv, NEW j \in Items, run[j].phase # "Created"
    PROVE  /\ RunGrant(j) \in Grants
           /\ RunGrant(j)[1] = j /\ RunGrant(j)[2] = run[j].generation
           /\ grant[RunGrant(j)].revision = 2
           /\ item[j].state = "Accepted"
  <1>1. run[j].generation \in Generations
    BY Typed, SchedulerConstants DEF RunRecord, RowInv, RunGenerations, Generations
  <1>2. /\ RunGrant(j) \in Grants
        /\ RunGrant(j)[1] = j /\ RunGrant(j)[2] = run[j].generation
    BY <1>1, GrantPairs DEF RunGrant
  <1>3. grant[RunGrant(j)].revision = 2
    BY <1>2 DEF RowInv, StartBoundOnce
  <1>4. item[j].state = "Accepted"
    BY <1>2, <1>3 DEF RowInv, StartBoundOnce
  <1> QED BY <1>2, <1>3, <1>4

\* An item out for delivery has a current grant.
LEMMA OfferedGrant ==
    ASSUME TypeOK, RowInv, NEW j \in Items, item[j].state = "Delivering"
    PROVE  CurrentGrant(j) \in Grants
  <1>1. item[j].current > 0 /\ item[j] \in ItemRecord
    BY Typed DEF RowInv, OneOutstandingOffer
  <1>2. item[j].current \in Generations
    BY <1>1, SchedulerConstants DEF ItemRecord, Generations
  <1> QED BY <1>2, GrantPairs DEF CurrentGrant

\* A step that writes none of these keeps every fact about rows.
LEMMA RowFrame ==
    ASSUME RowInv, UNCHANGED <<item, grant, logical, node, physical, run, evidence, claim>>
    PROVE  RowInv'
  <1> USE DEF RowInv
  <1>1. ItemGenerations' /\ GrantsIssued' /\ BindingStates' /\ ClaimHoldsCandidate'
    BY DEF ItemGenerations, GrantsIssued, BindingStates, ClaimHoldsCandidate, Delivering
  <1>2. RunGenerations' /\ EvidenceOfRun' /\ RowsAgree'
    BY DEF RunGenerations, EvidenceOfRun, RowsAgree
  <1>3. OneOutstandingOffer' /\ StartBoundOnce' /\ CapacityHeldForRun'
    BY DEF OneOutstandingOffer, StartBoundOnce, CapacityHeldForRun, CurrentGrant, Delivering,
           RunGrant
  <1> QED BY <1>1, <1>2, <1>3

LEMMA RowEnqueue ==
    ASSUME TypeOK, RowInv, NEW i \in Items, EnqueueStart(i)
    PROVE  RowInv'
  <1>1. /\ item[i].state = "Absent"
        /\ item' = [item EXCEPT ![i] = [@ EXCEPT !.state = "Queued"]]
        /\ UNCHANGED <<grant, logical, node, physical, run, evidence, claim>>
    BY DEF EnqueueStart, Enqueue, contractVars
  <1>2. /\ item'[i].state = "Queued"
        /\ \A j \in Items : item'[j].current = item[j].current /\ item'[j].last = item[j].last
        /\ \A j \in Items \ {i} : item'[j] = item[j]
    BY <1>1, Typed DEF ItemRecord
  <1>3. Delivering' = Delivering
    BY <1>1, <1>2 DEF Delivering
  <1> USE DEF RowInv
  <1>4. ItemGenerations'
    BY <1>1, <1>2 DEF ItemGenerations
  <1>5. GrantsIssued' /\ BindingStates'
    BY <1>1, <1>2, GrantPairs DEF GrantsIssued, BindingStates
  <1>6. ClaimHoldsCandidate'
    BY <1>1, <1>2, <1>3 DEF ClaimHoldsCandidate
  <1>7. RunGenerations' /\ EvidenceOfRun' /\ RowsAgree' /\ CapacityHeldForRun'
    BY <1>1 DEF RunGenerations, EvidenceOfRun, RowsAgree, CapacityHeldForRun, RunGrant
  <1>8. OneOutstandingOffer'
    BY <1>1, <1>2, <1>3, GrantPairs DEF OneOutstandingOffer, CurrentGrant
  <1>9. StartBoundOnce'
    BY <1>1, <1>2, GrantPairs DEF StartBoundOnce
  <1> QED BY <1>4, <1>5, <1>6, <1>7, <1>8, <1>9

LEMMA RowBegin ==
    ASSUME TypeOK, RowInv, NEW i \in Items, BeginClaim(i)
    PROVE  RowInv'
  <1>1. /\ i \in Delivering \/ (Delivering = {} /\ item[i].state = "Queued")
        /\ claim' = [item |-> i, now |-> clock]
        /\ UNCHANGED <<item, grant, logical, node, physical, run, evidence>>
    BY DEF BeginClaim, ClaimBegin, Candidate, EligibleQueued, contractVars, tables
  <1>2. claim'.item = i /\ Delivering' = Delivering
    BY <1>1 DEF Delivering
  <1>3. ClaimHoldsCandidate'
    BY <1>1, <1>2 DEF ClaimHoldsCandidate, Delivering
  <1>4. ItemGenerations' /\ GrantsIssued' /\ BindingStates'
    BY <1>1 DEF RowInv, ItemGenerations, GrantsIssued, BindingStates
  <1>5. RunGenerations' /\ EvidenceOfRun' /\ RowsAgree'
    BY <1>1 DEF RowInv, RunGenerations, EvidenceOfRun, RowsAgree
  <1>6. OneOutstandingOffer' /\ StartBoundOnce' /\ CapacityHeldForRun'
    BY <1>1, <1>2 DEF RowInv, OneOutstandingOffer, StartBoundOnce, CapacityHeldForRun,
                      CurrentGrant, RunGrant
  <1> QED BY <1>3, <1>4, <1>5, <1>6 DEF RowInv

\* A claim that ends without writing a row.
LEMMA RowEndClaim ==
    ASSUME RowInv, claim' = NoClaim,
           UNCHANGED <<item, grant, logical, node, physical, run, evidence>>
    PROVE  RowInv'
  <1>1. ClaimHoldsCandidate' /\ Delivering' = Delivering
    BY DEF ClaimHoldsCandidate, Delivering
  <1>2. ItemGenerations' /\ GrantsIssued' /\ BindingStates'
    BY DEF RowInv, ItemGenerations, GrantsIssued, BindingStates
  <1>3. RunGenerations' /\ EvidenceOfRun' /\ RowsAgree'
    BY DEF RowInv, RunGenerations, EvidenceOfRun, RowsAgree
  <1>4. OneOutstandingOffer' /\ StartBoundOnce' /\ CapacityHeldForRun'
    BY <1>1 DEF RowInv, OneOutstandingOffer, StartBoundOnce, CapacityHeldForRun,
                CurrentGrant, RunGrant
  <1> QED BY <1>1, <1>2, <1>3, <1>4 DEF RowInv

LEMMA RowRevise ==
    ASSUME TypeOK, RowInv, NEW i \in Items, ReviseRun(i)
    PROVE  RowInv'
  <1>1. /\ run' = [run EXCEPT ![i].revision = @ + 1]
        /\ UNCHANGED <<item, grant, logical, node, physical, evidence, claim>>
    BY DEF ReviseRun, schedulerVars, tables
  <1>2. \A j \in Items : run'[j].phase = run[j].phase /\ run'[j].generation = run[j].generation
    BY <1>1, Typed DEF RunRecord
  <1>3. Delivering' = Delivering /\ \A j \in Items : RunGrant(j)' = RunGrant(j)
    BY <1>1, <1>2 DEF Delivering, RunGrant
  <1>4. ItemGenerations' /\ GrantsIssued' /\ BindingStates' /\ ClaimHoldsCandidate' /\ RowsAgree'
    BY <1>1, <1>3 DEF RowInv, ItemGenerations, GrantsIssued, BindingStates,
                      ClaimHoldsCandidate, RowsAgree
  <1>5. RunGenerations'
    BY <1>1, <1>2 DEF RowInv, RunGenerations
  <1>6. EvidenceOfRun'
    <2>1. \A e \in evidence : e.grant[1] \in Items
      BY Typed, GrantPairs DEF EvidenceRecord
    <2> QED BY <1>1, <1>2, <2>1 DEF RowInv, EvidenceOfRun
  <1>7. OneOutstandingOffer'
    BY <1>1, <1>3 DEF RowInv, OneOutstandingOffer, CurrentGrant
  <1>8. StartBoundOnce' /\ CapacityHeldForRun'
    BY <1>1, <1>2, <1>3, GrantPairs DEF RowInv, StartBoundOnce, CapacityHeldForRun
  <1> QED BY <1>4, <1>5, <1>6, <1>7, <1>8 DEF RowInv

\* The candidate of a claim that commits its first grant: it is the queued
\* item, nothing is out for delivery, and its rows are new.
LEMMA FirstGrant ==
    ASSUME TypeOK, RowInv, NEW i \in Items, Admit(i)
    PROVE  /\ item[i].state = "Queued" /\ item[i].last = 0 /\ Delivering = {}
           /\ grant[NextGrant(i)].state = "None"
           /\ grant[NextGrant(i)].revision = 0
           /\ physical[NextGrant(i)] = "None"
  <1>1. NextGrant(i) \in Grants /\ claim.item = i /\ item[i].current = 0
    BY AdmitShape
  <1>2. claim # NoClaim
    BY <1>1, SchedulerConstants DEF NoClaim
  <1>3. item[i].state = "Queued" /\ Delivering = {}
    BY <1>1, <1>2 DEF RowInv, ClaimHoldsCandidate, ItemGenerations
  <1>4. item[i].last = 0
    BY <1>3 DEF RowInv, ItemGenerations
  <1>5. grant[NextGrant(i)].state = "None"
    BY <1>1, <1>4, GrantPairs DEF RowInv, GrantsIssued, NextGrant, Generations
  <1>6. grant[NextGrant(i)].revision = 0
    BY <1>1, <1>5, Typed DEF RowInv, BindingStates, GrantRecord
  <1> QED BY <1>1, <1>3, <1>4, <1>5, <1>6 DEF RowInv, RowsAgree

LEMMA RowAdmit ==
    ASSUME TypeOK, RowInv, NEW i \in Items, Admit(i)
    PROVE  RowInv'
  <1> DEFINE g == NextGrant(i)
  <1>1. /\ g \in Grants /\ g[1] = i /\ g[2] = 1
        /\ item[i].state = "Queued" /\ item[i].last = 0 /\ Delivering = {}
        /\ grant[g].state = "None" /\ grant[g].revision = 0 /\ physical[g] = "None"
    BY FirstGrant, AdmitShape DEF NextGrant
  <1>2. /\ item'[i] = [state |-> "Delivering", current |-> 1, last |-> 1]
        /\ \A j \in Items \ {i} : item'[j] = item[j]
        /\ grant'[g].state = "ReservedUnbound" /\ grant'[g].revision = 0
        /\ \A h \in Grants \ {g} : grant'[h] = grant[h]
        /\ claim' = NoClaim
        /\ UNCHANGED <<physical, run, evidence>>
    BY <1>1, AdmitShape DEF Delivered, SameBinding, contractVars
  <1>3. /\ logical'[g] = "ReservedUnbound" /\ node'[g] = "ReservedUnbound"
        /\ \A h \in Grants \ {g} : logical'[h] = logical[h] /\ node'[h] = node[h]
    BY <1>1, AdmitShape, Typed
  <1>4. \A h \in Grants : h[1] \in Items /\ h[2] \in Generations
                          /\ (h[1] = i /\ h[2] = 1 => h = g)
    BY <1>1, GrantPairs
  <1> HIDE DEF g
  <1>5. Delivering' = {i}
    BY <1>1, <1>2 DEF Delivering
  <1> USE DEF RowInv
  <1>6. ItemGenerations'
    BY <1>2 DEF ItemGenerations
  <1>7. GrantsIssued'
    <2> SUFFICES ASSUME NEW h \in Grants
                 PROVE  grant'[h].state = "None" <=> h[2] > item'[h[1]].last
      BY DEF GrantsIssued
    <2>1. CASE h = g
      BY <1>1, <1>2, <2>1
    <2>2. CASE h # g /\ h[1] = i
      BY <1>1, <1>2, <1>4, <2>2 DEF GrantsIssued, Generations
    <2>3. CASE h[1] # i
      BY <1>1, <1>2, <1>4, <2>3 DEF GrantsIssued
    <2> QED BY <2>1, <2>2, <2>3
  <1>8. BindingStates'
    BY <1>2 DEF BindingStates
  <1>9. ClaimHoldsCandidate' /\ RunGenerations' /\ EvidenceOfRun'
    BY <1>2 DEF ClaimHoldsCandidate, RunGenerations, EvidenceOfRun
  <1>10. RowsAgree'
    BY <1>1, <1>2, <1>3 DEF RowsAgree
  <1>11. OneOutstandingOffer'
    <2>1. \A h \in Grants \ {g} : grant[h].state # "ReservedUnbound"
      BY <1>1, <1>4 DEF OneOutstandingOffer, Delivering
    <2>2. /\ CurrentGrant(i)' = g
      BY <1>1, <1>2 DEF CurrentGrant, g, NextGrant
    <2> QED BY <1>1, <1>2, <1>5, <2>1, <2>2 DEF OneOutstandingOffer, Delivering
  <1>12. StartBoundOnce'
    BY <1>1, <1>2, <1>4 DEF StartBoundOnce
  <1>13. CapacityHeldForRun'
    <2> SUFFICES ASSUME NEW j \in Items, run[j].phase # "Created"
                 PROVE  /\ logical'[RunGrant(j)] = logical[RunGrant(j)]
                        /\ node'[RunGrant(j)] = node[RunGrant(j)]
      BY <1>2 DEF CapacityHeldForRun, RunGrant, Live
    <2>1. RunGrant(j) \in Grants /\ grant[RunGrant(j)].revision = 2
      BY RunBound
    <2> QED BY <1>1, <1>3, <2>1
  <1> QED BY <1>6, <1>7, <1>8, <1>9, <1>10, <1>11, <1>12, <1>13

\* The candidate of a claim that commits a further grant: it is the item out
\* for delivery, and its expired grant is the one grant that is unbound.
LEMMA NextGrantOf ==
    ASSUME TypeOK, RowInv, NEW i \in Items, Readmit(i)
    PROVE  /\ CurrentGrant(i) \in Grants /\ NextGrant(i) \in Grants
           /\ CurrentGrant(i) # NextGrant(i)
           /\ item[i].state = "Delivering"
           /\ item[i].current = item[i].last /\ item[i].last > 0
           /\ item[i].last + 1 \in Generations
           /\ \A h \in Grants : grant[h].state = "ReservedUnbound" <=> h = CurrentGrant(i)
           /\ Delivering = {i}
           /\ grant[NextGrant(i)].state = "None"
           /\ grant[NextGrant(i)].revision = 0 /\ grant[CurrentGrant(i)].revision = 0
           /\ physical[NextGrant(i)] = "None"
  <1>1. /\ item[i].current > 0 /\ claim.item = i /\ item[i] \in ItemRecord
        /\ item[i].last < MaxGeneration
    BY Typed DEF Readmit, ClaimReadmit
  <1>2. claim # NoClaim
    BY <1>1, SchedulerConstants DEF NoClaim
  <1>3. item[i].state = "Delivering"
    BY <1>1, <1>2 DEF RowInv, ClaimHoldsCandidate, ItemGenerations
  <1>4. item[i].current = item[i].last /\ item[i].last > 0
    BY <1>3 DEF RowInv, ItemGenerations
  <1>5. item[i].last \in Generations /\ item[i].last + 1 \in Generations
    BY <1>1, <1>4, SchedulerConstants DEF ItemRecord, Generations
  <1>6. CurrentGrant(i) \in Grants /\ item[i].current <= item[i].last
    BY <1>1, <1>4, <1>5, GrantPairs DEF CurrentGrant, ItemRecord
  <1>7. /\ NextGrant(i) \in Grants /\ CurrentGrant(i) # NextGrant(i)
        /\ grant[CurrentGrant(i)].state = "ReservedUnbound"
    BY <1>6, ReadmitShape
  <1>8. Delivering = {i}
    BY <1>3 DEF RowInv, OneOutstandingOffer, Delivering
  <1>9. \A h \in Grants : grant[h].state = "ReservedUnbound" => h = CurrentGrant(i)
    BY <1>8, GrantPairs DEF RowInv, OneOutstandingOffer, Delivering, CurrentGrant
  <1>10. grant[NextGrant(i)].state = "None"
    BY <1>5, <1>7, GrantPairs DEF RowInv, GrantsIssued, NextGrant, Generations
  <1>11. grant[NextGrant(i)].revision = 0 /\ grant[CurrentGrant(i)].revision = 0
    BY <1>6, <1>7, <1>10, Typed DEF RowInv, BindingStates, GrantRecord
  <1>12. physical[NextGrant(i)] = "None"
    BY <1>7, <1>10 DEF RowInv, RowsAgree
  <1> QED BY <1>3, <1>4, <1>5, <1>6, <1>7, <1>8, <1>9, <1>10, <1>11, <1>12

LEMMA RowReadmit ==
    ASSUME TypeOK, RowInv, NEW i \in Items, Readmit(i)
    PROVE  RowInv'
  <1> DEFINE g == NextGrant(i)
             o == CurrentGrant(i)
             n == item[i].last + 1
  <1>1. /\ o \in Grants /\ g \in Grants /\ o # g
        /\ g[1] = i /\ g[2] = n /\ o[1] = i /\ o[2] = item[i].last
        /\ item[i].state = "Delivering" /\ item[i].current = item[i].last
        /\ item[i].last > 0 /\ n \in Generations /\ item[i].last \in Nat
        /\ \A h \in Grants : grant[h].state = "ReservedUnbound" <=> h = o
        /\ Delivering = {i}
        /\ grant[g].state = "None" /\ grant[g].revision = 0 /\ grant[o].revision = 0
        /\ physical[g] = "None"
    BY NextGrantOf, Typed DEF NextGrant, CurrentGrant, ItemRecord
  <1>2. item[i].current <= item[i].last
    BY <1>1
  <1>3. /\ item'[i] = [state |-> "Delivering", current |-> n, last |-> n]
        /\ \A j \in Items \ {i} : item'[j] = item[j]
        /\ grant'[g].state = "ReservedUnbound" /\ grant'[o].state = "ExpiredUnbound"
        /\ grant'[g].revision = 0 /\ grant'[o].revision = 0
        /\ \A h \in Grants \ {g, o} : grant'[h] = grant[h]
        /\ claim' = NoClaim
        /\ UNCHANGED <<physical, run, evidence>>
    BY <1>1, <1>2, ReadmitShape DEF Delivered, SameBinding, contractVars
  <1>4. logical[o] = "ReservedUnbound" /\ node[o] = "ReservedUnbound" /\ physical[o] = "None"
    BY <1>1 DEF RowInv, RowsAgree
  <1>5. /\ logical' = [Expired(logical, o) EXCEPT ![g] = "ReservedUnbound"]
        /\ node' = [Expired(node, o) EXCEPT ![g] = "ReservedUnbound"]
    BY <1>1, <1>2, ReadmitShape
  <1>6. /\ logical'[g] = "ReservedUnbound" /\ node'[g] = "ReservedUnbound"
        /\ logical'[o] = "Released" /\ node'[o] = "Released"
        /\ \A h \in Grants \ {g, o} : logical'[h] = logical[h] /\ node'[h] = node[h]
    BY <1>1, <1>4, <1>5, Typed DEF Expired
  <1>7. /\ \A h \in Grants : h[1] \in Items /\ h[2] \in Generations
        /\ \A h \in Grants : h[1] = i /\ h[2] = n => h = g
        /\ \A h \in Grants : h[1] = i /\ h[2] = item[i].last => h = o
    BY <1>1, GrantPairs DEF NextGrant, CurrentGrant
  <1>8. CurrentGrant(i)' = g
    BY <1>3 DEF CurrentGrant, NextGrant
  <1> HIDE DEF g, o, n
  <1>9. Delivering' = {i}
    BY <1>1, <1>3 DEF Delivering
  <1> USE DEF RowInv
  <1>10. ItemGenerations'
    BY <1>1, <1>3 DEF ItemGenerations, Generations
  <1>11. GrantsIssued'
    <2> SUFFICES ASSUME NEW h \in Grants
                 PROVE  grant'[h].state = "None" <=> h[2] > item'[h[1]].last
      BY DEF GrantsIssued
    <2>1. CASE h = g \/ h = o
      BY <1>1, <1>3, <2>1 DEF n
    <2>2. CASE h # g /\ h # o /\ h[1] = i
      BY <1>1, <1>3, <1>7, <2>2 DEF GrantsIssued, Generations, n
    <2>3. CASE h[1] # i
      BY <1>1, <1>3, <1>7, <2>3 DEF GrantsIssued
    <2> QED BY <2>1, <2>2, <2>3
  <1>12. BindingStates'
    BY <1>3 DEF BindingStates
  <1>13. ClaimHoldsCandidate' /\ RunGenerations' /\ EvidenceOfRun'
    BY <1>3 DEF ClaimHoldsCandidate, RunGenerations, EvidenceOfRun
  <1>14. RowsAgree'
    BY <1>1, <1>3, <1>4, <1>6 DEF RowsAgree
  <1>15. OneOutstandingOffer'
    <2>1. \A h \in Grants : grant'[h].state = "ReservedUnbound" => h = g
      BY <1>1, <1>3
    <2>2. item'[i].state = "Delivering" /\ item'[i].current = n /\ n > 0
      BY <1>1, <1>3 DEF Generations
    <2>3. \A j \in Items : item'[j].state = "Delivering" => j = i
      BY <1>9 DEF Delivering
    <2> QED BY <1>1, <1>3, <1>8, <1>9, <2>1, <2>2, <2>3 DEF OneOutstandingOffer
  <1>16. StartBoundOnce'
    <2>1. \A h \in Grants : grant'[h].revision = grant[h].revision
      BY <1>1, <1>3
    <2>2. \A h \in Grants : grant[h].revision > 0 =>
             /\ h \notin {g, o} /\ item'[h[1]] = item[h[1]]
      BY <1>1, <1>3, <1>7 DEF StartBoundOnce
    <2>3. \A h \in Grants : run[h[1]].phase # "Created" /\ run[h[1]].generation = h[2] =>
             h \notin {g, o}
      BY <1>1 DEF StartBoundOnce
    <2> QED BY <1>3, <2>1, <2>2, <2>3 DEF StartBoundOnce
  <1>17. CapacityHeldForRun'
    <2> SUFFICES ASSUME NEW j \in Items, run[j].phase # "Created"
                 PROVE  /\ logical'[RunGrant(j)] = logical[RunGrant(j)]
                        /\ node'[RunGrant(j)] = node[RunGrant(j)]
      BY <1>3 DEF CapacityHeldForRun, RunGrant, Live
    <2>1. RunGrant(j) \in Grants /\ grant[RunGrant(j)].revision = 2
      BY RunBound
    <2> QED BY <1>1, <1>6, <2>1
  <1> QED BY <1>10, <1>11, <1>12, <1>13, <1>14, <1>15, <1>16, <1>17

LEMMA RowStart ==
    ASSUME TypeOK, RowInv, NEW i \in Items, NEW n \in Generations, NEW t \in RecentTimes,
           StartRun(i, n, t)
    PROVE  RowInv'
  <1> DEFINE g == <<i, n>>
  <1>1. g \in Grants /\ g[1] = i /\ g[2] = n
    BY GrantPairs
  <1>2. /\ run[i].phase = "Created" /\ claim.item # i
        /\ item[i].state = "Delivering" /\ item[i].current = n
        /\ grant[g].state = "ReservedUnbound"
        /\ item'[i].state = "Accepted"
        /\ item'[i].current = item[i].current /\ item'[i].last = item[i].last
        /\ \A j \in Items \ {i} : item'[j] = item[j]
        /\ grant'[g].state = "Bound" /\ grant'[g].revision = 2 /\ grant'[g].fence = 2
        /\ \A h \in Grants \ {g} : grant'[h] = grant[h]
        /\ run'[i].phase = "Waiting" /\ run'[i].generation = n
        /\ \A j \in Items \ {i} : run'[j] = run[j]
        /\ UNCHANGED <<physical, claim, evidence>>
    BY <1>1, StartShape
  <1>3. /\ logical' = [logical EXCEPT ![g] = IF @ = "ReservedUnbound" THEN "Bound" ELSE @]
        /\ node' = [node EXCEPT ![g] = IF @ = "ReservedUnbound" THEN "Bound" ELSE @]
    BY <1>1, StartShape
  <1>4. logical[g] = "ReservedUnbound" /\ node[g] = "ReservedUnbound" /\ physical[g] = "None"
    BY <1>1, <1>2 DEF RowInv, RowsAgree
  <1>5. /\ logical'[g] = "Bound" /\ node'[g] = "Bound"
        /\ \A h \in Grants \ {g} : logical'[h] = logical[h] /\ node'[h] = node[h]
    BY <1>1, <1>3, <1>4, Typed
  <1>6. \A h \in Grants : /\ h[1] \in Items /\ h[2] \in Generations
                          /\ h[1] = i /\ h[2] = n => h = g
    BY GrantPairs
  <1>7. RunGrant(i)' = g /\ \A j \in Items \ {i} : RunGrant(j)' = RunGrant(j)
    BY <1>2 DEF RunGrant
  <1> HIDE DEF g
  <1>8. Delivering' = Delivering \ {i} /\ i \in Delivering
    BY <1>2 DEF Delivering
  <1> USE DEF RowInv
  <1>9. ItemGenerations'
    BY <1>2 DEF ItemGenerations
  <1>10. GrantsIssued' /\ BindingStates'
    BY <1>1, <1>2, <1>6 DEF GrantsIssued, BindingStates
  <1>11. ClaimHoldsCandidate'
    BY <1>2, <1>8 DEF ClaimHoldsCandidate
  <1>12. RunGenerations'
    BY <1>2 DEF RunGenerations, Generations
  <1>13. EvidenceOfRun'
    <2> SUFFICES ASSUME NEW e \in evidence
                 PROVE  e.grant[1] \in Items \ {i}
      BY <1>2 DEF EvidenceOfRun
    <2>1. e.grant[1] \in Items /\ e.grant[2] \in Generations
      BY <1>6, Typed DEF EvidenceRecord
    <2>2. run[e.grant[1]].generation = e.grant[2]
      BY DEF EvidenceOfRun
    <2> QED BY <1>2, <2>1, <2>2 DEF RunGenerations, Generations
  <1>14. RowsAgree'
    BY <1>1, <1>2, <1>4, <1>5 DEF RowsAgree
  <1>15. OneOutstandingOffer'
    <2>1. \A h \in Grants : grant'[h].state = "ReservedUnbound" => h[1] \in Items \ {i}
      BY <1>1, <1>2, <1>6 DEF OneOutstandingOffer
    <2>2. \A h \in Grants : grant'[h].state = "ReservedUnbound" =>
             item'[h[1]].state = "Delivering" /\ item'[h[1]].current = h[2]
      BY <1>1, <1>2, <2>1 DEF OneOutstandingOffer
    <2>3. Delivering' = {}
      BY <1>8 DEF OneOutstandingOffer
    <2> QED BY <2>2, <2>3 DEF OneOutstandingOffer, Delivering
  <1>16. StartBoundOnce'
    BY <1>1, <1>2, <1>6 DEF StartBoundOnce
  <1>17. CapacityHeldForRun'
    <2> SUFFICES ASSUME NEW j \in Items, j # i, run[j].phase # "Created"
                 PROVE  /\ logical'[RunGrant(j)] = logical[RunGrant(j)]
                        /\ node'[RunGrant(j)] = node[RunGrant(j)]
      BY <1>2, <1>5, <1>7 DEF CapacityHeldForRun, Live
    <2>1. RunGrant(j) \in Grants /\ RunGrant(j)[1] = j
      BY RunBound
    <2> QED BY <1>1, <1>5, <2>1
  <1> QED BY <1>9, <1>10, <1>11, <1>12, <1>13, <1>14, <1>15, <1>16, <1>17

LEMMA RowCommit ==
    ASSUME TypeOK, RowInv, NEW i \in Items, NEW t \in RecentTimes, CommitLease(i, t)
    PROVE  RowInv'
  <1> DEFINE g == RunGrant(i)
  <1> USE DEF RowInv
  <1>1. /\ g \in Grants
        /\ run[i].phase = "Waiting"
        /\ grant[g].state = "Bound" /\ node[g] = "Bound"
        /\ grant'[g].state = "LeaseAttached"
        /\ grant'[g].revision = grant[g].revision /\ grant'[g].fence = grant[g].fence
        /\ \A h \in Grants \ {g} : grant'[h] = grant[h]
        /\ node' = [node EXCEPT ![g] = "LeaseAttached"]
        /\ physical' = [physical EXCEPT ![g] = "Held"]
        /\ run'[i].phase = "Leased" /\ run'[i].generation = run[i].generation
        /\ \A j \in Items \ {i} : run'[j] = run[j]
        /\ UNCHANGED <<item, logical, claim, evidence>>
    BY CommitShape
  <1>2. /\ node'[g] = "LeaseAttached" /\ physical'[g] = "Held"
        /\ \A h \in Grants \ {g} : node'[h] = node[h] /\ physical'[h] = physical[h]
    BY <1>1, Typed
  <1>3. /\ g[1] = i
        /\ \A j \in Items : RunGrant(j)' = RunGrant(j)
        /\ \A h \in Grants : h[1] \in Items
    BY <1>1, GrantPairs DEF RunGrant
  <1>4. Delivering' = Delivering
    BY <1>1 DEF Delivering
  <1> HIDE DEF g
  <1>5. ItemGenerations' /\ ClaimHoldsCandidate' /\ RunGenerations'
    BY <1>1, <1>4 DEF ItemGenerations, ClaimHoldsCandidate, RunGenerations
  <1>6. GrantsIssued' /\ BindingStates'
    BY <1>1 DEF GrantsIssued, BindingStates
  <1>7. EvidenceOfRun'
    <2> SUFFICES ASSUME NEW e \in evidence
                 PROVE  e.grant[1] \in Items \ {i}
      BY <1>1 DEF EvidenceOfRun
    <2>1. e.grant[1] \in Items /\ e.kind \in {"Fenced", "NoLease", "Release"}
      BY <1>3, Typed DEF EvidenceRecord
    <2> QED BY <1>1, <2>1 DEF EvidenceOfRun
  <1>8. RowsAgree'
    BY <1>1, <1>2 DEF RowsAgree
  <1>9. OneOutstandingOffer'
    <2>1. \A h \in Grants : grant'[h].state = "ReservedUnbound" <=> grant[h].state = "ReservedUnbound"
      BY <1>1
    <2>2. \A j \in Items : item[j].state = "Delivering" =>
             CurrentGrant(j) # g /\ CurrentGrant(j)' = CurrentGrant(j)
      BY <1>1, <1>3 DEF OneOutstandingOffer, CurrentGrant
    <2>3. \A j \in Items : item[j].state = "Delivering" => CurrentGrant(j) \in Grants
      BY OfferedGrant
    <2>4. \A j \in Items : item[j].state = "Delivering" =>
             grant'[CurrentGrant(j)'].state = "ReservedUnbound"
      BY <2>1, <2>2, <2>3 DEF OneOutstandingOffer
    <2> QED BY <1>1, <1>4, <2>1, <2>4 DEF OneOutstandingOffer
  <1>10. StartBoundOnce'
    BY <1>1, <1>3 DEF StartBoundOnce
  <1>11. CapacityHeldForRun'
    <2>1. \A j \in Items \ {i} : run[j].phase # "Created" =>
             /\ node'[RunGrant(j)] = node[RunGrant(j)]
             /\ physical'[RunGrant(j)] = physical[RunGrant(j)]
      <3> SUFFICES ASSUME NEW j \in Items \ {i}, run[j].phase # "Created"
                   PROVE  /\ node'[RunGrant(j)] = node[RunGrant(j)]
                          /\ physical'[RunGrant(j)] = physical[RunGrant(j)]
        OBVIOUS
      <3>1. RunGrant(j) \in Grants /\ RunGrant(j)[1] = j
        BY RunBound
      <3> QED BY <1>2, <1>3, <3>1
    <2>2. /\ run'[i].phase = "Leased" /\ logical'[g] = "Bound" /\ physical'[g] = "Held"
      BY <1>1, <1>2 DEF CapacityHeldForRun, Live, g
    <2> QED BY <1>1, <1>3, <2>1, <2>2 DEF CapacityHeldForRun, Live, g
  <1> QED BY <1>5, <1>6, <1>7, <1>8, <1>9, <1>10, <1>11

\* What the three evidence operations have in common: they touch the rows of
\* one bound grant, keep its binding, and touch no item and no run.
LEMMA RowEvidence ==
    ASSUME TypeOK, RowInv, NEW g \in Grants,
           grant[g].revision > 0,
           grant'[g].revision = grant[g].revision, grant'[g].fence = grant[g].fence,
           grant'[g].state \in {"Bound", "LeaseAttached", "TerminalNoLease", "Released"},
           \A h \in Grants \ {g} : grant'[h] = grant[h],
           UNCHANGED <<item, claim, run, evidence>>
    PROVE  /\ ItemGenerations' /\ GrantsIssued' /\ BindingStates' /\ ClaimHoldsCandidate'
           /\ RunGenerations' /\ EvidenceOfRun' /\ OneOutstandingOffer' /\ StartBoundOnce'
  <1> USE DEF RowInv
  <1>1. grant[g].state \in {"Bound", "LeaseAttached", "TerminalNoLease", "Released"}
    BY DEF BindingStates
  <1>2. ItemGenerations' /\ RunGenerations' /\ EvidenceOfRun' /\ ClaimHoldsCandidate'
    BY DEF ItemGenerations, RunGenerations, EvidenceOfRun, ClaimHoldsCandidate, Delivering
  <1>3. GrantsIssued' /\ BindingStates'
    BY <1>1 DEF GrantsIssued, BindingStates
  <1>4. \A h \in Grants : grant[h].state = "ReservedUnbound" <=> grant'[h].state = "ReservedUnbound"
    BY <1>1
  <1>5. OneOutstandingOffer'
    <2>1. \A j \in Items : item[j].state = "Delivering" => CurrentGrant(j) \in Grants
      BY OfferedGrant
    <2>2. \A j \in Items : CurrentGrant(j)' = CurrentGrant(j)
      BY DEF CurrentGrant
    <2> QED BY <1>4, <2>1, <2>2 DEF OneOutstandingOffer, Delivering
  <1>6. StartBoundOnce'
    BY DEF StartBoundOnce
  <1> QED BY <1>2, <1>3, <1>5, <1>6

LEMMA RowFenced ==
    ASSUME TypeOK, RowInv, NEW e \in evidence, ApplyFenced(e)
    PROVE  RowInv'
  <1> DEFINE g == e.grant
  <1>1. /\ g \in Grants /\ e.kind = "Fenced"
        /\ grant[g].state \in {"Bound", "LeaseAttached", "TerminalNoLease", "Released"}
        /\ grant[g].revision > 0
        /\ grant'[g].state = IF /\ node[g] = "Released"
                                /\ grant[g].state \in {"Bound", "TerminalNoLease"}
                             THEN "Released" ELSE grant[g].state
        /\ grant'[g].revision = grant[g].revision /\ grant'[g].fence = grant[g].fence
        /\ \A h \in Grants \ {g} : grant'[h] = grant[h]
        /\ logical' = [logical EXCEPT ![g] = IF @ = "Bound" THEN "Released" ELSE @]
        /\ UNCHANGED <<item, claim, run, evidence, node, physical>>
    BY FencedShape
  <1>2. /\ logical'[g] = IF logical[g] = "Bound" THEN "Released" ELSE logical[g]
        /\ \A h \in Grants \ {g} : logical'[h] = logical[h]
    BY <1>1, Typed
  <1>3. \A j \in Items : RunGrant(j) = g => run[j].phase \in {"Fenced", "Ended", "Reset"}
    BY <1>1 DEF RowInv, EvidenceOfRun, RunGrant
  <1> HIDE DEF g
  <1>4. /\ ItemGenerations' /\ GrantsIssued' /\ BindingStates' /\ ClaimHoldsCandidate'
        /\ RunGenerations' /\ EvidenceOfRun' /\ OneOutstandingOffer' /\ StartBoundOnce'
    BY <1>1, RowEvidence
  <1>5. RowsAgree'
    BY <1>1, <1>2 DEF RowInv, RowsAgree
  <1>6. CapacityHeldForRun'
    <2>1. \A j \in Items : run[j].phase \in Live => logical'[RunGrant(j)] = logical[RunGrant(j)]
      BY <1>2, <1>3, RunBound DEF Live
    <2>2. \A j \in Items : RunGrant(j)' = RunGrant(j)
      BY <1>1 DEF RunGrant
    <2> QED BY <1>1, <2>1, <2>2 DEF RowInv, CapacityHeldForRun
  <1> QED BY <1>4, <1>5, <1>6 DEF RowInv

LEMMA RowNoLease ==
    ASSUME TypeOK, RowInv, NEW e \in evidence, ApplyNoLease(e)
    PROVE  RowInv'
  <1> DEFINE g == e.grant
  <1>1. /\ g \in Grants /\ e.kind = "NoLease"
        /\ grant[g].state \in {"Bound", "TerminalNoLease", "Released"}
        /\ grant[g].revision > 0
        /\ grant'[g].state = IF logical[g] = "Released" THEN "Released" ELSE "TerminalNoLease"
        /\ grant'[g].revision = grant[g].revision /\ grant'[g].fence = grant[g].fence
        /\ \A h \in Grants \ {g} : grant'[h] = grant[h]
        /\ node' = [node EXCEPT ![g] = "Released"]
        /\ UNCHANGED <<item, claim, run, evidence, logical, physical>>
    BY NoLeaseShape
  <1>2. node'[g] = "Released" /\ \A h \in Grants \ {g} : node'[h] = node[h]
    BY <1>1, Typed
  <1>3. \A j \in Items : RunGrant(j) = g => run[j].phase = "Ended"
    BY <1>1 DEF RowInv, EvidenceOfRun, RunGrant
  <1> HIDE DEF g
  <1>4. /\ ItemGenerations' /\ GrantsIssued' /\ BindingStates' /\ ClaimHoldsCandidate'
        /\ RunGenerations' /\ EvidenceOfRun' /\ OneOutstandingOffer' /\ StartBoundOnce'
    BY <1>1, RowEvidence
  <1>5. RowsAgree'
    BY <1>1, <1>2 DEF RowInv, RowsAgree
  <1>6. CapacityHeldForRun'
    <2>1. \A j \in Items : run[j].phase = "Waiting" => node'[RunGrant(j)] = node[RunGrant(j)]
      BY <1>2, <1>3, RunBound
    <2>2. \A j \in Items : RunGrant(j)' = RunGrant(j)
      BY <1>1 DEF RunGrant
    <2> QED BY <1>1, <2>1, <2>2 DEF RowInv, CapacityHeldForRun
  <1> QED BY <1>4, <1>5, <1>6 DEF RowInv

LEMMA RowRelease ==
    ASSUME TypeOK, RowInv, NEW e \in evidence, ApplyRelease(e)
    PROVE  RowInv'
  <1> DEFINE g == e.grant
  <1>1. /\ g \in Grants /\ e.kind = "Release"
        /\ grant[g].state = "LeaseAttached" /\ node[g] = "LeaseAttached"
        /\ physical[g] = "Held"
        /\ grant'[g].state = IF logical[g] = "Released" THEN "Released" ELSE "LeaseAttached"
        /\ grant'[g].revision = grant[g].revision /\ grant'[g].fence = grant[g].fence
        /\ \A h \in Grants \ {g} : grant'[h] = grant[h]
        /\ node' = [node EXCEPT ![g] = "Released"]
        /\ physical' = [physical EXCEPT ![g] = "Released"]
        /\ UNCHANGED <<item, claim, run, evidence, logical>>
    BY ReleaseShape
  <1>2. /\ node'[g] = "Released" /\ physical'[g] = "Released"
        /\ \A h \in Grants \ {g} : node'[h] = node[h] /\ physical'[h] = physical[h]
    BY <1>1, Typed
  <1>3. \A j \in Items : RunGrant(j) = g => run[j].phase = "Reset"
    BY <1>1 DEF RowInv, EvidenceOfRun, RunGrant
  <1>4. grant[g].revision > 0
    BY <1>1 DEF RowInv, BindingStates
  <1> HIDE DEF g
  <1>5. /\ ItemGenerations' /\ GrantsIssued' /\ BindingStates' /\ ClaimHoldsCandidate'
        /\ RunGenerations' /\ EvidenceOfRun' /\ OneOutstandingOffer' /\ StartBoundOnce'
    BY <1>1, <1>4, RowEvidence
  <1>6. RowsAgree'
    BY <1>1, <1>2 DEF RowInv, RowsAgree
  <1>7. CapacityHeldForRun'
    <2>1. \A j \in Items : run[j].phase \notin {"Created", "Reset"} =>
             /\ node'[RunGrant(j)] = node[RunGrant(j)]
             /\ physical'[RunGrant(j)] = physical[RunGrant(j)]
      BY <1>2, <1>3, RunBound
    <2>2. \A j \in Items : RunGrant(j)' = RunGrant(j)
      BY <1>1 DEF RunGrant
    <2> QED BY <1>1, <2>1, <2>2 DEF RowInv, CapacityHeldForRun
  <1> QED BY <1>5, <1>6, <1>7 DEF RowInv

LEMMA RowEnd ==
    ASSUME TypeOK, RowInv, NEW i \in Items, NEW exact \in Exactness,
           FinishRun(i, exact) \/ ExecuteCancel(i, exact)
    PROVE  RowInv'
  <1> DEFINE g == RunGrant(i)
  <1> USE DEF RowInv
  <1>1. /\ g \in Grants /\ run[i].phase \in Live
        /\ run'[i].generation = run[i].generation
        /\ run'[i].phase = IF run[i].phase = "Leased" THEN "Fenced" ELSE "Ended"
        /\ \A j \in Items \ {i} : run'[j] = run[j]
        /\ evidence' \subseteq EvidenceRecord
        /\ \A e \in evidence' \ evidence :
              /\ e.grant = g
              /\ e.kind = "Fenced" \/ (e.kind = "NoLease" /\ run[i].phase # "Leased")
        /\ UNCHANGED <<item, grant, logical, node, physical, claim>>
    BY EndShape
  <1>2. /\ g[1] = i /\ g[2] = run[i].generation
        /\ \A j \in Items : RunGrant(j)' = RunGrant(j)
        /\ \A h \in Grants : h[1] \in Items
    BY <1>1, GrantPairs DEF RunGrant
  <1>3. Delivering' = Delivering /\ \A j \in Items : CurrentGrant(j)' = CurrentGrant(j)
    BY <1>1 DEF Delivering, CurrentGrant
  <1> HIDE DEF g
  <1>4. ItemGenerations' /\ ClaimHoldsCandidate' /\ GrantsIssued' /\ BindingStates' /\ RowsAgree'
    BY <1>1, <1>3 DEF ItemGenerations, ClaimHoldsCandidate, GrantsIssued, BindingStates, RowsAgree
  <1>5. RunGenerations'
    BY <1>1 DEF RunGenerations, Live
  <1>6. EvidenceOfRun'
    <2>1. ASSUME NEW e \in evidence', e.grant[1] = i
          PROVE  /\ run'[i].generation = e.grant[2]
                 /\ e.kind = "Fenced" => run'[i].phase \in {"Fenced", "Ended", "Reset"}
                 /\ e.kind = "NoLease" => run'[i].phase = "Ended"
                 /\ e.kind = "Release" => run'[i].phase = "Reset"
      <3>1. CASE e \in evidence
        <4>1. e.kind \in {"Fenced", "NoLease", "Release"}
          BY <2>1, <1>1 DEF EvidenceRecord
        <4> QED BY <1>1, <2>1, <3>1, <4>1 DEF EvidenceOfRun, Live
      <3>2. CASE e \notin evidence
        <4>1. e.grant = g /\ (e.kind = "Fenced" \/ (e.kind = "NoLease" /\ run[i].phase # "Leased"))
          BY <1>1, <2>1, <3>2
        <4> QED BY <1>1, <1>2, <4>1 DEF Live
      <3> QED BY <3>1, <3>2
    <2>2. ASSUME NEW e \in evidence', e.grant[1] # i
          PROVE  e \in evidence /\ e.grant[1] \in Items \ {i}
      BY <1>1, <1>2, <2>2 DEF EvidenceRecord
    <2> QED BY <1>1, <2>1, <2>2 DEF EvidenceOfRun
  <1>7. OneOutstandingOffer'
    BY <1>1, <1>3 DEF OneOutstandingOffer
  <1>8. StartBoundOnce'
    BY <1>1, <1>2 DEF StartBoundOnce, Live
  <1>9. CapacityHeldForRun'
    <2>1. run[i].phase = "Leased" => physical[g] = "Held"
      BY DEF CapacityHeldForRun, g
    <2>2. run[i].phase = "Waiting" => physical[g] = "None"
      <3> SUFFICES ASSUME run[i].phase = "Waiting" PROVE physical[g] = "None"
        OBVIOUS
      <3>1. node[g] = "Bound"
        BY DEF CapacityHeldForRun, g
      <3>2. grant[g].state \in GrantStates
        BY <1>1, Typed DEF GrantRecord
      <3> QED BY <1>1, <3>1, <3>2 DEF RowsAgree, GrantStates
    <2> QED BY <1>1, <1>2, <2>1, <2>2 DEF CapacityHeldForRun, Live, g
  <1> QED BY <1>4, <1>5, <1>6, <1>7, <1>8, <1>9

LEMMA RowReset ==
    ASSUME TypeOK, RowInv, NEW i \in Items, NEW exact \in Exactness, ResetSandbox(i, exact)
    PROVE  RowInv'
  <1> DEFINE g == RunGrant(i)
  <1> USE DEF RowInv
  <1>1. /\ g \in Grants /\ run[i].phase = "Fenced"
        /\ run'[i].generation = run[i].generation /\ run'[i].phase = "Reset"
        /\ \A j \in Items \ {i} : run'[j] = run[j]
        /\ evidence' \subseteq EvidenceRecord
        /\ \A e \in evidence' \ evidence : e.grant = g /\ e.kind = "Release"
        /\ UNCHANGED <<item, grant, logical, node, physical, claim>>
    BY ResetShape
  <1>2. /\ g[1] = i /\ g[2] = run[i].generation
        /\ \A j \in Items : RunGrant(j)' = RunGrant(j)
        /\ \A h \in Grants : h[1] \in Items
    BY <1>1, GrantPairs DEF RunGrant
  <1>3. Delivering' = Delivering /\ \A j \in Items : CurrentGrant(j)' = CurrentGrant(j)
    BY <1>1 DEF Delivering, CurrentGrant
  <1> HIDE DEF g
  <1>4. ItemGenerations' /\ ClaimHoldsCandidate' /\ GrantsIssued' /\ BindingStates' /\ RowsAgree'
    BY <1>1, <1>3 DEF ItemGenerations, ClaimHoldsCandidate, GrantsIssued, BindingStates, RowsAgree
  <1>5. RunGenerations'
    BY <1>1 DEF RunGenerations
  <1>6. EvidenceOfRun'
    <2>1. ASSUME NEW e \in evidence', e.grant[1] = i
          PROVE  /\ run'[i].generation = e.grant[2]
                 /\ e.kind = "NoLease" => run'[i].phase = "Ended"
      <3>1. CASE e \in evidence
        BY <1>1, <2>1, <3>1 DEF EvidenceOfRun
      <3>2. CASE e \notin evidence
        BY <1>1, <1>2, <2>1, <3>2
      <3> QED BY <3>1, <3>2
    <2>2. ASSUME NEW e \in evidence', e.grant[1] # i
          PROVE  e \in evidence /\ e.grant[1] \in Items \ {i}
      BY <1>1, <1>2, <2>2 DEF EvidenceRecord
    <2> QED BY <1>1, <2>1, <2>2 DEF EvidenceOfRun
  <1>7. OneOutstandingOffer'
    BY <1>1, <1>3 DEF OneOutstandingOffer
  <1>8. StartBoundOnce'
    BY <1>1, <1>2 DEF StartBoundOnce
  <1>9. CapacityHeldForRun'
    BY <1>1, <1>2 DEF CapacityHeldForRun, Live
  <1> QED BY <1>4, <1>5, <1>6, <1>7, <1>8, <1>9

-----------------------------------------------------------------------------
(* Occupancy: how many rows count. *)

LEMMA GrantSets ==
    /\ \A S \in SUBSET Grants : IsFiniteSet(S) /\ Cardinality(S) \in Nat
    /\ \A S, T \in SUBSET Grants : S \subseteq T => Cardinality(S) <= Cardinality(T)
    /\ \A S \in SUBSET Grants, g \in Grants :
          /\ Cardinality(S \cup {g}) <= Cardinality(S) + 1
          /\ g \in S => Cardinality(S \ {g}) = Cardinality(S) - 1
  <1>1. IsFiniteSet(Generations)
    BY SchedulerConstants, FS_Interval DEF Generations
  <1>2. IsFiniteSet(Grants)
    BY <1>1, SchedulerConstants, FS_Product DEF Grants
  <1>3. \A S \in SUBSET Grants : IsFiniteSet(S) /\ Cardinality(S) \in Nat
    BY <1>2, FS_Subset, FS_CardinalityType
  <1>4. \A S, T \in SUBSET Grants : S \subseteq T => Cardinality(S) <= Cardinality(T)
    BY <1>3, FS_Subset
  <1>5. ASSUME NEW S \in SUBSET Grants, NEW g \in Grants
        PROVE  /\ Cardinality(S \cup {g}) <= Cardinality(S) + 1
               /\ g \in S => Cardinality(S \ {g}) = Cardinality(S) - 1
    <2>1. IsFiniteSet(S) /\ Cardinality(S) \in Nat
      BY <1>3
    <2>2. Cardinality(S \cup {g}) = IF g \in S THEN Cardinality(S) ELSE Cardinality(S) + 1
      BY <2>1, FS_AddElement
    <2>3. Cardinality(S \ {g}) = IF g \in S THEN Cardinality(S) - 1 ELSE Cardinality(S)
      BY <2>1, FS_RemoveElement
    <2> QED BY <2>1, <2>2, <2>3
  <1> QED BY <1>3, <1>4, <1>5

\* A set that only lost members, or lost and gained at most one, is no larger
\* than it was, or larger by at most one.
LEMMA Counting1 ==
    ASSUME NEW S \in SUBSET Grants, NEW T \in SUBSET Grants, NEW g \in Grants,
           NEW limit \in Nat, T \subseteq S \cup {g}, Cardinality(S) < limit
    PROVE  Cardinality(T) <= limit
  <1>1. S \cup {g} \in SUBSET Grants
    OBVIOUS
  <1>2. Cardinality(T) <= Cardinality(S \cup {g})
    BY <1>1, GrantSets
  <1>3. Cardinality(S \cup {g}) <= Cardinality(S) + 1
    BY GrantSets
  <1>4. Cardinality(S) \in Nat /\ Cardinality(T) \in Nat /\ Cardinality(S \cup {g}) \in Nat
    BY <1>1, GrantSets
  <1> QED BY <1>2, <1>3, <1>4

LEMMA Counting0 ==
    ASSUME NEW S \in SUBSET Grants, NEW T \in SUBSET Grants, NEW limit \in Nat,
           T \subseteq S, Cardinality(S) <= limit
    PROVE  Cardinality(T) <= limit
  <1>1. Cardinality(S) \in Nat /\ Cardinality(T) \in Nat /\ Cardinality(T) <= Cardinality(S)
    BY GrantSets
  <1> QED BY <1>1

LEMMA CountersShrink ==
    ASSUME CountersWithinLimits, LogicalHolders' \subseteq LogicalHolders
    PROVE  CountersWithinLimits'
  <1>1. LogicalHolders \in SUBSET Grants /\ LogicalHolders' \in SUBSET Grants
    BY DEF LogicalHolders
  <1>2. /\ Cardinality(LogicalHolders') <= GlobalLimit
        /\ Cardinality(LogicalHolders') <= ResourceLimit
    BY <1>1, Counting0, SchedulerConstants DEF CountersWithinLimits
  <1>3. ASSUME NEW i \in Items
        PROVE  /\ Cardinality(WorkspaceHolders(Home[i])') <= WorkspaceLimit
               /\ Cardinality(ClassHolders(Class[i])') <= ClassLimit
    <2>1. /\ WorkspaceHolders(Home[i])' \in SUBSET Grants /\ WorkspaceHolders(Home[i]) \in SUBSET Grants
          /\ ClassHolders(Class[i])' \in SUBSET Grants /\ ClassHolders(Class[i]) \in SUBSET Grants
          /\ WorkspaceHolders(Home[i])' \subseteq WorkspaceHolders(Home[i])
          /\ ClassHolders(Class[i])' \subseteq ClassHolders(Class[i])
      BY <1>1 DEF WorkspaceHolders, ClassHolders
    <2>2. /\ Cardinality(WorkspaceHolders(Home[i])) <= WorkspaceLimit
          /\ Cardinality(ClassHolders(Class[i])) <= ClassLimit
      BY DEF CountersWithinLimits
    <2>3. WorkspaceLimit \in Nat /\ ClassLimit \in Nat
      BY SchedulerConstants
    <2>4. Cardinality(WorkspaceHolders(Home[i])') <= WorkspaceLimit
      BY <2>1, <2>2, <2>3, Counting0
    <2>5. Cardinality(ClassHolders(Class[i])') <= ClassLimit
      BY <2>1, <2>2, <2>3, Counting0
    <2> QED BY <2>4, <2>5
  <1> QED BY <1>2, <1>3 DEF CountersWithinLimits

\* One holder more than the others, under each of whose limits there was room.
LEMMA CountersGrow ==
    ASSUME CountersWithinLimits, NEW i \in Items, NEW g \in Grants, g[1] = i,
           NEW others \in SUBSET LogicalHolders,
           LogicalHolders' \subseteq others \cup {g},
           Cardinality(others) < GlobalLimit,
           Cardinality(others) < ResourceLimit,
           Cardinality({h \in others : Home[h[1]] = Home[i]}) < WorkspaceLimit,
           Cardinality({h \in others : Class[h[1]] = Class[i]}) < ClassLimit
    PROVE  CountersWithinLimits'
  <1>1. /\ LogicalHolders \in SUBSET Grants /\ LogicalHolders' \in SUBSET Grants
        /\ others \in SUBSET Grants
    BY DEF LogicalHolders
  <1>2. /\ Cardinality(LogicalHolders') <= GlobalLimit
        /\ Cardinality(LogicalHolders') <= ResourceLimit
    BY <1>1, Counting1, SchedulerConstants
  <1>3. WorkspaceLimit \in Nat /\ ClassLimit \in Nat
    BY SchedulerConstants
  <1>4. ASSUME NEW j \in Items
        PROVE  Cardinality(WorkspaceHolders(Home[j])') <= WorkspaceLimit
    <2> DEFINE S == {h \in others : Home[h[1]] = Home[i]}
               T == WorkspaceHolders(Home[j])'
    <2>1. T \in SUBSET Grants /\ S \in SUBSET Grants /\ Cardinality(S) < WorkspaceLimit
      BY <1>1 DEF WorkspaceHolders
    <2>2. CASE Home[j] = Home[i]
      <3>1. T \subseteq S \cup {g}
        BY <2>2 DEF WorkspaceHolders
      <3> HIDE DEF S, T
      <3>2. Cardinality(T) <= WorkspaceLimit
        BY <1>3, <2>1, <3>1, Counting1
      <3> QED BY <3>2 DEF T
    <2>3. CASE Home[j] # Home[i]
      <3>1. /\ T \subseteq WorkspaceHolders(Home[j])
            /\ WorkspaceHolders(Home[j]) \in SUBSET Grants
            /\ Cardinality(WorkspaceHolders(Home[j])) <= WorkspaceLimit
        BY <1>1, <2>3 DEF WorkspaceHolders, CountersWithinLimits
      <3> HIDE DEF S, T
      <3>2. Cardinality(T) <= WorkspaceLimit
        BY <1>3, <2>1, <3>1, Counting0
      <3> QED BY <3>2 DEF T
    <2> QED BY <2>2, <2>3
  <1>5. ASSUME NEW j \in Items
        PROVE  Cardinality(ClassHolders(Class[j])') <= ClassLimit
    <2> DEFINE S == {h \in others : Class[h[1]] = Class[i]}
               T == ClassHolders(Class[j])'
    <2>1. T \in SUBSET Grants /\ S \in SUBSET Grants /\ Cardinality(S) < ClassLimit
      BY <1>1 DEF ClassHolders
    <2>2. CASE Class[j] = Class[i]
      <3>1. T \subseteq S \cup {g}
        BY <2>2 DEF ClassHolders
      <3> HIDE DEF S, T
      <3>2. Cardinality(T) <= ClassLimit
        BY <1>3, <2>1, <3>1, Counting1
      <3> QED BY <3>2 DEF T
    <2>3. CASE Class[j] # Class[i]
      <3>1. /\ T \subseteq ClassHolders(Class[j])
            /\ ClassHolders(Class[j]) \in SUBSET Grants
            /\ Cardinality(ClassHolders(Class[j])) <= ClassLimit
        BY <1>1, <2>3 DEF ClassHolders, CountersWithinLimits
      <3> HIDE DEF S, T
      <3>2. Cardinality(T) <= ClassLimit
        BY <1>3, <2>1, <3>1, Counting0
      <3> QED BY <3>2 DEF T
    <2> QED BY <2>2, <2>3
  <1> QED BY <1>2, <1>4, <1>5 DEF CountersWithinLimits

LEMMA NodeShrinks ==
    ASSUME NodeNeverOversubscribed,
           NodeReservations' \subseteq NodeReservations, Held' \subseteq Held
    PROVE  NodeNeverOversubscribed'
  <1>1. /\ NodeReservations \in SUBSET Grants /\ Held \in SUBSET Grants
        /\ NodeReservations' \in SUBSET Grants /\ Held' \in SUBSET Grants
    BY DEF NodeReservations, Held
  <1>2. /\ Cardinality(NodeReservations') <= Cardinality(NodeReservations)
        /\ Cardinality(Held') <= Cardinality(Held)
    BY <1>1, GrantSets
  <1>3. /\ Cardinality(NodeReservations') \in Nat /\ Cardinality(NodeReservations) \in Nat
        /\ Cardinality(Held') \in Nat /\ Cardinality(Held) \in Nat /\ Slots \in Nat
    BY <1>1, GrantSets, SchedulerConstants
  <1> QED BY <1>2, <1>3 DEF NodeNeverOversubscribed

LEMMA NodeGrows ==
    ASSUME NEW g \in Grants, NEW others \in SUBSET Grants,
           NodeReservations' \subseteq others \cup {g}, Held' = Held,
           Cardinality(others) + Cardinality(Held) < Slots
    PROVE  NodeNeverOversubscribed'
  <1>1. /\ Held \in SUBSET Grants /\ NodeReservations' \in SUBSET Grants
        /\ others \cup {g} \in SUBSET Grants
    BY DEF NodeReservations, Held
  <1>2. /\ Cardinality(NodeReservations') <= Cardinality(others \cup {g})
        /\ Cardinality(others \cup {g}) <= Cardinality(others) + 1
    BY <1>1, GrantSets
  <1>3. /\ Cardinality(NodeReservations') \in Nat /\ Cardinality(others) \in Nat
        /\ Cardinality(others \cup {g}) \in Nat
        /\ Cardinality(Held) \in Nat /\ Slots \in Nat
    BY <1>1, GrantSets, SchedulerConstants
  <1> QED BY <1>2, <1>3 DEF NodeNeverOversubscribed

\* A lease turns the grant's reservation into an occupancy.
LEMMA NodeMoves ==
    ASSUME NodeNeverOversubscribed, NEW g \in NodeReservations,
           NodeReservations' \subseteq NodeReservations \ {g}, Held' \subseteq Held \cup {g}
    PROVE  NodeNeverOversubscribed'
  <1>1. /\ NodeReservations \in SUBSET Grants /\ Held \in SUBSET Grants
        /\ NodeReservations' \in SUBSET Grants /\ Held' \in SUBSET Grants
        /\ NodeReservations \ {g} \in SUBSET Grants /\ Held \cup {g} \in SUBSET Grants
        /\ g \in Grants
    BY DEF NodeReservations, Held
  <1>2. /\ Cardinality(NodeReservations') <= Cardinality(NodeReservations \ {g})
        /\ Cardinality(NodeReservations \ {g}) = Cardinality(NodeReservations) - 1
    BY <1>1, GrantSets
  <1>3. /\ Cardinality(Held') <= Cardinality(Held \cup {g})
        /\ Cardinality(Held \cup {g}) <= Cardinality(Held) + 1
    BY <1>1, GrantSets
  <1>4. /\ Cardinality(NodeReservations') \in Nat /\ Cardinality(NodeReservations) \in Nat
        /\ Cardinality(Held') \in Nat /\ Cardinality(Held) \in Nat /\ Slots \in Nat
        /\ Cardinality(Held \cup {g}) \in Nat
    BY <1>1, GrantSets, SchedulerConstants
  <1> QED BY <1>2, <1>3, <1>4 DEF NodeNeverOversubscribed

CountInv == NodeNeverOversubscribed /\ CountersWithinLimits

LEMMA CountFrame ==
    ASSUME CountInv, UNCHANGED <<logical, node, physical>>
    PROVE  CountInv'
  <1>1. LogicalHolders' = LogicalHolders /\ NodeReservations' = NodeReservations /\ Held' = Held
    BY DEF LogicalHolders, NodeReservations, Held
  <1> QED BY <1>1, CountersShrink, NodeShrinks DEF CountInv

LEMMA CountAdmit ==
    ASSUME TypeOK, RowInv, CountInv, NEW i \in Items, Admit(i)
    PROVE  CountInv'
  <1> DEFINE g == NextGrant(i)
  <1>1. g \in Grants /\ g[1] = i
    BY AdmitShape, GrantPairs DEF NextGrant
  <1>2. /\ RoomFor(i)
        /\ logical' = [logical EXCEPT ![g] = "ReservedUnbound"]
        /\ node' = [node EXCEPT ![g] = "ReservedUnbound"]
        /\ physical' = physical
    BY AdmitShape
  <1> HIDE DEF g
  <1>3. /\ LogicalHolders' \subseteq LogicalHolders \cup {g}
        /\ NodeReservations' \subseteq NodeReservations \cup {g} /\ Held' = Held
    BY <1>2, Typed DEF LogicalHolders, NodeReservations, Held
  <1>4. /\ Cardinality(LogicalHolders) < GlobalLimit
        /\ Cardinality(LogicalHolders) < ResourceLimit
        /\ Cardinality({h \in LogicalHolders : Home[h[1]] = Home[i]}) < WorkspaceLimit
        /\ Cardinality({h \in LogicalHolders : Class[h[1]] = Class[i]}) < ClassLimit
        /\ Cardinality(NodeReservations) + Cardinality(Held) < Slots
    BY <1>2 DEF RoomFor, WorkspaceHolders, ClassHolders
  <1>5. CountersWithinLimits'
    BY <1>1, <1>3, <1>4, CountersGrow DEF CountInv
  <1>6. NodeNeverOversubscribed'
    <2>1. NodeReservations \in SUBSET Grants
      BY DEF NodeReservations
    <2> QED BY <1>1, <1>3, <1>4, <2>1, NodeGrows
  <1> QED BY <1>5, <1>6 DEF CountInv

LEMMA CountReadmit ==
    ASSUME TypeOK, RowInv, CountInv, NEW i \in Items, Readmit(i)
    PROVE  CountInv'
  <1> DEFINE g == NextGrant(i)
             o == CurrentGrant(i)
             others == LogicalHolders \ {o}
  <1>1. /\ o \in Grants /\ g \in Grants /\ o # g
        /\ item[i].current = item[i].last /\ item[i] \in ItemRecord
    BY NextGrantOf, Typed
  <1>2. g[1] = i /\ item[i].current <= item[i].last
    BY <1>1 DEF NextGrant, ItemRecord
  <1>3. /\ RoomWithout(i, o)
        /\ grant[o].state = "ReservedUnbound"
        /\ logical' = [Expired(logical, o) EXCEPT ![g] = "ReservedUnbound"]
        /\ node' = [Expired(node, o) EXCEPT ![g] = "ReservedUnbound"]
        /\ physical' = physical
    BY <1>1, <1>2, ReadmitShape
  <1>4. logical[o] = "ReservedUnbound" /\ node[o] = "ReservedUnbound"
    BY <1>1, <1>3 DEF RowInv, RowsAgree
  <1>5. /\ Cardinality(others) < GlobalLimit
        /\ Cardinality(others) < ResourceLimit
        /\ Cardinality({h \in others : Home[h[1]] = Home[i]}) < WorkspaceLimit
        /\ Cardinality({h \in others : Class[h[1]] = Class[i]}) < ClassLimit
        /\ Cardinality(NodeReservations \ {o}) + Cardinality(Held) < Slots
    BY <1>3 DEF RoomWithout
  <1> HIDE DEF g, o
  <1>6. /\ \A h \in Grants \ {g, o} : logical'[h] = logical[h] /\ node'[h] = node[h]
        /\ logical'[o] = "Released" /\ node'[o] = "Released"
    BY <1>1, <1>3, <1>4, Typed DEF Expired
  <1>7. /\ LogicalHolders' \subseteq others \cup {g}
        /\ NodeReservations' \subseteq (NodeReservations \ {o}) \cup {g} /\ Held' = Held
    BY <1>3, <1>6 DEF LogicalHolders, NodeReservations, Held, Counting
  <1>8. /\ others \in SUBSET LogicalHolders
        /\ NodeReservations \ {o} \in SUBSET Grants
    BY DEF NodeReservations
  <1> HIDE DEF others
  <1>9. CountersWithinLimits'
    BY <1>1, <1>2, <1>5, <1>7, <1>8, CountersGrow DEF CountInv
  <1>10. NodeNeverOversubscribed'
    BY <1>1, <1>5, <1>7, <1>8, NodeGrows
  <1> QED BY <1>9, <1>10 DEF CountInv

LEMMA CountStart ==
    ASSUME TypeOK, RowInv, CountInv, NEW i \in Items, NEW n \in Generations,
           NEW t \in RecentTimes, StartRun(i, n, t)
    PROVE  CountInv'
  <1> DEFINE g == <<i, n>>
  <1>1. g \in Grants
    BY GrantPairs
  <1>2. /\ logical' = [logical EXCEPT ![g] = IF @ = "ReservedUnbound" THEN "Bound" ELSE @]
        /\ node' = [node EXCEPT ![g] = IF @ = "ReservedUnbound" THEN "Bound" ELSE @]
        /\ physical' = physical
    BY <1>1, StartShape
  <1> HIDE DEF g
  <1>3. /\ LogicalHolders' \subseteq LogicalHolders
        /\ NodeReservations' \subseteq NodeReservations /\ Held' = Held
    BY <1>1, <1>2, Typed DEF LogicalHolders, NodeReservations, Held, Counting
  <1> QED BY <1>3, CountersShrink, NodeShrinks DEF CountInv

LEMMA CountCommit ==
    ASSUME TypeOK, RowInv, CountInv, NEW i \in Items, NEW t \in RecentTimes, CommitLease(i, t)
    PROVE  CountInv'
  <1> DEFINE g == RunGrant(i)
  <1>1. /\ g \in Grants /\ node[g] = "Bound"
        /\ node' = [node EXCEPT ![g] = "LeaseAttached"]
        /\ physical' = [physical EXCEPT ![g] = "Held"]
        /\ logical' = logical
    BY CommitShape DEF RowInv
  <1> HIDE DEF g
  <1>2. /\ LogicalHolders' = LogicalHolders /\ g \in NodeReservations
        /\ NodeReservations' \subseteq NodeReservations \ {g} /\ Held' \subseteq Held \cup {g}
    BY <1>1, Typed DEF LogicalHolders, NodeReservations, Held, Counting
  <1> QED BY <1>2, CountersShrink, NodeMoves DEF CountInv

LEMMA CountEvidence ==
    ASSUME TypeOK, CountInv, NEW e \in evidence,
           ApplyFenced(e) \/ ApplyNoLease(e) \/ ApplyRelease(e)
    PROVE  CountInv'
  <1> DEFINE g == e.grant
  <1>1. CASE ApplyFenced(e)
    <2>1. /\ logical' = [logical EXCEPT ![g] = IF @ = "Bound" THEN "Released" ELSE @]
          /\ UNCHANGED <<node, physical>>
      BY <1>1, FencedShape
    <2> HIDE DEF g
    <2>2. /\ LogicalHolders' \subseteq LogicalHolders
          /\ NodeReservations' = NodeReservations /\ Held' = Held
      BY <2>1, Typed DEF LogicalHolders, NodeReservations, Held, Counting
    <2> QED BY <2>2, CountersShrink, NodeShrinks DEF CountInv
  <1>2. CASE ApplyNoLease(e)
    <2>1. node' = [node EXCEPT ![g] = "Released"] /\ UNCHANGED <<logical, physical>>
      BY <1>2, NoLeaseShape
    <2> HIDE DEF g
    <2>2. /\ LogicalHolders' = LogicalHolders
          /\ NodeReservations' \subseteq NodeReservations /\ Held' = Held
      BY <2>1, Typed DEF LogicalHolders, NodeReservations, Held, Counting
    <2> QED BY <2>2, CountersShrink, NodeShrinks DEF CountInv
  <1>3. CASE ApplyRelease(e)
    <2>1. /\ node' = [node EXCEPT ![g] = "Released"]
          /\ physical' = [physical EXCEPT ![g] = "Released"]
          /\ logical' = logical
      BY <1>3, ReleaseShape
    <2> HIDE DEF g
    <2>2. /\ LogicalHolders' = LogicalHolders
          /\ NodeReservations' \subseteq NodeReservations /\ Held' \subseteq Held
      BY <2>1, Typed DEF LogicalHolders, NodeReservations, Held, Counting
    <2> QED BY <2>2, CountersShrink, NodeShrinks DEF CountInv
  <1> QED BY <1>1, <1>2, <1>3

-----------------------------------------------------------------------------
(* The theorems. *)

\* IInv holds at the start: no item, grant, claim, run or evidence exists.
LEMMA InvInit == Init => IInv
  <1> SUFFICES ASSUME Init PROVE IInv
    OBVIOUS
  <1>1. TypeOK
    BY TypeInit
  <1>2. /\ \A i \in Items : item[i] = AbsentItem /\ run[i] = CreatedRun
        /\ \A g \in Grants : /\ grant[g] = AbsentGrant /\ logical[g] = "None"
                             /\ node[g] = "None" /\ physical[g] = "None"
                             /\ g[1] \in Items /\ g[2] \in Generations
        /\ claim = NoClaim /\ evidence = {}
    BY GrantPairs DEF Init, SchedulerInit
  <1>3. ItemGenerations /\ GrantsIssued /\ BindingStates /\ ClaimHoldsCandidate
    BY <1>2 DEF ItemGenerations, GrantsIssued, BindingStates, ClaimHoldsCandidate, AbsentItem,
                AbsentGrant, Generations
  <1>4. RunGenerations /\ EvidenceOfRun /\ RowsAgree
    BY <1>2 DEF RunGenerations, EvidenceOfRun, RowsAgree, CreatedRun, AbsentGrant
  <1>5. OneOutstandingOffer /\ StartBoundOnce /\ CapacityHeldForRun
    BY <1>2 DEF OneOutstandingOffer, StartBoundOnce, CapacityHeldForRun, Delivering, Live,
                AbsentItem, AbsentGrant, CreatedRun
  <1>6. LogicalHolders = {} /\ NodeReservations = {} /\ Held = {}
    BY <1>2 DEF LogicalHolders, NodeReservations, Held, Counting
  <1>7. \A w : WorkspaceHolders(w) = {} /\ ClassHolders(w) = {}
    BY <1>6 DEF WorkspaceHolders, ClassHolders
  <1>8. NodeNeverOversubscribed /\ CountersWithinLimits
    BY <1>6, <1>7, FS_EmptySet, SchedulerConstants
       DEF NodeNeverOversubscribed, CountersWithinLimits
  <1> QED BY <1>1, <1>3, <1>4, <1>5, <1>8 DEF IInv

LEMMA InvSteps == IInv /\ [Next]_vars => IInv'
<1> SUFFICES ASSUME TypeOK, RowInv, CountInv, [Next]_vars PROVE TypeOK' /\ RowInv' /\ CountInv'
  BY DEF IInv, RowInv, CountInv
<1>1. TypeOK'
  BY TypeSteps DEF RowInv
<1>2. ASSUME NEW i \in Items, EnqueueStart(i) PROVE RowInv' /\ CountInv'
  BY <1>2, RowEnqueue, CountFrame DEF EnqueueStart, Enqueue
<1>3. CASE \/ \E i \in Items : EnqueueCancellation(i) \/ ClaimCancellation(i)
           \/ AttestNode \/ QuarantineNode \/ AdvanceClock \/ UNCHANGED vars
  <2>1. UNCHANGED <<item, grant, logical, node, physical, run, evidence, claim>>
    BY <1>3 DEF EnqueueCancellation, EnqueueCancel, ClaimCancellation, AttestNode,
                QuarantineNode, AdvanceClock, Tick, vars, schedulerVars, tables, contractVars
  <2>2. RowInv'
    BY <2>1, RowFrame
  <2>3. UNCHANGED <<logical, node, physical>>
    BY <2>1
  <2>4. CountInv'
    BY <2>3, CountFrame
  <2> QED BY <1>1, <2>2, <2>4
<1>4. ASSUME NEW i \in Items, BeginClaim(i) PROVE RowInv' /\ CountInv'
  BY <1>4, RowBegin, CountFrame DEF BeginClaim, ClaimBegin, tables
<1>5. ASSUME NEW i \in Items, Redeliver(i) PROVE RowInv' /\ CountInv'
  BY <1>5, RowEndClaim, CountFrame DEF Redeliver, ClaimRedeliver, tables, contractVars
<1>6. ASSUME NEW i \in Items, Admit(i) PROVE RowInv' /\ CountInv'
  BY <1>6, RowAdmit, CountAdmit
<1>7. ASSUME NEW i \in Items, Readmit(i) PROVE RowInv' /\ CountInv'
  BY <1>7, RowReadmit, CountReadmit
<1>8. ASSUME NEW i \in Items, NEW exact \in Exactness,
             FinishRun(i, exact) \/ ExecuteCancel(i, exact)
      PROVE RowInv' /\ CountInv'
  <2>1. UNCHANGED <<logical, node, physical>>
    BY <1>8 DEF FinishRun, ExecuteCancel, schedulerVars, tables
  <2> QED BY <1>8, <2>1, RowEnd, CountFrame
<1>9. ASSUME NEW i \in Items, NEW n \in Generations, NEW t \in RecentTimes, StartRun(i, n, t)
      PROVE RowInv' /\ CountInv'
  BY <1>9, RowStart, CountStart
<1>10. ASSUME NEW i \in Items, ReviseRun(i) PROVE RowInv' /\ CountInv'
  BY <1>10, RowRevise, CountFrame DEF ReviseRun, schedulerVars, tables
<1>11. ASSUME NEW i \in Items, NEW t \in RecentTimes, CommitLease(i, t)
       PROVE RowInv' /\ CountInv'
  BY <1>11, RowCommit, CountCommit
<1>12. ASSUME NEW i \in Items, NEW exact \in Exactness, ResetSandbox(i, exact)
       PROVE RowInv' /\ CountInv'
  BY <1>12, RowReset, CountFrame DEF ResetSandbox, schedulerVars, tables
<1>13. ASSUME NEW e \in evidence, ApplyFenced(e) \/ ApplyNoLease(e) \/ ApplyRelease(e)
       PROVE RowInv' /\ CountInv'
  BY <1>13, RowFenced, RowNoLease, RowRelease, CountEvidence
<1>14. CASE RollbackClaim
  <2>1. /\ claim' = NoClaim
        /\ UNCHANGED <<item, grant, logical, node, physical, run, evidence>>
    BY <1>14 DEF RollbackClaim, ClaimRollback, tables, contractVars
  <2>2. RowInv'
    BY <2>1, RowEndClaim
  <2>3. CountInv'
    <3>1. UNCHANGED <<logical, node, physical>>
      BY <2>1
    <3> QED BY <3>1, CountFrame
  <2> QED BY <1>1, <2>2, <2>3
<1> QED
  BY <1>1, <1>2, <1>3, <1>4, <1>5, <1>6, <1>7, <1>8, <1>9, <1>10, <1>11, <1>12, <1>13, <1>14
     DEF Next, ClaimStep, CancelStep, RunStep, EvidenceStep, NodeStep

\* The invariant the Scheduler's tables and C03's runs keep together,
\* whatever the number of items, slots, limits and generations.
THEOREM InvariantHolds == Spec => []IInv
  <1>1. Init => IInv
    BY InvInit
  <1>2. IInv /\ [Next]_vars => IInv'
    BY InvSteps
  <1> QED BY <1>1, <1>2, PTL DEF Spec

\* Every variable keeps its type.
THEOREM TypeCorrect == Spec => []TypeOK
  <1>1. IInv => TypeOK
    BY DEF IInv
  <1> QED BY <1>1, InvariantHolds, PTL

\* The rows are well formed and agree, after any step of any transaction.
THEOREM AdmissionIsSound == Spec => []AdmissionInvariant
  <1>1. IInv => AdmissionInvariant
    BY DEF IInv, RowInv, AdmissionInvariant
  <1> QED BY <1>1, InvariantHolds, PTL

\* No limit of claim-and-admit is ever exceeded, however many slots and places.
THEOREM LimitsAlwaysKept == Spec => []LimitsKept
  <1>1. IInv => LimitsKept
    BY DEF IInv, CountInv, LimitsKept
  <1> QED BY <1>1, InvariantHolds, PTL

\* ClaimAndAdmit never lets reservations and occupancies together exceed the
\* configured node's slots.
THEOREM NodeIsBounded == Spec => []NodeNeverOversubscribed
  <1>1. IInv => NodeNeverOversubscribed
    BY DEF IInv
  <1> QED BY <1>1, InvariantHolds, PTL

\* No counter of the site, a workspace, a class or the resource class exceeds
\* its limit.
THEOREM CountersAreBounded == Spec => []CountersWithinLimits
  <1>1. IInv => CountersWithinLimits
    BY DEF IInv
  <1> QED BY <1>1, InvariantHolds, PTL

\* One offer is out for delivery at a time, and it is its item's current one.
THEOREM OffersAreSingle == Spec => []OneOutstandingOffer
  <1>1. IInv => OneOutstandingOffer
    BY DEF IInv
  <1> QED BY <1>1, InvariantHolds, PTL

\* The start that C03 accepted and the one grant the Scheduler bound agree.
THEOREM StartsAreBoundOnce == Spec => []StartBoundOnce
  <1>1. IInv => StartBoundOnce
    BY DEF IInv
  <1> QED BY <1>1, InvariantHolds, PTL

\* No evidence, in whatever order and however often it is applied, frees what
\* a run still holds.
THEOREM CapacityIsHeld == Spec => []CapacityHeldForRun
  <1>1. IInv => CapacityHeldForRun
    BY DEF IInv
  <1> QED BY <1>1, InvariantHolds, PTL

\* A grant's state says which states its rows may be in.
THEOREM RowsAlwaysAgree == Spec => []RowsAgree
  <1>1. IInv => RowsAgree
    BY DEF IInv
  <1> QED BY <1>1, InvariantHolds, PTL

-----------------------------------------------------------------------------
(* What was released stays released. *)

\* ReleaseIsFinal for one grant and one step.
Kept(h) ==
    /\ logical[h] = "Released" => logical'[h] = "Released"
    /\ node[h] = "Released" => node'[h] = "Released"
    /\ physical[h] = "Released" => physical'[h] = "Released"
    /\ grant[h].terminal # 0 => grant'[h].terminal = grant[h].terminal

LEMMA KeptSteps ==
    ASSUME TypeOK, RowInv, [Next]_vars, NEW h \in Grants
    PROVE  Kept(h)
<1>1. ASSUME UNCHANGED <<grant, logical, node, physical>> PROVE Kept(h)
  BY <1>1 DEF Kept
<1>2. CASE \/ \E i \in Items : \/ EnqueueStart(i) \/ EnqueueCancellation(i)
                               \/ BeginClaim(i) \/ Redeliver(i) \/ ClaimCancellation(i)
                               \/ ReviseRun(i)
           \/ \E i \in Items, exact \in Exactness :
                 FinishRun(i, exact) \/ ExecuteCancel(i, exact) \/ ResetSandbox(i, exact)
           \/ RollbackClaim \/ AttestNode \/ QuarantineNode \/ AdvanceClock
           \/ UNCHANGED vars
  <2>1. UNCHANGED <<grant, logical, node, physical>>
    BY <1>2 DEF EnqueueStart, Enqueue, EnqueueCancellation, EnqueueCancel, BeginClaim,
                ClaimBegin, Redeliver, ClaimRedeliver, ClaimCancellation, ReviseRun,
                FinishRun, ExecuteCancel, ResetSandbox, RollbackClaim, ClaimRollback,
                AttestNode, QuarantineNode, AdvanceClock, Tick, vars, schedulerVars, tables
  <2> QED BY <1>1, <2>1
<1>3. ASSUME NEW i \in Items, Admit(i) PROVE Kept(h)
  <2> DEFINE g == NextGrant(i)
  <2>1. g \in Grants /\ grant[g].state = "None"
    BY <1>3, AdmitShape, FirstGrant
  <2>2. logical[g] = "None" /\ node[g] = "None"
    BY <2>1 DEF RowInv, RowsAgree
  <2>3. /\ logical' = [logical EXCEPT ![g] = "ReservedUnbound"]
        /\ node' = [node EXCEPT ![g] = "ReservedUnbound"]
        /\ physical' = physical
        /\ grant'[h].terminal = grant[h].terminal
    BY <1>3, AdmitShape DEF SameBinding
  <2> HIDE DEF g
  <2> QED BY <2>2, <2>3, Typed DEF Kept
<1>4. ASSUME NEW i \in Items, Readmit(i) PROVE Kept(h)
  <2> DEFINE g == NextGrant(i)
             o == CurrentGrant(i)
  <2>1. /\ g \in Grants /\ o \in Grants /\ grant[g].state = "None"
        /\ item[i].current = item[i].last /\ item[i] \in ItemRecord
    BY <1>4, NextGrantOf, Typed
  <2>2. logical[g] = "None" /\ node[g] = "None"
    BY <2>1 DEF RowInv, RowsAgree
  <2>3. item[i].current <= item[i].last
    BY <2>1 DEF ItemRecord
  <2>4. /\ logical' = [Expired(logical, o) EXCEPT ![g] = "ReservedUnbound"]
        /\ node' = [Expired(node, o) EXCEPT ![g] = "ReservedUnbound"]
        /\ physical' = physical
        /\ grant'[h].terminal = grant[h].terminal
    BY <1>4, <2>1, <2>3, ReadmitShape DEF SameBinding, contractVars
  <2> HIDE DEF g, o
  <2> QED BY <2>2, <2>4, Typed DEF Kept, Expired
<1>5. ASSUME NEW i \in Items, NEW n \in Generations, NEW t \in RecentTimes, StartRun(i, n, t)
      PROVE  Kept(h)
  <2> DEFINE g == <<i, n>>
  <2>1. g \in Grants
    BY GrantPairs
  <2>2. /\ logical' = [logical EXCEPT ![g] = IF @ = "ReservedUnbound" THEN "Bound" ELSE @]
        /\ node' = [node EXCEPT ![g] = IF @ = "ReservedUnbound" THEN "Bound" ELSE @]
        /\ physical' = physical
    BY <1>5, <2>1, StartShape
  <2>3. grant'[h].terminal = grant[h].terminal
    <3>1. grant' = [grant EXCEPT
                      ![g] = [@ EXCEPT !.state = "Bound", !.revision = 2, !.fence = 2,
                                       !.leaseBy = Earlier(grant[g].expires, Deadline[i])]]
      BY <1>5 DEF StartRun, AcceptRuntimeStart
    <3> QED BY <2>1, <3>1, Typed DEF GrantRecord
  <2> HIDE DEF g
  <2> QED BY <2>1, <2>2, <2>3, Typed DEF Kept
<1>6. ASSUME NEW i \in Items, NEW t \in RecentTimes, CommitLease(i, t) PROVE Kept(h)
  <2> DEFINE g == RunGrant(i)
  <2>1. /\ g \in Grants /\ grant[g].state = "Bound" /\ node[g] = "Bound"
        /\ node' = [node EXCEPT ![g] = "LeaseAttached"]
        /\ physical' = [physical EXCEPT ![g] = "Held"]
        /\ logical' = logical
    BY <1>6, CommitShape DEF RowInv
  <2>2. physical[g] = "None"
    BY <2>1 DEF RowInv, RowsAgree
  <2>3. grant'[h].terminal = grant[h].terminal
    <3>1. grant' = [grant EXCEPT ![g].state = "LeaseAttached"]
      BY <1>6 DEF CommitLease, AttachRuntimeLease
    <3> QED BY <2>1, <3>1, Typed DEF GrantRecord
  <2> HIDE DEF g
  <2> QED BY <2>1, <2>2, <2>3, Typed DEF Kept
<1>7. ASSUME NEW e \in evidence, ApplyFenced(e) PROVE Kept(h)
  <2> DEFINE g == e.grant
  <2>1. /\ g \in Grants
        /\ logical' = [logical EXCEPT ![g] = IF @ = "Bound" THEN "Released" ELSE @]
        /\ grant[g].terminal \in {0, e.revision} /\ grant'[g].terminal = e.revision
        /\ \A k \in Grants \ {g} : grant'[k] = grant[k]
        /\ UNCHANGED <<node, physical>>
    BY <1>7, FencedShape
  <2> HIDE DEF g
  <2> QED BY <2>1, Typed DEF Kept
<1>8. ASSUME NEW e \in evidence, ApplyNoLease(e) PROVE Kept(h)
  <2> DEFINE g == e.grant
  <2>1. /\ g \in Grants
        /\ node' = [node EXCEPT ![g] = "Released"]
        /\ grant[g].terminal \in {0, e.revision} /\ grant'[g].terminal = e.revision
        /\ \A k \in Grants \ {g} : grant'[k] = grant[k]
        /\ UNCHANGED <<logical, physical>>
    BY <1>8, NoLeaseShape
  <2> HIDE DEF g
  <2> QED BY <2>1, Typed DEF Kept
<1>9. ASSUME NEW e \in evidence, ApplyRelease(e) PROVE Kept(h)
  <2> DEFINE g == e.grant
  <2>1. /\ g \in Grants
        /\ node' = [node EXCEPT ![g] = "Released"]
        /\ physical' = [physical EXCEPT ![g] = "Released"]
        /\ grant'[g].terminal = grant[g].terminal
        /\ \A k \in Grants \ {g} : grant'[k] = grant[k]
        /\ logical' = logical
    BY <1>9, ReleaseShape
  <2> HIDE DEF g
  <2> QED BY <2>1, Typed DEF Kept
<1> QED
  BY <1>2, <1>3, <1>4, <1>5, <1>6, <1>7, <1>8, <1>9
     DEF Next, ClaimStep, CancelStep, RunStep, EvidenceStep, NodeStep

\* Applying evidence late, twice or out of order takes nothing back that was
\* released and replaces no terminal decision.
THEOREM ReleasesAreFinal == Spec => ReleaseIsFinal
  <1>1. IInv /\ [Next]_vars =>
          [\A g \in Grants :
              /\ logical[g] = "Released" => logical'[g] = "Released"
              /\ node[g] = "Released" => node'[g] = "Released"
              /\ physical[g] = "Released" => physical'[g] = "Released"
              /\ grant[g].terminal # 0 => grant'[g].terminal = grant[g].terminal]_vars
    BY KeptSteps DEF IInv, RowInv, Kept
  <1> QED BY <1>1, InvariantHolds, PTL DEF Spec, ReleaseIsFinal

-----------------------------------------------------------------------------
(***************************************************************************)
(* The refinement.  What the ledger sees of the tables and of C03's runs.  *)
(***************************************************************************)
Issued == {g \in Grants : grant[g].state # "None"}
Placed == NodeReservations \cup Held
BoundTo == {g \in Grants : grant[g].revision > 0}
Over == RunsIn({"Fenced", "Ended", "Reset"})
Empty == RunsIn({"Ended", "Reset"})

\* The ledger's five sets and the grants issued, unchanged.
LEMMA LedgerStutters ==
    ASSUME Issued' = Issued, LogicalHolders' = LogicalHolders, Placed' = Placed,
           BoundTo' = BoundTo, Over' = Over, Empty' = Empty
    PROVE  UNCHANGED Ledger!vars
  BY DEF Ledger!vars, Issued, Placed, BoundTo, Over, Empty

\* Places on the node: reservations and occupancies together.
PlacesKept == Cardinality(Placed) <= Slots

LEMMA PlacesFit == NodeNeverOversubscribed => PlacesKept
  <1> SUFFICES ASSUME NodeNeverOversubscribed PROVE Cardinality(Placed) <= Slots
    BY DEF PlacesKept
  <1>1. /\ NodeReservations \in SUBSET Grants /\ Held \in SUBSET Grants
        /\ NodeReservations \cap Held \in SUBSET Grants
    BY DEF NodeReservations, Held
  <1>2. /\ IsFiniteSet(NodeReservations) /\ IsFiniteSet(Held)
        /\ Cardinality(NodeReservations) \in Nat /\ Cardinality(Held) \in Nat
        /\ Cardinality(NodeReservations \cap Held) \in Nat
    BY <1>1, GrantSets
  <1>3. Cardinality(Placed)
           = Cardinality(NodeReservations) + Cardinality(Held) - Cardinality(NodeReservations \cap Held)
    BY <1>2, FS_Union DEF Placed
  <1> QED BY <1>2, <1>3, SchedulerConstants DEF NodeNeverOversubscribed

\* The ledger counts as the Scheduler does.
LEMMA SameCount == \A S : Ledger!Cardinality(S) = Cardinality(S)
  BY DEF Ledger!Cardinality, Cardinality

\* The counters of a grant are the site's, its resource class's, its personal
\* workspace's and its worker class's: each counts what the limits bound.
LEMMA LimitsOfLedger == CountersWithinLimits => Ledger!WithinLimits(LogicalHolders)
  <1> SUFFICES ASSUME CountersWithinLimits PROVE Ledger!WithinLimits(LogicalHolders)
    OBVIOUS
  <1> DEFINE Keys(g) == {<<"site">>, <<"resource">>, <<"workspace", Home[g[1]]>>,
                         <<"class", Class[g[1]]>>}
             Counted == [g \in Grants |-> Keys(g)]
             Under(c) == {g \in LogicalHolders : c \in Counted[g]}
  <1>1. LogicalHolders \in SUBSET Grants
    BY DEF LogicalHolders
  <1>2. ASSUME NEW c \in CounterKeys
        PROVE  Cardinality(Under(c)) <= CounterLimit(c)
    <2>1. Under(c) \in SUBSET Grants
      BY <1>1
    <2>2. CASE c = <<"site">>
      <3>1. CounterLimit(c) = GlobalLimit
        BY <2>2 DEF CounterLimit
      <3>2. Under(c) \subseteq LogicalHolders
        OBVIOUS
      <3> HIDE DEF Under
      <3>3. Cardinality(Under(c)) <= GlobalLimit
        BY <1>1, <2>1, <3>2, Counting0, SchedulerConstants DEF CountersWithinLimits
      <3> QED BY <3>1, <3>3
    <2>3. CASE c = <<"resource">>
      <3>1. CounterLimit(c) = ResourceLimit
        BY <2>3 DEF CounterLimit
      <3>2. Under(c) \subseteq LogicalHolders
        OBVIOUS
      <3> HIDE DEF Under
      <3>3. Cardinality(Under(c)) <= ResourceLimit
        BY <1>1, <2>1, <3>2, Counting0, SchedulerConstants DEF CountersWithinLimits
      <3> QED BY <3>1, <3>3
    <2>4. ASSUME NEW i \in Items, c = <<"workspace", Home[i]>>
          PROVE  Cardinality(Under(c)) <= CounterLimit(c)
      <3>1. CounterLimit(c) = WorkspaceLimit
        BY <2>4 DEF CounterLimit
      <3>2. \A g \in Grants : c \in Keys(g) => Home[g[1]] = Home[i]
        BY <2>4
      <3>3. Under(c) \subseteq WorkspaceHolders(Home[i])
        BY <1>1, <3>2 DEF WorkspaceHolders
      <3>4. /\ WorkspaceHolders(Home[i]) \in SUBSET Grants
            /\ Cardinality(WorkspaceHolders(Home[i])) <= WorkspaceLimit
        BY <1>1 DEF WorkspaceHolders, CountersWithinLimits
      <3> HIDE DEF Under
      <3>5. Cardinality(Under(c)) <= WorkspaceLimit
        BY <2>1, <3>3, <3>4, Counting0, SchedulerConstants
      <3> QED BY <3>1, <3>5
    <2>5. ASSUME NEW i \in Items, c = <<"class", Class[i]>>
          PROVE  Cardinality(Under(c)) <= CounterLimit(c)
      <3>1. CounterLimit(c) = ClassLimit
        BY <2>5 DEF CounterLimit
      <3>2. \A g \in Grants : c \in Keys(g) => Class[g[1]] = Class[i]
        BY <2>5
      <3>3. Under(c) \subseteq ClassHolders(Class[i])
        BY <1>1, <3>2 DEF ClassHolders
      <3>4. /\ ClassHolders(Class[i]) \in SUBSET Grants
            /\ Cardinality(ClassHolders(Class[i])) <= ClassLimit
        BY <1>1 DEF ClassHolders, CountersWithinLimits
      <3> HIDE DEF Under
      <3>5. Cardinality(Under(c)) <= ClassLimit
        BY <2>1, <3>3, <3>4, Counting0, SchedulerConstants
      <3> QED BY <3>1, <3>5
    <2> QED BY <2>2, <2>3, <2>4, <2>5 DEF CounterKeys
  <1>3. ASSUME NEW c \in CounterKeys
        PROVE  Cardinality(Under(c)) <= [d \in CounterKeys |-> CounterLimit(d)][c]
    <2> HIDE DEF Under
    <2> QED BY <1>2
  <1>4. ASSUME NEW c \in CounterKeys
        PROVE  Ledger!Cardinality(Under(c)) <= [d \in CounterKeys |-> CounterLimit(d)][c]
    <2> HIDE DEF Under
    <2> QED BY <1>3, SameCount
  <1> QED BY <1>4 DEF Ledger!WithinLimits

\* Before anything was enqueued the ledger is empty.
LEMMA LedgerStarts == Init => Ledger!Init
  <1> SUFFICES ASSUME Init PROVE Ledger!Init
    OBVIOUS
  <1>1. /\ \A i \in Items : run[i].phase = "Created"
        /\ \A g \in Grants : /\ grant[g].state = "None" /\ grant[g].revision = 0
                             /\ logical[g] = "None" /\ node[g] = "None" /\ physical[g] = "None"
                             /\ g[1] \in Items
    BY GrantPairs DEF Init, SchedulerInit, AbsentGrant, CreatedRun
  <1>2. Issued = {} /\ LogicalHolders = {} /\ Placed = {} /\ BoundTo = {}
    BY <1>1 DEF Issued, LogicalHolders, Placed, NodeReservations, Held, BoundTo, Counting
  <1>3. Over = {} /\ Empty = {}
    BY <1>1 DEF Over, Empty, RunsIn
  <1> QED BY <1>2, <1>3 DEF Ledger!Init, Issued, Placed, BoundTo, Over, Empty

\* The ledger's sets of runs move with the phase of a run only.
LEMMA RunsStay ==
    ASSUME UNCHANGED run
    PROVE  Over' = Over /\ Empty' = Empty
  BY DEF Over, Empty, RunsIn

\* An admission issues the first grant of its item.
LEMMA LedgerAdmit ==
    ASSUME TypeOK, RowInv, CountInv, NEW i \in Items, Admit(i)
    PROVE  Ledger!Next
  <1> DEFINE g == NextGrant(i)
  <1>1. /\ g \in Grants /\ grant[g].state = "None" /\ physical[g] = "None"
        /\ grant'[g].state = "ReservedUnbound" /\ grant'[g].revision = grant[g].revision
        /\ \A h \in Grants \ {g} : grant'[h] = grant[h]
        /\ logical' = [logical EXCEPT ![g] = "ReservedUnbound"]
        /\ node' = [node EXCEPT ![g] = "ReservedUnbound"]
        /\ physical' = physical /\ run' = run
    BY FirstGrant, AdmitShape DEF SameBinding, contractVars
  <1>2. /\ LogicalHolders' \in SUBSET Grants /\ CountInv'
        /\ Over' = Over /\ Empty' = Empty
    BY <1>1, CountAdmit, RunsStay DEF LogicalHolders
  <1> HIDE DEF g
  <1>3. /\ Issued' = Issued \cup {g} /\ g \notin Issued
        /\ LogicalHolders' = (LogicalHolders \ {}) \cup {g}
        /\ Placed' = (Placed \ {}) \cup {g}
        /\ BoundTo' = BoundTo
    BY <1>1, Typed DEF Issued, LogicalHolders, Placed, NodeReservations, Held, BoundTo, Counting
  <1>4. Ledger!WithinLimits(LogicalHolders)' /\ Ledger!Cardinality(Placed') <= Slots
    <2>1. CountersWithinLimits' => Ledger!WithinLimits(LogicalHolders)'
      BY LimitsOfLedger, PTL
    <2>2. NodeNeverOversubscribed' => PlacesKept'
      BY PlacesFit, PTL
    <2> QED BY <1>2, <2>1, <2>2, SameCount DEF CountInv, PlacesKept
  <1>5. Ledger!Issue(g, {})
    BY <1>2, <1>3, <1>4
       DEF Ledger!Issue, Issued, Placed, BoundTo, Over, Empty, Ledger!WithinLimits
  <1> QED BY <1>1, <1>5 DEF Ledger!Next
\* A re-admission issues the next grant; the expired one passes its places on.
LEMMA LedgerReadmit ==
    ASSUME TypeOK, RowInv, CountInv, NEW i \in Items, Readmit(i)
    PROVE  Ledger!Next
  <1> DEFINE g == NextGrant(i)
             o == CurrentGrant(i)
  <1>1. /\ o \in Grants /\ g \in Grants /\ o # g /\ grant[g].state = "None"
        /\ item[i].current = item[i].last /\ item[i] \in ItemRecord
    BY NextGrantOf, Typed
  <1>2. item[i].current <= item[i].last
    BY <1>1 DEF ItemRecord
  <1>3. /\ grant[o].state = "ReservedUnbound"
        /\ grant'[g].state = "ReservedUnbound" /\ grant'[o].state = "ExpiredUnbound"
        /\ grant'[g].revision = grant[g].revision /\ grant'[o].revision = grant[o].revision
        /\ \A h \in Grants \ {g, o} : grant'[h] = grant[h]
        /\ logical' = [Expired(logical, o) EXCEPT ![g] = "ReservedUnbound"]
        /\ node' = [Expired(node, o) EXCEPT ![g] = "ReservedUnbound"]
        /\ physical' = physical /\ run' = run
    BY <1>1, <1>2, ReadmitShape DEF SameBinding, contractVars
  <1>4. /\ logical[o] = "ReservedUnbound" /\ node[o] = "ReservedUnbound" /\ physical[o] = "None"
        /\ physical[g] = "None"
        /\ ~(grant[o].revision > 0)
    BY <1>1, <1>3 DEF RowInv, RowsAgree, BindingStates
  <1>5. /\ LogicalHolders' \in SUBSET Grants /\ CountInv'
        /\ Over' = Over /\ Empty' = Empty
    BY <1>3, CountReadmit, RunsStay DEF LogicalHolders
  <1> HIDE DEF g, o
  <1>6. /\ \A h \in Grants \ {g, o} : logical'[h] = logical[h] /\ node'[h] = node[h]
        /\ logical'[o] = "Released" /\ node'[o] = "Released"
        /\ logical'[g] = "ReservedUnbound" /\ node'[g] = "ReservedUnbound"
    BY <1>1, <1>3, <1>4, Typed DEF Expired
  <1>7. /\ Issued' = Issued \cup {g} /\ g \notin Issued /\ o \in Issued
        /\ BoundTo' = BoundTo /\ o \notin BoundTo
    BY <1>1, <1>3, <1>4 DEF Issued, BoundTo
  <1>8. /\ LogicalHolders' = (LogicalHolders \ {o}) \cup {g} /\ o \in LogicalHolders
        /\ Placed' = (Placed \ {o}) \cup {g} /\ o \in Placed
    BY <1>1, <1>3, <1>4, <1>6 DEF LogicalHolders, Placed, NodeReservations, Held, Counting
  <1>9. Ledger!WithinLimits(LogicalHolders)' /\ Ledger!Cardinality(Placed') <= Slots
    <2>1. CountersWithinLimits' => Ledger!WithinLimits(LogicalHolders)'
      BY LimitsOfLedger, PTL
    <2>2. NodeNeverOversubscribed' => PlacesKept'
      BY PlacesFit, PTL
    <2> QED BY <1>5, <2>1, <2>2, SameCount DEF CountInv, PlacesKept
  <1>10. PICK lapsed \in SUBSET Grants : lapsed = {o}
    BY <1>1
  <1>11. Ledger!Issue(g, lapsed)
    BY <1>5, <1>7, <1>8, <1>9, <1>10
       DEF Ledger!Issue, Issued, Placed, BoundTo, Over, Empty, Ledger!WithinLimits
  <1> QED BY <1>1, <1>10, <1>11 DEF Ledger!Next

\* Accepting a start binds the grant it presents.
LEMMA LedgerStart ==
    ASSUME TypeOK, RowInv, NEW i \in Items, NEW n \in Generations,
           NEW t \in RecentTimes, StartRun(i, n, t)
    PROVE  Ledger!Next
  <1> DEFINE g == <<i, n>>
  <1>1. g \in Grants /\ g[1] = i /\ g[2] = n /\ \A h \in Grants : h[1] \in Items
    BY GrantPairs
  <1>2. /\ run[i].phase = "Created" /\ grant[g].state = "ReservedUnbound"
        /\ grant'[g].state = "Bound" /\ grant'[g].revision = 2
        /\ \A h \in Grants \ {g} : grant'[h] = grant[h]
        /\ logical' = [logical EXCEPT ![g] = IF @ = "ReservedUnbound" THEN "Bound" ELSE @]
        /\ node' = [node EXCEPT ![g] = IF @ = "ReservedUnbound" THEN "Bound" ELSE @]
        /\ physical' = physical
        /\ run'[i].phase = "Waiting"
        /\ \A j \in Items \ {i} : run'[j] = run[j]
    BY <1>1, StartShape
  <1>3. /\ logical[g] = "ReservedUnbound" /\ node[g] = "ReservedUnbound"
        /\ ~(grant[g].revision > 0)
    BY <1>1, <1>2 DEF RowInv, RowsAgree, BindingStates
  <1>4. Over' = Over /\ Empty' = Empty
    BY <1>1, <1>2 DEF Over, Empty, RunsIn
  <1> HIDE DEF g
  <1>5. /\ Issued' = Issued /\ BoundTo' = BoundTo \cup {g} /\ g \notin BoundTo
    BY <1>1, <1>2, <1>3 DEF Issued, BoundTo
  <1>6. /\ LogicalHolders' = LogicalHolders /\ g \in LogicalHolders
        /\ Placed' = Placed /\ g \in Placed
    BY <1>1, <1>2, <1>3, Typed DEF LogicalHolders, Placed, NodeReservations, Held, Counting
  <1>7. Ledger!Bind(g)
    BY <1>4, <1>5, <1>6 DEF Ledger!Bind, Issued, Placed, BoundTo, Over, Empty
  <1> QED BY <1>1, <1>7 DEF Ledger!Next

\* A lease turns the reservation into an occupancy: the place is the same.
LEMMA LedgerCommit ==
    ASSUME TypeOK, RowInv, NEW i \in Items, NEW t \in RecentTimes, CommitLease(i, t)
    PROVE  UNCHANGED Ledger!vars
  <1> DEFINE g == RunGrant(i)
  <1>1. /\ g \in Grants /\ run[i].phase = "Waiting"
        /\ grant[g].state = "Bound" /\ node[g] = "Bound"
        /\ grant'[g].state = "LeaseAttached" /\ grant'[g].revision = grant[g].revision
        /\ \A h \in Grants \ {g} : grant'[h] = grant[h]
        /\ node' = [node EXCEPT ![g] = "LeaseAttached"]
        /\ physical' = [physical EXCEPT ![g] = "Held"]
        /\ run'[i].phase = "Leased" /\ run'[i].generation = run[i].generation
        /\ \A j \in Items \ {i} : run'[j] = run[j]
        /\ logical' = logical
    BY CommitShape DEF RowInv
  <1>2. \A h \in Grants : h[1] \in Items
    BY GrantPairs
  <1>3. Over' = Over /\ Empty' = Empty
    BY <1>1, <1>2 DEF Over, Empty, RunsIn
  <1> HIDE DEF g
  <1>4. Issued' = Issued /\ BoundTo' = BoundTo /\ LogicalHolders' = LogicalHolders
    BY <1>1 DEF Issued, BoundTo, LogicalHolders
  <1>5. Placed' = Placed
    BY <1>1, Typed DEF Placed, NodeReservations, Held, Counting
  <1> QED BY <1>3, <1>4, <1>5, LedgerStutters

\* A terminal decision ends the run of a bound grant; without a lease nothing
\* of it was ever on the node.
LEMMA LedgerEnd ==
    ASSUME TypeOK, RowInv, NEW i \in Items, NEW exact \in Exactness,
           FinishRun(i, exact) \/ ExecuteCancel(i, exact)
    PROVE  Ledger!Next
  <1> DEFINE g == RunGrant(i)
             unplaced == run[i].phase # "Leased"
  <1>1. /\ g \in Grants /\ run[i].phase \in Live
        /\ run'[i].generation = run[i].generation
        /\ run'[i].phase = IF run[i].phase = "Leased" THEN "Fenced" ELSE "Ended"
        /\ \A j \in Items \ {i} : run'[j] = run[j]
        /\ UNCHANGED <<grant, logical, node, physical>>
    BY EndShape DEF RowInv
  <1>2. /\ g[1] = i /\ g[2] = run[i].generation /\ grant[g].revision = 2
    BY <1>1, RunBound DEF Live
  <1>3. \A h \in Grants : /\ h[1] \in Items
                          /\ h[1] = i /\ h[2] = run[i].generation <=> h = g
    BY <1>2, GrantPairs DEF RunGrant
  <1> HIDE DEF g
  <1>4. /\ Over' = Over \cup {g} /\ g \notin Over
        /\ Empty' = IF unplaced THEN Empty \cup {g} ELSE Empty
    <2>1. \A h \in Grants \ {g} : h[1] = i => run[i].generation # h[2]
      BY <1>3
    <2>2. g \in Over' /\ g \notin Over /\ (g \in Empty' <=> unplaced) /\ g \notin Empty
      BY <1>1, <1>2 DEF Over, Empty, RunsIn, Live
    <2>3. \A h \in Grants \ {g} : (h \in Over' <=> h \in Over) /\ (h \in Empty' <=> h \in Empty)
      BY <1>1, <1>3, <2>1 DEF Over, Empty, RunsIn
    <2>4. Over \subseteq Grants /\ Over' \subseteq Grants /\ Empty \subseteq Grants /\ Empty' \subseteq Grants
      BY DEF Over, Empty, RunsIn
    <2> HIDE DEF unplaced
    <2> QED BY <1>1, <2>2, <2>3, <2>4
  <1>5. /\ g \in BoundTo /\ BoundTo' = BoundTo /\ Issued' = Issued
        /\ LogicalHolders' = LogicalHolders /\ Placed' = Placed
    BY <1>1, <1>2 DEF BoundTo, Issued, LogicalHolders, Placed, NodeReservations, Held
  <1>6. Ledger!End(g, unplaced)
    <2> HIDE DEF unplaced
    <2> QED BY <1>4, <1>5 DEF Ledger!End, Issued, Placed, BoundTo, Over, Empty
  <1>7. unplaced \in BOOLEAN
    OBVIOUS
  <1> QED BY <1>1, <1>6, <1>7 DEF Ledger!Next

\* A confirmed reset says that nothing of the ended run is left.
LEMMA LedgerReset ==
    ASSUME TypeOK, RowInv, NEW i \in Items, NEW exact \in Exactness, ResetSandbox(i, exact)
    PROVE  Ledger!Next
  <1> DEFINE g == RunGrant(i)
  <1>1. /\ g \in Grants /\ run[i].phase = "Fenced"
        /\ run'[i].generation = run[i].generation /\ run'[i].phase = "Reset"
        /\ \A j \in Items \ {i} : run'[j] = run[j]
        /\ UNCHANGED <<grant, logical, node, physical>>
    BY ResetShape DEF RowInv
  <1>2. g[1] = i /\ g[2] = run[i].generation
    BY DEF RunGrant
  <1>3. \A h \in Grants : h[1] \in Items /\ (h[1] = i /\ h[2] = run[i].generation <=> h = g)
    BY <1>2, GrantPairs DEF RunGrant
  <1> HIDE DEF g
  <1>4. /\ Over' = Over /\ g \in Over /\ Empty' = Empty \cup {g} /\ g \notin Empty
    <2>1. g \in Over' /\ g \in Over /\ g \in Empty' /\ g \notin Empty
      BY <1>1, <1>2 DEF Over, Empty, RunsIn
    <2>2. \A h \in Grants \ {g} : (h \in Over' <=> h \in Over) /\ (h \in Empty' <=> h \in Empty)
      BY <1>1, <1>3 DEF Over, Empty, RunsIn
    <2>3. Over \subseteq Grants /\ Over' \subseteq Grants /\ Empty \subseteq Grants /\ Empty' \subseteq Grants
      BY DEF Over, Empty, RunsIn
    <2> QED BY <1>1, <2>1, <2>2, <2>3
  <1>5. /\ BoundTo' = BoundTo /\ Issued' = Issued
        /\ LogicalHolders' = LogicalHolders /\ Placed' = Placed
    BY <1>1 DEF BoundTo, Issued, LogicalHolders, Placed, NodeReservations, Held
  <1>6. Ledger!Contain(g)
    BY <1>4, <1>5 DEF Ledger!Contain, Issued, Placed, BoundTo, Over, Empty
  <1> QED BY <1>1, <1>6 DEF Ledger!Next
\* The fenced fact gives the counters back, once: the run it is about is over.
LEMMA LedgerFenced ==
    ASSUME TypeOK, RowInv, NEW e \in evidence, ApplyFenced(e)
    PROVE  Ledger!Next \/ UNCHANGED Ledger!vars
  <1> DEFINE g == e.grant
  <1>1. /\ g \in Grants /\ e.kind = "Fenced"
        /\ grant[g].state \in {"Bound", "LeaseAttached", "TerminalNoLease", "Released"}
        /\ grant'[g].state \in {grant[g].state, "Released"}
        /\ grant'[g].revision = grant[g].revision
        /\ \A h \in Grants \ {g} : grant'[h] = grant[h]
        /\ logical' = [logical EXCEPT ![g] = IF @ = "Bound" THEN "Released" ELSE @]
        /\ UNCHANGED <<node, physical, run>>
    BY FencedShape
  <1>2. g \in Over
    BY <1>1 DEF RowInv, EvidenceOfRun, Over, RunsIn
  <1> HIDE DEF g
  <1>3. logical[g] \in {"Bound", "Released"}
    BY <1>1 DEF RowInv, RowsAgree
  <1>4. /\ Over' = Over /\ Empty' = Empty
        /\ Issued' = Issued /\ BoundTo' = BoundTo /\ Placed' = Placed
    BY <1>1, RunsStay DEF Issued, BoundTo, Placed, NodeReservations, Held
  <1>5. CASE logical[g] = "Bound"
    <2>1. g \in LogicalHolders /\ LogicalHolders' = LogicalHolders \ {g}
      BY <1>1, <1>5, Typed DEF LogicalHolders, Counting
    <2>2. Ledger!Uncount(g)
      BY <1>2, <1>4, <2>1 DEF Ledger!Uncount, Issued, Placed, BoundTo, Over, Empty
    <2> QED BY <1>1, <2>2 DEF Ledger!Next
  <1>6. CASE logical[g] = "Released"
    <2>1. LogicalHolders' = LogicalHolders
      BY <1>1, <1>6, Typed DEF LogicalHolders
    <2> QED BY <1>4, <2>1, LedgerStutters
  <1> QED BY <1>3, <1>5, <1>6

\* The no-lease fact gives the reservation on the node back, once: its run
\* ended without ever having been there.
LEMMA LedgerNoLease ==
    ASSUME TypeOK, RowInv, NEW e \in evidence, ApplyNoLease(e)
    PROVE  Ledger!Next \/ UNCHANGED Ledger!vars
  <1> DEFINE g == e.grant
  <1>1. /\ g \in Grants /\ e.kind = "NoLease"
        /\ grant[g].state \in {"Bound", "TerminalNoLease", "Released"}
        /\ grant'[g].state \in {"Released", "TerminalNoLease"}
        /\ grant'[g].revision = grant[g].revision
        /\ \A h \in Grants \ {g} : grant'[h] = grant[h]
        /\ node[g] \in {"Bound", "Released"}
        /\ node' = [node EXCEPT ![g] = "Released"]
        /\ UNCHANGED <<logical, physical, run>>
    BY NoLeaseShape
  <1>2. g \in Empty
    BY <1>1 DEF RowInv, EvidenceOfRun, Empty, RunsIn
  <1>3. physical[g] # "Held"
    <2>1. run[g[1]].generation = g[2] /\ run[g[1]].phase = "Ended"
      BY <1>1 DEF RowInv, EvidenceOfRun
    <2>2. g[1] \in Items /\ g = <<g[1], g[2]>>
      BY <1>1, GrantPairs
    <2>3. g = RunGrant(g[1])
      BY <2>1, <2>2 DEF RunGrant
    <2> HIDE DEF g
    <2> QED BY <2>1, <2>2, <2>3 DEF RowInv, CapacityHeldForRun
  <1> HIDE DEF g
  <1>4. /\ Over' = Over /\ Empty' = Empty
        /\ Issued' = Issued /\ BoundTo' = BoundTo /\ LogicalHolders' = LogicalHolders
    BY <1>1, RunsStay DEF Issued, BoundTo, LogicalHolders
  <1>5. CASE node[g] = "Bound"
    <2>1. g \in Placed /\ Placed' = Placed \ {g}
      BY <1>1, <1>3, <1>5, Typed DEF Placed, NodeReservations, Held, Counting
    <2>2. Ledger!Vacate(g)
      BY <1>2, <1>4, <2>1 DEF Ledger!Vacate, Issued, Placed, BoundTo, Over, Empty
    <2> QED BY <1>1, <2>2 DEF Ledger!Next
  <1>6. CASE node[g] = "Released"
    <2>1. Placed' = Placed
      BY <1>1, <1>6, Typed DEF Placed, NodeReservations, Held, Counting
    <2> QED BY <1>4, <2>1, LedgerStutters
  <1> QED BY <1>1, <1>5, <1>6

\* The release fact gives the occupancy back: the sandbox was reset.
LEMMA LedgerRelease ==
    ASSUME TypeOK, RowInv, NEW e \in evidence, ApplyRelease(e)
    PROVE  Ledger!Next
  <1> DEFINE g == e.grant
  <1>1. /\ g \in Grants /\ e.kind = "Release"
        /\ grant[g].state = "LeaseAttached" /\ physical[g] = "Held"
        /\ grant'[g].state \in {"Released", "LeaseAttached"}
        /\ grant'[g].revision = grant[g].revision
        /\ \A h \in Grants \ {g} : grant'[h] = grant[h]
        /\ node' = [node EXCEPT ![g] = "Released"]
        /\ physical' = [physical EXCEPT ![g] = "Released"]
        /\ UNCHANGED <<logical, run>>
    BY ReleaseShape
  <1>2. g \in Empty
    BY <1>1 DEF RowInv, EvidenceOfRun, Empty, RunsIn
  <1> HIDE DEF g
  <1>3. /\ Over' = Over /\ Empty' = Empty
        /\ Issued' = Issued /\ BoundTo' = BoundTo /\ LogicalHolders' = LogicalHolders
    BY <1>1, RunsStay DEF Issued, BoundTo, LogicalHolders
  <1>4. g \in Placed /\ Placed' = Placed \ {g}
    BY <1>1, Typed DEF Placed, NodeReservations, Held, Counting
  <1>5. Ledger!Vacate(g)
    BY <1>2, <1>3, <1>4 DEF Ledger!Vacate, Issued, Placed, BoundTo, Over, Empty
  <1> QED BY <1>1, <1>5 DEF Ledger!Next

\* A step that touches no grant, no counter and no place, and no phase of a run.
LEMMA LedgerAlone ==
    ASSUME UNCHANGED <<grant, logical, node, physical>>,
           \A j \in Items : run'[j].phase = run[j].phase /\ run'[j].generation = run[j].generation
    PROVE  UNCHANGED Ledger!vars
  <1>1. /\ Issued' = Issued /\ BoundTo' = BoundTo /\ LogicalHolders' = LogicalHolders
        /\ Placed' = Placed
    BY DEF Issued, BoundTo, LogicalHolders, Placed, NodeReservations, Held
  <1>2. \A h \in Grants : h[1] \in Items
    BY GrantPairs
  <1>3. Over' = Over /\ Empty' = Empty
    BY <1>2 DEF Over, Empty, RunsIn
  <1> QED BY <1>1, <1>3, LedgerStutters

\* Every step of the Scheduler and of C03 is a step of the ledger or none.
LEMMA LedgerSteps == IInv /\ [Next]_vars => [Ledger!Next]_(Ledger!vars)
<1> SUFFICES ASSUME TypeOK, RowInv, CountInv, [Next]_vars
             PROVE  Ledger!Next \/ UNCHANGED Ledger!vars
  BY DEF IInv, RowInv, CountInv
<1>1. CASE \/ \E i \in Items : \/ EnqueueStart(i) \/ EnqueueCancellation(i)
                               \/ BeginClaim(i) \/ Redeliver(i) \/ ClaimCancellation(i)
           \/ RollbackClaim \/ AttestNode \/ QuarantineNode \/ AdvanceClock
           \/ UNCHANGED vars
  <2>1. UNCHANGED <<grant, logical, node, physical, run>>
    BY <1>1 DEF EnqueueStart, Enqueue, EnqueueCancellation, EnqueueCancel, BeginClaim,
                ClaimBegin, Redeliver, ClaimRedeliver, ClaimCancellation, RollbackClaim,
                ClaimRollback, AttestNode, QuarantineNode, AdvanceClock, Tick, vars,
                schedulerVars, tables, contractVars
  <2> QED BY <2>1, LedgerAlone
<1>2. ASSUME NEW i \in Items, ReviseRun(i) PROVE UNCHANGED Ledger!vars
  <2>1. /\ run' = [run EXCEPT ![i].revision = @ + 1]
        /\ UNCHANGED <<grant, logical, node, physical>>
    BY <1>2 DEF ReviseRun, schedulerVars, tables
  <2>2. \A j \in Items : run'[j].phase = run[j].phase /\ run'[j].generation = run[j].generation
    BY <2>1, Typed DEF RunRecord
  <2> QED BY <2>1, <2>2, LedgerAlone
<1>3. ASSUME NEW i \in Items, Admit(i) \/ Readmit(i) PROVE Ledger!Next
  BY <1>3, LedgerAdmit, LedgerReadmit
<1>4. ASSUME NEW i \in Items, NEW n \in Generations, NEW t \in RecentTimes, StartRun(i, n, t)
      PROVE  Ledger!Next
  BY <1>4, LedgerStart
<1>5. ASSUME NEW i \in Items, NEW t \in RecentTimes, CommitLease(i, t)
      PROVE  UNCHANGED Ledger!vars
  BY <1>5, LedgerCommit
<1>6. ASSUME NEW i \in Items, NEW exact \in Exactness,
             FinishRun(i, exact) \/ ExecuteCancel(i, exact) \/ ResetSandbox(i, exact)
      PROVE  Ledger!Next
  BY <1>6, LedgerEnd, LedgerReset
<1>7. ASSUME NEW e \in evidence, ApplyFenced(e) \/ ApplyNoLease(e) \/ ApplyRelease(e)
      PROVE  Ledger!Next \/ UNCHANGED Ledger!vars
  BY <1>7, LedgerFenced, LedgerNoLease, LedgerRelease
<1> QED
  BY <1>1, <1>2, <1>3, <1>4, <1>5, <1>6, <1>7
     DEF Next, ClaimStep, CancelStep, RunStep, EvidenceStep, NodeStep

\* The Scheduler, with the transactions of ClaimAndAdmit, the functions C03
\* calls and the three Apply operations of capacity.go, implements the ledger:
\* capacity is taken by an admission within the limits and comes back once,
\* the counters when the run has ended and the node when nothing is left on it.
THEOREM LedgerIsKept == Spec => KeepsLedger
BY LedgerStarts, LedgerSteps, InvariantHolds, PTL DEF Spec, KeepsLedger, Ledger!Spec
=============================================================================
