--------------------------- MODULE PublicationProofs ---------------------------
(* For every set of operations and contents: the versions of a Task form one    *)
(* chain, an operation ends once, and a release never takes content a version   *)
(* holds.  The chain is inductive with one further fact: only an operation that *)
(* was rejected or cancelled owes residue.                                      *)
EXTENDS Publication, TLAPS

OwedByEnded == \A o \in Operations : residue[o] # "None" => state[o] \in {"Rejected", "Cancelled"}

PInv == VersionsFormChain /\ OwedByEnded

\* The chain as the lemmas below use it, without the types.
Chain ==
    /\ \A o \in Versions : /\ revision[o] \in 1..stream.revision
                           /\ parent[o] = None => revision[o] = 1
                           /\ parent[o] # None => /\ parent[o] \in Versions
                                                  /\ revision[o] = revision[parent[o]] + 1
    /\ \A o, p \in Versions : revision[o] = revision[p] => o = p
    /\ IF stream.revision = 0 THEN stream.head = None
       ELSE stream.head \in Versions /\ revision[stream.head] = stream.revision

\* The chain is made of the types and the links.
LEMMA ChainParts == VersionsFormChain <=> TypeOK /\ Chain
BY DEF VersionsFormChain, Chain

\* The members of an operation are contents.
LEMMA MembersAreContents == \A o \in Operations : Members(o) \subseteq Contents
<1>1. SUFFICES ASSUME NEW o \in Operations, NEW i \in DOMAIN ContentsOf[o]
               PROVE ContentsOf[o][i] \in Contents
  BY DEF Members
<1>2. ContentsOf[o] \in Seq(Contents)
  BY PublicationAssumption
<1> QED
  BY <1>2

\* Nothing has happened.
LEMMA PublicationStarts == Init => PInv
<1>1. Init => TypeOK
  BY DEF Init, TypeOK, OpenStates, TerminalStates, OpenResidues
<1>2. Init => Chain /\ OwedByEnded
  BY DEF Init, Chain, Versions, OwedByEnded
<1> QED
  BY <1>1, <1>2, ChainParts DEF PInv

\* Every step keeps the types: a verification leaves members pending, a release
\* takes members, an activation counts the stream on.
LEMMA TypesKept == TypeOK /\ [Next]_vars => TypeOK'
<1> USE DEF OpenStates, TerminalStates, OpenResidues
<1>1. SUFFICES ASSUME TypeOK, [Next]_vars PROVE TypeOK'
  OBVIOUS
<1>2. ASSUME NEW o \in Operations, Prepare(o) PROVE TypeOK'
  BY <1>1, <1>2 DEF Prepare, TypeOK
<1>3. ASSUME NEW o \in Operations, NEW failed \in BOOLEAN, Verify(o, failed) PROVE TypeOK'
  <2>1. Unresolved(Members(o)) \subseteq Contents
    BY MembersAreContents DEF Unresolved
  <2>2. pending' \in [Operations -> SUBSET Contents]
    BY <1>1, <1>3, <2>1 DEF Verify, TypeOK
  <2> QED
    BY <1>1, <1>3, <2>2 DEF Verify, TypeOK
<1>4. ASSUME NEW o \in Operations, NEW stale \in BOOLEAN, CompleteVerification(o, stale)
      PROVE TypeOK'
  BY <1>1, <1>4 DEF CompleteVerification, TypeOK
<1>5. ASSUME NEW o \in Operations, Activate(o) PROVE TypeOK'
  BY <1>1, <1>5 DEF Activate, TypeOK
<1>6. ASSUME NEW o \in Operations, NEW end \in {"Rejected", "Cancelled"}, End(o, end) PROVE TypeOK'
  BY <1>1, <1>6 DEF End, TypeOK
<1>7. ASSUME NEW o \in Operations, RecordAssembly(o) \/ ResolveDebt(o) PROVE TypeOK'
  BY <1>1, <1>7 DEF RecordAssembly, ResolveDebt, TypeOK, opVars
<1>8. ASSUME NEW o \in Operations, Release(o) PROVE TypeOK'
  <2>1. released' \subseteq Contents
    BY <1>1, <1>8, MembersAreContents DEF Release, TypeOK
  <2>2. residue' \in [Operations -> {"None", "Released", "AlreadyAbsent"} \cup OpenResidues]
    BY <1>1, <1>8 DEF Release, TypeOK, Disposition
  <2>3. debt' \in [Operations -> {"None", "Open", "Claimed", "Resolved"}]
    BY <1>1, <1>8 DEF Release, TypeOK
  <2> QED
    BY <1>1, <1>8, <2>1, <2>2, <2>3 DEF Release, TypeOK, opVars
<1>9. ASSUME NEW c \in Contents, Register(c) \/ Withhold(c) PROVE TypeOK'
  BY <1>1, <1>9 DEF Register, Withhold, TypeOK, opVars
<1>10. CASE UNCHANGED vars
  BY <1>1, <1>10 DEF vars, TypeOK
<1> QED
  BY <1>1, <1>2, <1>3, <1>4, <1>5, <1>6, <1>7, <1>8, <1>9, <1>10
     DEF Next, OperationSteps, ResidueSteps, RegistrySteps

\* The links of the chain are untouched by a step that makes no version and
\* moves neither the stream nor the parent of one.
LEMMA ChainFrame ==
    /\ Chain
    /\ Versions' = Versions
    /\ stream' = stream
    /\ revision' = revision
    /\ \A o \in Versions : parent'[o] = parent[o]
    => Chain'
BY DEF Chain

\* An activation puts its version after the head it was made from.
LEMMA ActivationExtends ==
    ASSUME TypeOK, Chain, NEW o \in Operations, Activate(o)
    PROVE Chain'
<1>1. Versions' = Versions \cup {o} /\ o \notin Versions
  BY DEF Activate, Versions, TypeOK
<1>2. /\ stream'.revision = stream.revision + 1 /\ stream'.head = o
      /\ revision'[o] = stream.revision + 1
      /\ \A p \in Versions : revision'[p] = revision[p]
      /\ parent' = parent
  BY <1>1 DEF Activate, TypeOK, Versions
<1>3. stream.revision \in Nat /\ \A p \in Versions : revision[p] \in Nat
  BY DEF TypeOK, Versions
<1>4. parent[o] = stream.head
  BY DEF Activate, OnHead
<1>5. o # None
  BY PublicationAssumption
<1>6. CASE stream.revision = 0
  <2>1. Versions = {}
    BY <1>3, <1>6 DEF Chain
  <2>2. parent[o] = None
    BY <1>4, <1>6 DEF Chain
  <2> QED
    BY <1>1, <1>2, <1>5, <1>6, <2>1, <2>2 DEF Chain
<1>7. CASE stream.revision # 0
  <2>1. stream.head \in Versions /\ revision[stream.head] = stream.revision
    BY <1>7 DEF Chain
  <2>2. stream.head # None
    BY <2>1, PublicationAssumption DEF Versions
  <2>3. \A p \in Versions' : /\ revision'[p] \in 1..stream'.revision
                             /\ parent'[p] = None => revision'[p] = 1
                             /\ parent'[p] # None =>
                                   /\ parent'[p] \in Versions'
                                   /\ revision'[p] = revision'[parent'[p]] + 1
    <3>1. ASSUME NEW p \in Versions
          PROVE /\ revision'[p] \in 1..stream'.revision
                /\ parent'[p] = None => revision'[p] = 1
                /\ parent'[p] # None => /\ parent'[p] \in Versions'
                                        /\ revision'[p] = revision'[parent'[p]] + 1
      BY <1>1, <1>2, <1>3, <3>1 DEF Chain
    <3>2. /\ revision'[o] \in 1..stream'.revision
          /\ parent'[o] # None
          /\ parent'[o] \in Versions'
          /\ revision'[o] = revision'[parent'[o]] + 1
      BY <1>1, <1>2, <1>3, <1>4, <2>1, <2>2
    <3> QED
      BY <1>1, <3>1, <3>2
  <2>4. \A p, q \in Versions' : revision'[p] = revision'[q] => p = q
    BY <1>1, <1>2, <1>3 DEF Chain
  <2>5. stream'.revision # 0 /\ stream'.head \in Versions' /\ revision'[stream'.head] = stream'.revision
    BY <1>1, <1>2, <1>3
  <2> QED
    BY <2>3, <2>4, <2>5 DEF Chain
<1> QED
  BY <1>6, <1>7

\* Every step keeps the chain and leaves residue with ended operations.
LEMMA ChainKept == PInv /\ [Next]_vars => PInv'
<1> USE DEF OpenStates, OpenResidues
<1>1. SUFFICES ASSUME PInv, [Next]_vars PROVE Chain' /\ OwedByEnded'
  <2>1. PInv /\ [Next]_vars => TypeOK'
    BY TypesKept, ChainParts DEF PInv
  <2>2. TypeOK' /\ Chain' => VersionsFormChain'
    BY DEF VersionsFormChain, Chain
  <2> QED
    BY <2>1, <2>2 DEF PInv
<1>2. TypeOK /\ Chain /\ OwedByEnded
  BY <1>1, ChainParts DEF PInv
<1>3. ASSUME NEW o \in Operations, Prepare(o) PROVE Chain' /\ OwedByEnded'
  <2>1. Versions' = Versions /\ \A p \in Versions : parent'[p] = parent[p]
    BY <1>2, <1>3 DEF Prepare, Versions, TypeOK
  <2> QED
    BY <1>2, <1>3, <2>1, ChainFrame DEF Prepare, OwedByEnded, TypeOK
<1>4. ASSUME NEW o \in Operations, NEW failed \in BOOLEAN, Verify(o, failed)
      PROVE Chain' /\ OwedByEnded'
  <2>1. Versions' = Versions
    BY <1>2, <1>4 DEF Verify, Versions, TypeOK
  <2> QED
    BY <1>2, <1>4, <2>1, ChainFrame DEF Verify, OwedByEnded, TypeOK
<1>5. ASSUME NEW o \in Operations, NEW stale \in BOOLEAN, CompleteVerification(o, stale)
      PROVE Chain' /\ OwedByEnded'
  <2>1. Versions' = Versions
    BY <1>2, <1>5 DEF CompleteVerification, Versions, TypeOK
  <2> QED
    BY <1>2, <1>5, <2>1, ChainFrame DEF CompleteVerification, OwedByEnded, TypeOK
<1>6. ASSUME NEW o \in Operations, Activate(o) PROVE Chain' /\ OwedByEnded'
  BY <1>2, <1>6, ActivationExtends DEF Activate, OwedByEnded, TypeOK
<1>7. ASSUME NEW o \in Operations, NEW end \in {"Rejected", "Cancelled"}, End(o, end)
      PROVE Chain' /\ OwedByEnded'
  <2>1. Versions' = Versions
    BY <1>2, <1>7 DEF End, Versions, TypeOK
  <2> QED
    BY <1>2, <1>7, <2>1, ChainFrame DEF End, OwedByEnded, TypeOK
<1>8. ASSUME NEW o \in Operations, ResidueSteps(o) PROVE Chain' /\ OwedByEnded'
  <2>1. UNCHANGED <<opVars, stream, revision>>
    BY <1>8 DEF ResidueSteps, RecordAssembly, Release, ResolveDebt
  <2>2. \A p \in Operations : residue'[p] # "None" => residue[p] # "None"
    BY <1>2, <1>8 DEF ResidueSteps, RecordAssembly, Release, ResolveDebt, TypeOK
  <2> QED
    BY <1>2, <2>1, <2>2, ChainFrame DEF opVars, Versions, OwedByEnded
<1>9. ASSUME NEW c \in Contents, RegistrySteps(c) PROVE Chain' /\ OwedByEnded'
  <2>1. UNCHANGED <<opVars, stream, revision, residue>>
    BY <1>9 DEF RegistrySteps, Register, Withhold
  <2> QED
    BY <1>2, <2>1, ChainFrame DEF opVars, Versions, OwedByEnded
<1>10. CASE UNCHANGED vars
  BY <1>2, <1>10, ChainFrame DEF vars, Versions, OwedByEnded
<1> QED
  BY <1>1, <1>3, <1>4, <1>5, <1>6, <1>7, <1>8, <1>9, <1>10 DEF Next, OperationSteps

\* The strengthened chain holds of every reachable state.
LEMMA PublicationInvariant == Spec => []PInv
BY PublicationStarts, ChainKept, PTL DEF Spec

\* activateFlow: of all the operations prepared, verified and cancelled on one
\* Task, those activated form one chain under the stream's head.
THEOREM VersionsAlwaysChain == Spec => []VersionsFormChain
<1>1. PInv => VersionsFormChain
  BY DEF PInv
<1> QED
  BY <1>1, PublicationInvariant, PTL

\* A receipt says "reclaimed" only when no member is a version's.
LEMMA ReclaimedIsFree ==
    ASSUME TypeOK, NEW o \in Operations, Receipt(o) = "Reclaimed", NEW c \in Members(o)
    PROVE ~Attached(c)
<1>1. \A d : Verdict(d) # "Reclaimed"
  BY DEF Verdict
<1>2. Deciding(o) = {}
  BY <1>1 DEF Receipt
<1>3. Missing(o) = {}
  BY <1>2 DEF Receipt
<1>4. Verdict(c) = "Next"
  BY <1>2 DEF Deciding, Members
<1>5. registry[c] \in {"Current", "Withheld"}
  BY <1>3, MembersAreContents DEF Missing, TypeOK
<1>6. registry[c] = "Current" /\ c \notin released
  BY <1>4, <1>5 DEF Verdict
<1> QED
  BY <1>4, <1>6 DEF Verdict

\* Release: whatever two operations staged in common, the release for the one
\* never takes what the other's version holds.
THEOREM ReleaseAlwaysSparesVersions == Spec => ReleaseSparesVersions
<1>1. PInv /\ [Next]_vars => [\A c \in released' \ released : ~Attached(c)]_vars
  <2>1. SUFFICES ASSUME PInv, Next, NEW c \in released' \ released PROVE ~Attached(c)
    BY DEF vars
  <2>2. TypeOK
    BY <2>1, ChainParts DEF PInv
  <2>3. PICK o \in Operations : Release(o)
    BY <2>1 DEF Next, OperationSteps, ResidueSteps, RegistrySteps, Prepare, Verify,
                CompleteVerification, Activate, End, RecordAssembly, ResolveDebt, Register, Withhold
  <2>4. Receipt(o) = "Reclaimed" /\ c \in Members(o)
    BY <2>1, <2>3 DEF Release
  <2> QED
    BY <2>2, <2>4, ReclaimedIsFree
<1> QED
  BY <1>1, PublicationInvariant, PTL DEF Spec, ReleaseSparesVersions

\* One operation's share of EndsOnce.
EndsOnceFor(o) ==
    /\ state[o] \in TerminalStates => state'[o] = state[o]
    /\ state[o] = "Activated" => revision'[o] = revision[o] /\ residue'[o] = "None"
    /\ residue[o] \notin {"None"} \cup OpenResidues => residue'[o] = residue[o]
    /\ residue[o] \in OpenResidues => residue'[o] # "None"

\* No step takes an operation back from its end.
LEMMA EndStands == ASSUME PInv, Next, NEW p \in Operations PROVE EndsOnceFor(p)
<1> USE DEF OpenStates, TerminalStates, OpenResidues
<1>1. TypeOK /\ OwedByEnded
  BY ChainParts DEF PInv
<1>2. state[p] = "Activated" => residue[p] = "None"
  BY <1>1 DEF OwedByEnded
<1>3. state[p] \in {"None"} \cup OpenStates => residue[p] = "None"
  BY <1>1 DEF OwedByEnded
<1>4. ASSUME NEW o \in Operations, OperationSteps(o) PROVE EndsOnceFor(p)
  <2>1. /\ state[p] \in TerminalStates => state'[p] = state[p]
        /\ state[p] = "Activated" => revision'[p] = revision[p]
    BY <1>1, <1>4 DEF OperationSteps, Prepare, Verify, CompleteVerification, Activate, End, TypeOK
  <2>2. residue'[p] = residue[p] \/ (state[p] \in OpenStates /\ residue'[p] = "Pending")
    BY <1>1, <1>4 DEF OperationSteps, Prepare, Verify, CompleteVerification, Activate, End, TypeOK
  <2> QED
    BY <1>2, <1>3, <2>1, <2>2 DEF EndsOnceFor
<1>5. ASSUME NEW o \in Operations, ResidueSteps(o) PROVE EndsOnceFor(p)
  <2>1. state' = state /\ revision' = revision
    BY <1>5 DEF ResidueSteps, RecordAssembly, Release, ResolveDebt, opVars
  <2>2. \/ residue'[p] = residue[p]
        \/ residue[p] \in OpenResidues /\ residue'[p] \in {"Released", "AlreadyAbsent", "ReleaseRequested"}
    BY <1>1, <1>5 DEF ResidueSteps, RecordAssembly, Release, ResolveDebt, Disposition, TypeOK
  <2> QED
    BY <1>2, <2>1, <2>2 DEF EndsOnceFor
<1>6. ASSUME NEW c \in Contents, RegistrySteps(c) PROVE EndsOnceFor(p)
  BY <1>2, <1>6 DEF RegistrySteps, Register, Withhold, opVars, EndsOnceFor
<1> QED
  BY <1>4, <1>5, <1>6 DEF Next

\* Reject, cancel and activate: whichever commits first is the operation's end.
THEOREM OperationsEndOnce == Spec => EndsOnce
<1>1. PInv /\ [Next]_vars => [\A o \in Operations : EndsOnceFor(o)]_vars
  BY EndStands
<1> QED
  BY <1>1, PublicationInvariant, PTL DEF Spec, EndsOnce, EndsOnceFor

=============================================================================
