------------------------------ MODULE Publication ------------------------------
(* The publication authority (artifactpublication) of one Task: operations that *)
(* prepare, verify and activate Artifact Versions on the Task's stream, the     *)
(* residue a rejected or cancelled operation leaves, and its release through    *)
(* the Durable Object participant.  Every action is one PostgreSQL transaction  *)
(* that locks the operation, the stream and the capability rows it reads.       *)
(*                                                                              *)
(* An operation mints one version, so a version is named by its operation.  The *)
(* capability rows of one content are taken together: they are registered,      *)
(* withdrawn and released as one.                                               *)
EXTENDS Integers, Sequences, FiniteSets

CONSTANTS
    Operations,
    Contents,
    None,
    ContentsOf,   \* the content of every member, in slot order, of an operation
    Edits,        \* the operations of kind manual_edit
    Lapses        \* the contents whose capability may lapse once registered

ASSUME PublicationAssumption ==
    /\ None \notin Operations
    /\ ContentsOf \in [Operations -> Seq(Contents) \ {<<>>}]
    /\ Edits \subseteq Operations

VARIABLES
    state,      \* publication_operation.state
    asked,      \* operations with a recorded Verify outcome
    pending,    \* contents a verification was left ambiguous about
    parent,     \* publication_candidate.parent
    stream,     \* publication_stream: revision and current head
    revision,   \* publication_activated.stream_revision, 0 before activation
    residue,    \* publication_residue.disposition
    debt,       \* publication_cleanup_debt.status
    registry,   \* publication_do_capability, as the Durable Object authority has it
    released    \* contents whose capability rows say released

opVars == <<state, asked, pending, parent>>
vars == <<state, asked, pending, parent, stream, revision, residue, debt, registry, released>>

OpenStates == {"Prepared", "Verified", "ReconciliationRequired"}
TerminalStates == {"Activated", "Rejected", "Cancelled"}
OpenResidues == {"Pending", "ReleaseRequested"}

Members(o) == {ContentsOf[o][i] : i \in DOMAIN ContentsOf[o]}

\* publication_attach: the rows are inserted with the activation.
Attached(c) == \E o \in Operations : state[o] = "Activated" /\ c \in Members(o)

Init ==
    /\ state = [o \in Operations |-> "None"]
    /\ asked = {}
    /\ pending = [o \in Operations |-> {}]
    /\ parent = [o \in Operations |-> None]
    /\ stream = [revision |-> 0, head |-> None]
    /\ revision = [o \in Operations |-> 0]
    /\ residue = [o \in Operations |-> "None"]
    /\ debt = [o \in Operations |-> "None"]
    /\ registry = [c \in Contents |-> "Absent"]
    /\ released = {}

-----------------------------------------------------------------------------
(* Prepare, verify, activate. *)

\* The candidate of an edit is bound to the head it was read from.
Prepare(o) ==
    /\ state[o] = "None"
    /\ o \in Edits => stream.head # None
    /\ state' = [state EXCEPT ![o] = "Prepared"]
    /\ parent' = [parent EXCEPT ![o] = IF o \in Edits THEN stream.head ELSE None]
    /\ UNCHANGED <<asked, pending, stream, revision, residue, debt, registry, released>>

Unresolved(contents) == {c \in contents : registry[c] # "Current"}

\* One verification is recorded per operation: evidence that fails leaves it
\* prepared for ever.
Verify(o, failed) ==
    /\ state[o] \in {"Prepared", "ReconciliationRequired"}
    /\ o \notin asked
    /\ asked' = asked \cup {o}
    /\ IF failed THEN UNCHANGED <<state, pending>>
       ELSE /\ pending' = [pending EXCEPT ![o] = Unresolved(Members(o))]
            /\ state' = [state EXCEPT ![o] =
                  IF Unresolved(Members(o)) = {} THEN "Verified" ELSE "ReconciliationRequired"]
    /\ UNCHANGED <<parent, stream, revision, residue, debt, registry, released>>

\* ReconcileCompleteVerification looks at the contents that were ambiguous only.
CompleteVerification(o, stale) ==
    /\ state[o] = "ReconciliationRequired"
    /\ stale => pending[o] \ Unresolved(pending[o]) # {}
    /\ state' = [state EXCEPT ![o] =
          IF stale THEN "Prepared"
          ELSE IF Unresolved(pending[o]) = {} THEN "Verified" ELSE @]
    /\ UNCHANGED <<asked, pending, parent, stream, revision, residue, debt, registry, released>>

\* Variant: the parent is compared at prepare only.
OnAnyHead(o) == o \in Edits => parent[o] # None

OnHead(o) == parent[o] = stream.head

\* The stream is compared with what the caller expects, and the parent with the
\* head: of the operations prepared on one head, the first takes the stream.
Activate(o) ==
    /\ state[o] = "Verified"
    /\ OnHead(o)
    /\ Unresolved(Members(o)) = {}
    /\ state' = [state EXCEPT ![o] = "Activated"]
    /\ stream' = [revision |-> stream.revision + 1, head |-> o]
    /\ revision' = [revision EXCEPT ![o] = stream.revision + 1]
    /\ UNCHANGED <<asked, pending, parent, residue, debt, registry, released>>

\* Variant: a cancellation after the activation undoes it.
EndAnyway(o, end) ==
    /\ state[o] \in OpenStates \cup {"Activated"}
    /\ state' = [state EXCEPT ![o] = end]
    /\ residue' = [residue EXCEPT ![o] = "Pending"]
    /\ UNCHANGED <<asked, pending, parent, stream, revision, debt, registry, released>>

\* Reject and cancel; a cancellation of an activated operation returns the
\* activation and changes nothing.
End(o, end) ==
    /\ state[o] \in OpenStates
    /\ state' = [state EXCEPT ![o] = end]
    /\ residue' = [residue EXCEPT ![o] = "Pending"]
    /\ UNCHANGED <<asked, pending, parent, stream, revision, debt, registry, released>>

-----------------------------------------------------------------------------
(* Residue: the staged references of an operation that ended. *)

\* The obligation to take an assembly away mints the operation's one debt.
RecordAssembly(o) ==
    /\ residue[o] # "None"
    /\ debt[o] = "None"
    /\ debt' = [debt EXCEPT ![o] = "Open"]
    /\ UNCHANGED <<opVars, stream, revision, residue, registry, released>>

\* What ends the scan of the references at one of them.
Verdict(c) ==
    IF registry[c] = "Withheld" THEN "Ambiguous"
    ELSE IF registry[c] = "Absent" THEN "Next"
    ELSE IF c \in released THEN "Released"
    ELSE IF Attached(c) THEN "Refused" ELSE "Next"

\* The references are read in slot order and the first that decides is final.
Deciding(o) == {i \in DOMAIN ContentsOf[o] : Verdict(ContentsOf[o][i]) # "Next"}

First(positions) == CHOOSE i \in positions : \A j \in positions : i <= j

Missing(o) == {c \in Members(o) : registry[c] = "Absent"}

\* Variant: attached content is released with the rest.
ReceiptIgnoringVersions(o) ==
    IF \E c \in Members(o) : registry[c] = "Withheld" THEN "Ambiguous"
    ELSE IF Missing(o) = Members(o) THEN "AlreadyAbsent" ELSE "Reclaimed"

Receipt(o) ==
    IF Deciding(o) # {} THEN Verdict(ContentsOf[o][First(Deciding(o))])
    ELSE IF Missing(o) = {} THEN "Reclaimed"
    ELSE IF Missing(o) = Members(o) THEN "AlreadyAbsent" ELSE "Refused"

\* applyReleaseReceipt: only evidence closes.
Disposition(receipt) ==
    IF receipt \in {"Released", "Reclaimed"} THEN "Released"
    ELSE IF receipt = "AlreadyAbsent" THEN "AlreadyAbsent" ELSE "ReleaseRequested"

\* Variant: a release that was requested is not requested again.
ReleaseOnce(o) ==
    /\ residue[o] = "Pending"
    /\ residue' = [residue EXCEPT ![o] = Disposition(Receipt(o))]
    /\ released' = IF Receipt(o) = "Reclaimed" THEN released \cup Members(o) ELSE released
    /\ debt' = [debt EXCEPT ![o] = IF @ = "Open" THEN "Claimed" ELSE @]
    /\ UNCHANGED <<opVars, stream, revision, registry>>

\* ReleaseResidue and ReconcileCompleteRelease: an attempt without a receipt
\* leaves the residue requested, and it is asked again.
Release(o) ==
    /\ residue[o] \in OpenResidues
    /\ residue' = [residue EXCEPT ![o] = Disposition(Receipt(o))]
    /\ released' = IF Receipt(o) = "Reclaimed" THEN released \cup Members(o) ELSE released
    /\ debt' = [debt EXCEPT ![o] = IF @ = "Open" THEN "Claimed" ELSE @]
    /\ UNCHANGED <<opVars, stream, revision, registry>>

ResolveDebt(o) ==
    /\ debt[o] \in {"Open", "Claimed"}
    /\ debt' = [debt EXCEPT ![o] = "Resolved"]
    /\ UNCHANGED <<opVars, stream, revision, residue, registry, released>>

-----------------------------------------------------------------------------
(* The Durable Object authority: content is registered, its capability may     *)
(* lapse and be renewed.                                                        *)

Register(c) ==
    /\ registry[c] \in {"Absent", "Withheld"}
    /\ registry' = [registry EXCEPT ![c] = "Current"]
    /\ UNCHANGED <<opVars, stream, revision, residue, debt, released>>

Withhold(c) ==
    /\ c \in Lapses
    /\ registry[c] = "Current"
    /\ registry' = [registry EXCEPT ![c] = "Withheld"]
    /\ UNCHANGED <<opVars, stream, revision, residue, debt, released>>

-----------------------------------------------------------------------------

OperationSteps(o) ==
    \/ Prepare(o)
    \/ \E failed \in BOOLEAN : Verify(o, failed)
    \/ \E stale \in BOOLEAN : CompleteVerification(o, stale)
    \/ Activate(o)
    \/ \E end \in {"Rejected", "Cancelled"} : End(o, end)

ResidueSteps(o) == RecordAssembly(o) \/ Release(o) \/ ResolveDebt(o)

RegistrySteps(c) == Register(c) \/ Withhold(c)

Next ==
    \/ \E o \in Operations : OperationSteps(o) \/ ResidueSteps(o)
    \/ \E c \in Contents : RegistrySteps(c)

Spec == Init /\ [][Next]_vars

(* The cleanup authority keeps asking for what it is owed; nothing is assumed  *)
(* of operations or of the registry.                                            *)
FairSpec == Spec /\ \A o \in Operations : WF_vars(Release(o))

-----------------------------------------------------------------------------
(* Properties. *)

Versions == {o \in Operations : state[o] = "Activated"}

\* Types of the variables, as the tables hold them.
TypeOK ==
    /\ state \in [Operations -> {"None"} \cup OpenStates \cup TerminalStates]
    /\ asked \subseteq Operations
    /\ pending \in [Operations -> SUBSET Contents]
    /\ parent \in [Operations -> Operations \cup {None}]
    /\ stream \in [revision : Nat, head : Operations \cup {None}]
    /\ revision \in [Operations -> Nat]
    /\ residue \in [Operations -> {"None", "Released", "AlreadyAbsent"} \cup OpenResidues]
    /\ debt \in [Operations -> {"None", "Open", "Claimed", "Resolved"}]
    /\ registry \in [Contents -> {"Absent", "Current", "Withheld"}]
    /\ released \subseteq Contents

\* The versions of a Task form one chain, whatever was prepared, verified and
\* cancelled beside it: every version has a number of its own up to the
\* stream's revision, follows exactly the version it was made from, and the
\* head is the last.
VersionsFormChain ==
    /\ TypeOK
    /\ \A o \in Versions : /\ revision[o] \in 1..stream.revision
                           /\ parent[o] = None => revision[o] = 1
                           /\ parent[o] # None => /\ parent[o] \in Versions
                                                  /\ revision[o] = revision[parent[o]] + 1
    /\ \A o, p \in Versions : revision[o] = revision[p] => o = p
    /\ IF stream.revision = 0 THEN stream.head = None
       ELSE stream.head \in Versions /\ revision[stream.head] = stream.revision

\* An operation ends once: an activated version stays, owes no residue and is
\* never numbered again, and a rejected or cancelled one never becomes a version
\* and keeps owing its residue until a receipt closes it.
EndsOnce ==
    [][\A o \in Operations :
          /\ state[o] \in TerminalStates => state'[o] = state[o]
          /\ state[o] = "Activated" => revision'[o] = revision[o] /\ residue'[o] = "None"
          /\ residue[o] \notin {"None"} \cup OpenResidues => residue'[o] = residue[o]
          /\ residue[o] \in OpenResidues => residue'[o] # "None"]_vars

\* A release never takes content a version holds, though the operation it is
\* for staged the same content.
ReleaseSparesVersions ==
    [][\A c \in released' \ released : ~Attached(c)]_vars

\* Whether the participant can answer for an operation: its content is either
\* all registered and current, and no version's, or all absent.
Answerable(o) ==
    \/ \A c \in Members(o) : registry[c] = "Current" /\ ~Attached(c)
    \/ Missing(o) = Members(o)

\* Residue that can be answered for is closed in the end, however often its
\* release was ambiguous, lost or refused before.
ResidueSettles ==
    \A o \in Operations :
        <>[]Answerable(o) => (residue[o] \in OpenResidues ~> residue[o] \notin OpenResidues)

\* docs: the receipt proves the references were reclaimed.  A version whose
\* content was reclaimed is a version that cannot be read.
VersionsHoldContent == \A c \in released : ~Attached(c)

=============================================================================
