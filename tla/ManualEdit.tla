----------------------------- MODULE ManualEdit -----------------------------
(***************************************************************************)
(* Edit sessions of a completed task: its owner drafts, freezes, discards, *)
(* clones and retries them, workers claim frozen ones and carry them       *)
(* through their phases in a workspace that belongs to the session, and    *)
(* the last phase activates a version whose parent is the session's base.  *)
(*                                                                         *)
(* Every write of a session compares its status or its claim token; what a *)
(* worker does to the workspace happens between such writes.  A claim has  *)
(* no clock: it is live until Lapse, and a renewal revives it.  Activation *)
(* is a transaction under READ COMMITTED that reads the latest version and *)
(* the time and writes later; a version is named by that time, which also  *)
(* decides which version is the latest.                                    *)
(*                                                                         *)
(* The contents of drafts, reports and slides are left out.  A tree is the *)
(* set of the claims whose work is in it.                                  *)
(***************************************************************************)
EXTENDS Naturals, FiniteSets

CONSTANTS Sessions,
          Workers,
          MaxActive,      \* LivePreviewMaxActiveSessions
          Following,      \* the phase after a phase: the status it runs under
          Careful,        \* a session is retried only while none is active
          Kinds,          \* the faults that may happen
          MaxFaults,      \* bound: faults
          MaxRetries      \* bound: retries

NoSession == "nosession"
Running == {Following[p] : p \in DOMAIN Following}
Active == {"draft", "queued"} \cup Running
Ended == {"published", "failed", "stale", "discarded"}
Statuses == {"none"} \cup Active \cup Ended

ASSUME ManualEditAssumption ==
    /\ IsFiniteSet(Sessions) /\ NoSession \notin Sessions
    /\ MaxActive \in Nat \ {0}
    /\ Careful \in BOOLEAN
    /\ Kinds \subseteq {"crash", "stall", "error", "unsaved", "lost", "late"}
    /\ MaxFaults \in Nat /\ MaxRetries \in Nat
    /\ {"materializing", "publishing"} \subseteq Running
    /\ Running \cap ({"none", "draft", "queued"} \cup Ended) = {}
    /\ DOMAIN Following = ({"queued"} \cup Running) \ {"publishing"}
    /\ Following["queued"] = "materializing"

VARIABLES session,    \* the rows: status, base, claim token (0: none), whether the claim is stale
          versions,   \* active artifact versions of the task
          objects,    \* claims whose published files are stored
          tree,       \* each session's workspace
          worker,     \* each worker's place and its copy of the row
          late,       \* the time read by a late publisher of the task, 0: none
          clock, minted,
          stalled,    \* sessions with a claim that lapsed while its worker lived
          retries, faults

outputs == <<versions, objects>>
bounds == <<stalled, retries, faults>>
vars == <<session, outputs, tree, worker, late, clock, minted, bounds>>

Places == {"idle", "read", "enter", "clear", "fill", "launch", "confirm", "exchange",
           "look", "publish", "activate", "commit", "save", "fail", "release"}

IdleWorker == [at |-> "idle", of |-> NoSession, token |-> 0, status |-> "none",
               copy |-> {}, now |-> 0]

Version == [at : 0..clock, of : Sessions \cup {NoSession}, parent : 0..clock,
            claim : 0..minted, content : SUBSET (1..minted)]

Generated(t) == [at |-> t, of |-> NoSession, parent |-> 0, claim |-> 0, content |-> {}]

Init ==
    /\ session = [s \in Sessions |->
                    [status |-> "none", base |-> 0, token |-> 0, stale |-> FALSE]]
    /\ versions = {Generated(1)} /\ objects = {}
    /\ tree = [s \in Sessions |-> {}]
    /\ worker = [w \in Workers |-> IdleWorker]
    /\ late = 0 /\ clock = 1 /\ minted = 0
    /\ stalled = {} /\ retries = 0 /\ faults = 0

-----------------------------------------------------------------------------
\* Variant: any version of the task will do as a base.
IsVersion(t) == \E v \in versions : v.at = t

IsLatest(t) == \E v \in versions : v.at = t /\ \A u \in versions : u.at <= t
ActiveSessions == {s \in Sessions : session[s].status \in Active}

Fault(kind) == kind \in Kinds /\ faults < MaxFaults /\ faults' = faults + 1

\* CreateEditSession, also by CloneEditSession from an ended session whose base
\* is still the latest version: the clone's base is the latest in both cases.
Create(s) ==
    /\ session[s].status = "none"
    /\ Cardinality(ActiveSessions) < MaxActive
    /\ \E v \in versions :
         /\ IsLatest(v.at)
         /\ session' = [session EXCEPT ![s] = [status |-> "draft", base |-> v.at,
                                               token |-> 0, stale |-> FALSE]]
    /\ UNCHANGED <<outputs, tree, worker, late, clock, minted, bounds>>

Freeze(s) ==
    /\ session[s].status = "draft"
    /\ session' = [session EXCEPT ![s].status =
                     IF IsLatest(session[s].base) THEN "queued" ELSE "stale"]
    /\ UNCHANGED <<outputs, tree, worker, late, clock, minted, bounds>>

Discard(s) ==
    /\ session[s].status = "draft"
    /\ session' = [session EXCEPT ![s].status = "discarded"]
    /\ UNCHANGED <<outputs, tree, worker, late, clock, minted, bounds>>

Retry(s) ==
    /\ session[s].status = "failed" /\ retries < MaxRetries
    /\ Careful => ActiveSessions = {}
    /\ retries' = retries + 1
    /\ session' = [session EXCEPT ![s].status = "queued", ![s].token = 0, ![s].stale = FALSE]
    /\ UNCHANGED <<outputs, tree, worker, late, clock, minted, stalled, faults>>

-----------------------------------------------------------------------------
\* Claims.

\* Variant: a claim never goes stale.
UnclaimedOnly(s) == session[s].status \in Active \ {"draft"} /\ session[s].token = 0

Claimable(s) ==
    /\ session[s].status \in Active \ {"draft"}
    /\ session[s].token = 0 \/ session[s].stale

\* A claim starts the session over: its status is queued again.
Claim(w) ==
    /\ worker[w].at = "idle"
    /\ \E s \in Sessions :
         /\ Claimable(s)
         /\ session' = [session EXCEPT ![s].status = "queued", ![s].token = minted + 1,
                                       ![s].stale = FALSE]
         /\ worker' = [worker EXCEPT ![w].at = "read", ![w].of = s, ![w].token = minted + 1]
    /\ minted' = minted + 1
    /\ UNCHANGED <<outputs, tree, late, clock, bounds>>

Goto(w, place) == worker' = [worker EXCEPT ![w].at = place]

\* The comparison of UpdateClaimedEditSession and ActivateManualEditVersion.
Holds(w) ==
    /\ session[worker[w].of].status = worker[w].status
    /\ session[worker[w].of].token = worker[w].token

\* RenewEditSessionClaim compares the token alone.
Renewable(w) ==
    /\ session[worker[w].of].token = worker[w].token
    /\ session[worker[w].of].status \in Active
Renewed(w) == session' = [session EXCEPT ![worker[w].of].stale = FALSE]

\* The claimed row is read back, an error leaving the claim behind, then the
\* task's, an error giving the claim up.
Read(w) ==
    /\ worker[w].at = "read"
    /\ \/ /\ worker' = [worker EXCEPT
                ![w].status = session[worker[w].of].status,
                ![w].at = IF session[worker[w].of].status = "queued" THEN "enter" ELSE "fail"]
          /\ UNCHANGED faults
       \/ Fault("error") /\ worker' = [worker EXCEPT ![w] = IdleWorker]
       \/ Fault("error") /\ Goto(w, "release")
    /\ UNCHANGED <<session, outputs, tree, late, clock, minted, stalled, retries>>

FirstPlace(phase) ==
    CASE phase = "materializing" -> "clear"
      [] phase = "publishing" -> "look"
      [] OTHER -> "launch"

\* A phase is entered: the status moves on and the run is recorded.  Where the
\* first of the two is in error the claim is given up, where the second is the
\* session fails.
Enter(w) ==
    LET to == Following[worker[w].status]
    IN  /\ worker[w].at = "enter"
        /\ \/ /\ Holds(w)
              /\ session' = [session EXCEPT ![worker[w].of].status = to]
              /\ \/ worker' = [worker EXCEPT ![w].status = to, ![w].at = FirstPlace(to)]
                    /\ UNCHANGED faults
                 \/ worker' = [worker EXCEPT ![w].status = to, ![w].at = "fail"]
                    /\ Fault("error")
           \/ ~Holds(w) /\ Goto(w, "release") /\ UNCHANGED <<session, faults>>
           \/ Fault("error") /\ Goto(w, "release") /\ UNCHANGED session
        /\ UNCHANGED <<outputs, tree, late, clock, minted, stalled, retries>>

-----------------------------------------------------------------------------
\* Materialization: the workspace is emptied, then filled from the base.

\* Variant: what an earlier claim left in the workspace stays.
ClearNothing(w) ==
    /\ worker[w].at = "clear" /\ Goto(w, "fill")
    /\ UNCHANGED <<session, outputs, tree, late, clock, minted, bounds>>

Clear(w) ==
    /\ worker[w].at = "clear"
    /\ tree' = [tree EXCEPT ![worker[w].of] = {}] /\ Goto(w, "fill")
    /\ UNCHANGED <<session, outputs, late, clock, minted, bounds>>

Worked(w) == tree' = [tree EXCEPT ![worker[w].of] = @ \cup {worker[w].token}]

Fill(w) ==
    /\ worker[w].at = "fill"
    /\ Worked(w) /\ (Goto(w, "save") \/ Goto(w, "fail"))
    /\ UNCHANGED <<session, outputs, late, clock, minted, bounds>>

\* The phases of the agent: some prepare the tree, the claim is renewed, the
\* agent works on a copy, the claim is renewed again, the copy is exchanged for
\* the tree and the phase's reports are checked and written.  Without annotations
\* their phase has a report to write and no agent.
Launch(w) ==
    /\ worker[w].at = "launch"
    /\ Worked(w) \/ UNCHANGED tree
    /\ \/ /\ Renewable(w) /\ Renewed(w)
          /\ worker' = [worker EXCEPT ![w].at = "confirm",
                                      ![w].copy = tree[worker[w].of] \cup {worker[w].token}]
       \/ (Goto(w, "save") \/ Goto(w, "fail")) /\ UNCHANGED session
    /\ UNCHANGED <<outputs, late, clock, minted, bounds>>

Confirm(w) ==
    /\ worker[w].at = "confirm"
    /\ \/ Renewable(w) /\ Renewed(w) /\ Goto(w, "exchange")
       \/ Goto(w, "fail") /\ UNCHANGED session
    /\ UNCHANGED <<outputs, tree, late, clock, minted, bounds>>

Exchange(w) ==
    /\ worker[w].at = "exchange"
    /\ \/ tree' = [tree EXCEPT ![worker[w].of] = worker[w].copy]
          /\ (Goto(w, "save") \/ Goto(w, "fail"))
       \/ Goto(w, "fail") /\ UNCHANGED tree
    /\ UNCHANGED <<session, outputs, late, clock, minted, bounds>>

-----------------------------------------------------------------------------
\* Publication.

Look(w) ==
    /\ worker[w].at = "look"
    /\ Goto(w, IF IsLatest(session[worker[w].of].base) THEN "publish" ELSE "fail")
    /\ UNCHANGED <<session, outputs, tree, late, clock, minted, bounds>>

\* The tree's files are stored; a failure removes what was stored.
Publish(w) ==
    /\ worker[w].at = "publish"
    /\ \/ /\ tree[worker[w].of] # {}
          /\ objects' = objects \cup {worker[w].token}
          /\ worker' = [worker EXCEPT ![w].at = "activate", ![w].copy = tree[worker[w].of]]
       \/ Goto(w, "fail") /\ UNCHANGED objects
    /\ UNCHANGED <<session, versions, tree, late, clock, minted, bounds>>

Withdrawn(w) == objects' = objects \ {worker[w].token} /\ Goto(w, "fail")

\* ActivateManualEditVersion reads: the time, the latest version, the session.
Activate(w) ==
    LET ready == IsLatest(session[worker[w].of].base) /\ Holds(w)
    IN  /\ worker[w].at = "activate"
        /\ clock' = clock + 1
        /\ \/ /\ ready
              /\ worker' = [worker EXCEPT ![w].at = "commit", ![w].now = clock + 1]
              /\ UNCHANGED objects
           \/ ~ready /\ Withdrawn(w)
        /\ UNCHANGED <<session, versions, tree, late, minted, bounds>>

\* Variant: the two rows are written one by one; the second may fail.
CommitApart(w) ==
    /\ worker[w].at = "commit" /\ Holds(w) /\ Withdrawn(w) /\ Fault("lost")
    /\ session' = [session EXCEPT ![worker[w].of].status = "published"]
    /\ UNCHANGED <<versions, tree, late, clock, minted, stalled, retries>>

\* It writes the version and the session, if the session is still the claim's.
\* A commit whose answer is lost is taken for a failure.
Commit(w) ==
    LET s == worker[w].of
        edited == [at |-> worker[w].now, of |-> s, parent |-> session[s].base,
                   claim |-> worker[w].token, content |-> worker[w].copy]
        Written == /\ versions' = versions \cup {edited}
                   /\ session' = [session EXCEPT ![s].status = "published"]
    IN  /\ worker[w].at = "commit"
        /\ \/ /\ Holds(w) /\ Written
              /\ \/ /\ worker' = [worker EXCEPT ![w].at = "save", ![w].status = "published"]
                    /\ UNCHANGED <<objects, faults>>
                 \/ Withdrawn(w) /\ Fault("lost")
           \/ ~Holds(w) /\ Withdrawn(w) /\ UNCHANGED <<versions, session, faults>>
        /\ UNCHANGED <<tree, late, clock, minted, stalled, retries>>

-----------------------------------------------------------------------------
\* A phase ends: its run is saved and, but for the last, the claim compared.
Save(w) ==
    /\ worker[w].at = "save"
    /\ \/ worker[w].status = "published" /\ Goto(w, "release") /\ UNCHANGED faults
       \/ worker[w].status # "published" /\ UNCHANGED faults
          /\ Goto(w, IF Holds(w) THEN "enter" ELSE "release")
       \/ Fault(IF worker[w].status = "published" THEN "unsaved" ELSE "error") /\ Goto(w, "fail")
       \/ worker[w].status # "published" /\ Fault("error") /\ Goto(w, "release")
    /\ UNCHANGED <<session, outputs, tree, late, clock, minted, stalled, retries>>

\* failClaimedEditSession: an error of this write is ignored.
Fail(w) ==
    /\ worker[w].at = "fail"
    /\ \/ /\ Holds(w) /\ session' = [session EXCEPT ![worker[w].of].status = "failed"]
          /\ UNCHANGED faults
       \/ Holds(w) /\ Fault("error") /\ UNCHANGED session
       \/ ~Holds(w) /\ UNCHANGED <<session, faults>>
    /\ Goto(w, "release")
    /\ UNCHANGED <<outputs, tree, late, clock, minted, stalled, retries>>

Release(w) ==
    /\ worker[w].at = "release"
    /\ session' = IF session[worker[w].of].token = worker[w].token
                  THEN [session EXCEPT ![worker[w].of].token = 0, ![worker[w].of].stale = FALSE]
                  ELSE session
    /\ worker' = [worker EXCEPT ![w] = IdleWorker]
    /\ UNCHANGED <<outputs, tree, late, clock, minted, bounds>>

-----------------------------------------------------------------------------
\* A publisher of the task whose claim was taken over activates its version
\* after the task was completed: the time is read first here, too.
LateRead ==
    /\ late = 0 /\ Fault("late")
    /\ late' = clock + 1 /\ clock' = clock + 1
    /\ UNCHANGED <<session, outputs, tree, worker, minted, stalled, retries>>

LateActivate ==
    /\ late # 0
    /\ versions' = versions \cup {Generated(late)} /\ late' = 0
    /\ UNCHANGED <<session, objects, tree, worker, clock, minted, bounds>>

Alive(s) == \E w \in Workers : worker[w].of = s /\ worker[w].token = session[s].token

Crash(w) ==
    /\ worker[w].at # "idle" /\ Fault("crash")
    /\ worker' = [worker EXCEPT ![w] = IdleWorker]
    /\ UNCHANGED <<session, outputs, tree, late, clock, minted, stalled, retries>>

\* The claim's lease duration passes, its holder dead or only slow.
Lapse(s) ==
    /\ session[s].token # 0 /\ ~session[s].stale /\ session[s].status \in Active
    /\ \/ Alive(s) /\ Fault("stall") /\ stalled' = stalled \cup {s}
       \/ ~Alive(s) /\ UNCHANGED <<stalled, faults>>
    /\ session' = [session EXCEPT ![s].stale = TRUE]
    /\ UNCHANGED <<outputs, tree, worker, late, clock, minted, retries>>

Work(w) ==
    \/ Claim(w) \/ Read(w) \/ Enter(w) \/ Clear(w) \/ Fill(w)
    \/ Launch(w) \/ Confirm(w) \/ Exchange(w)
    \/ Look(w) \/ Publish(w) \/ Activate(w) \/ Commit(w)
    \/ Save(w) \/ Fail(w) \/ Release(w)

Next ==
    \/ \E s \in Sessions : Create(s) \/ Freeze(s) \/ Discard(s) \/ Retry(s) \/ Lapse(s)
    \/ \E w \in Workers : Work(w) \/ Crash(w)
    \/ LateRead \/ LateActivate

Spec == Init /\ [][Next]_vars

\* A worker that lives goes on (polling loop, agent timeout), and the time of a
\* claim nobody renews passes.
FairSpec == Spec /\ (\A w \in Workers : WF_vars(Work(w)))
                 /\ (\A s \in Sessions : WF_vars(Lapse(s) /\ ~Alive(s)))
-----------------------------------------------------------------------------
TypeOK ==
    /\ clock \in Nat /\ minted \in Nat /\ late \in 0..clock
    /\ session \in [Sessions -> [status : Statuses, base : 0..clock, token : 0..minted,
                                 stale : BOOLEAN]]
    /\ versions \subseteq Version /\ objects \subseteq 1..minted
    /\ tree \in [Sessions -> SUBSET (1..minted)]
    /\ worker \in [Workers -> [at : Places, of : Sessions \cup {NoSession}, token : 0..minted,
                               status : Statuses, copy : SUBSET (1..minted), now : 0..clock]]
    /\ \A w \in Workers : worker[w].at = "idle" <=> worker[w].of = NoSession

\* EditInvariant: besides the types, a session says it is published only when a
\* version of it, with the session's base as parent, is there: activation and
\* the session's status are one transaction (edit_repository.go:415-472), and
\* nothing takes the status from a worker whose activation was refused.
PublishedHasVersion ==
    \A s \in Sessions : session[s].status = "published" =>
        \E v \in versions : v.of = s /\ v.parent = session[s].base
EditInvariant == TypeOK /\ PublishedHasVersion

\* EditsFormLine: an edited version comes right after its parent among the edits
\* of a task, so no edit silently drops another and no parent has two:
\* CreateEditSession, FreezeEditSession, the look before publishing and the
\* activation compare the base with the latest version (edit_repository.go:187-202,
\* :290-298, :420-427; manual_edit_worker.go:968-974), and hold whatever claims
\* lapse, phases fail or late publishers do between those comparisons.
Edited == {v \in versions : v.of # NoSession}
EditsFormLine ==
    \A u, v \in Edited : ~(v.parent < u.at /\ u.at < v.at) /\ (u.at = v.at => u = v)

\* PublishedByOwner: what is published is the work of the claim that publishes
\* it and of nobody else, when no live worker's claim lapsed:
\* materializeEditWorkspace empties the workspace a dead claim left behind
\* (manual_edit_worker.go:201), and a tree is exchanged only after the claim was
\* renewed (:823-830).
PublishedByOwner ==
    \A v \in versions : v.of \notin stalled \cup {NoSession} => v.content = {v.claim}

\* QueuedEditSettles: an applied session leaves the queue and the phases, as a
\* version, a failure or, retried, either again: a claim its worker abandoned goes
\* stale and is claimable (edit_repository.go:347-357).
QueuedEditSettles ==
    \A s \in Sessions : session[s].status \in Active \ {"draft"} ~>
                        session[s].status \in Ended

\* VersionsAcknowledged: the converse of PublishedHasVersion, a session with a
\* version says so (RetryEditSession takes a failed session to have none).
VersionsAcknowledged ==
    \A v \in Edited : session[v.of].status = "published"

\* VersionsAreStored: the files of an active version are in the store
\* (publishManualEditVersion removes those of a refused activation only, :1021-1023).
VersionsAreStored == \A v \in Edited : v.claim \in objects

\* ActiveSessionsLimited: a task has no more active sessions than its limit
\* allows (edit_repository.go:195-202), also when a session comes back from failure.
ActiveSessionsLimited == Cardinality(ActiveSessions) <= MaxActive
=============================================================================
