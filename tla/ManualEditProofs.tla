--------------------------- MODULE ManualEditProofs ---------------------------
(* For every number of sessions, workers, phases and faults: the rows are well  *)
(* formed, and a version is the work of the claim that published it.  Where a   *)
(* session is retried only while none is active and one may be active, the      *)
(* edits of a task form a line: no claim has two holders, one session is        *)
(* active, and until a worker that read a current row writes the version, no    *)
(* edit is newer than its base.                                                 *)
EXTENDS ManualEdit, FiniteSetTheorems, TLAPS

LEMMA EditConstants ==
    /\ IsFiniteSet(Sessions) /\ NoSession \notin Sessions /\ MaxActive \in Nat \ {0}
    /\ {"materializing", "publishing"} \subseteq Running
    /\ Running \cap ({"none", "draft", "queued"} \cup Ended) = {}
    /\ DOMAIN Following = ({"queued"} \cup Running) \ {"publishing"}
    /\ \A p \in DOMAIN Following : Following[p] \in Running
BY ManualEditAssumption DEF Running

\* Where a worker is says which phase it is in.
PlaceFits(w) ==
    LET r == worker[w]
    IN  /\ r.at = "enter" => r.status \in DOMAIN Following
        /\ r.at \in {"clear", "fill", "launch", "confirm", "exchange"} =>
              r.status \in DOMAIN Following \cap Running
        /\ r.at \in {"look", "publish", "activate", "commit"} => r.status = "publishing"
        /\ r.at = "save" => r.status \in (DOMAIN Following \cap Running) \cup {"published"}

\* A claim has one holder.
ClaimsUnique ==
    /\ \A w \in Workers : worker[w].at # "idle" => worker[w].token > 0
    /\ \A w, x \in Workers :
         worker[w].at # "idle" /\ worker[x].at # "idle" /\ worker[w].token = worker[x].token
            => w = x

OneActive == \A s, t \in Sessions : session[s].status \in Active /\ session[t].status \in Active
                                       => s = t

\* What a current worker read before its version is written stays true of the edits.
BaseIsLast ==
    \A w \in Workers : worker[w].at = "commit" /\ Holds(w) =>
        /\ session[worker[w].of].base < worker[w].now
        /\ \A u \in Edited : u.at <= session[worker[w].of].base

EInv ==
    /\ TypeOK /\ PublishedHasVersion
    /\ \A w \in Workers : PlaceFits(w)
    /\ ClaimsUnique

LineInv == OneActive /\ BaseIsLast /\ EditsFormLine

\* Nothing has happened.
LEMMA EditStarts == Init => EInv /\ LineInv
<1> SUFFICES ASSUME Init PROVE EInv /\ LineInv
  OBVIOUS
<1> USE EditConstants DEF Init, IdleWorker, Generated
<1>1. TypeOK /\ PublishedHasVersion
  BY DEF TypeOK, PublishedHasVersion, Statuses, Places, Version
<1>2. \A w \in Workers : PlaceFits(w)
  BY DEF PlaceFits
<1>3. ClaimsUnique /\ OneActive /\ BaseIsLast
  BY DEF ClaimsUnique, OneActive, BaseIsLast, Active, Ended
<1>4. EditsFormLine
  BY DEF EditsFormLine, Edited
<1> QED BY <1>1, <1>2, <1>3, <1>4 DEF EInv, LineInv

\* The types, variable by variable.
Row == [status : Statuses, base : 0..clock, token : 0..minted, stale : BOOLEAN]
Copy == [at : Places, of : Sessions \cup {NoSession}, token : 0..minted,
         status : Statuses, copy : SUBSET (1..minted), now : 0..clock]
Clocks == clock \in Nat /\ minted \in Nat
Rows == session \in [Sessions -> Row]
Copies == /\ worker \in [Workers -> Copy]
          /\ \A w \in Workers : worker[w].at = "idle" <=> worker[w].of = NoSession
Trees == objects \subseteq 1..minted /\ tree \in [Sessions -> SUBSET (1..minted)]
Times == late \in 0..clock /\ versions \subseteq Version

LEMMA TypesSplit ==
    /\ TypeOK <=> Clocks /\ Rows /\ Copies /\ Trees /\ Times
    /\ TypeOK' <=> Clocks' /\ Rows' /\ Copies' /\ Trees' /\ Times'
BY DEF TypeOK, Clocks, Rows, Row, Copies, Copy, Trees, Times

\* The counters only grow.
Grows == clock \in Nat /\ clock' \in Nat /\ clock <= clock'
         /\ minted \in Nat /\ minted' \in Nat /\ minted <= minted'

LEMMA RangesGrow ==
    ASSUME Grows
    PROVE  /\ 0..clock \subseteq 0..clock' /\ 0..minted \subseteq 0..minted'
           /\ 1..minted \subseteq 1..minted'
BY DEF Grows

\* What nobody writes keeps its type.
LEMMA Stays ==
    ASSUME Grows
    PROVE  /\ Rows /\ UNCHANGED session => Rows'
           /\ Copies /\ UNCHANGED worker => Copies'
           /\ Trees /\ UNCHANGED <<objects, tree>> => Trees'
           /\ Times /\ UNCHANGED <<late, versions>> => Times'
<1>1. 0..clock \subseteq 0..clock' /\ 0..minted \subseteq 0..minted' /\ 1..minted \subseteq 1..minted'
  BY RangesGrow
<1>2. Row \subseteq Row'
  BY <1>1 DEF Row
<1>3. Copy \subseteq Copy'
  BY <1>1 DEF Copy
<1>4. Rows /\ UNCHANGED session => Rows'
  BY <1>2 DEF Rows
<1>5. Copies /\ UNCHANGED worker => Copies'
  BY <1>3 DEF Copies
<1>6. Trees /\ UNCHANGED <<objects, tree>> => Trees'
  BY <1>1 DEF Trees
<1>7. Times /\ UNCHANGED <<late, versions>> => Times'
  <2>1. Version \subseteq Version'
    BY <1>1 DEF Version
  <2> QED
    BY <1>1, <2>1 DEF Times
<1> QED
  BY <1>4, <1>5, <1>6, <1>7

\* One row is written: any of its fields.
LEMMA RowWrites ==
    ASSUME Rows, Grows, NEW s \in Sessions, NEW row \in Row', session' = [session EXCEPT ![s] = row]
    PROVE  Rows'
<1>1. 0..clock \subseteq 0..clock' /\ 0..minted \subseteq 0..minted'
  BY RangesGrow
<1>2. Row \subseteq Row'
  BY <1>1 DEF Row
<1> QED
  BY <1>2 DEF Rows

LEMMA StatusWrites ==
    ASSUME Rows, Grows, NEW s \in Sessions, NEW status \in Statuses,
           session' = [session EXCEPT ![s].status = status]
    PROVE  Rows'
<1>1. 0..clock \subseteq 0..clock' /\ 0..minted \subseteq 0..minted'
  BY RangesGrow
<1>2. session[s] \in Row
  BY DEF Rows
<1>3. [session[s] EXCEPT !.status = status] \in Row'
  BY <1>1, <1>2 DEF Row
<1> QED
  BY <1>3, RowWrites

\* One worker writes its copy.
LEMMA CopyWrites ==
    ASSUME Copies, Grows, NEW w \in Workers, NEW copy \in Copy',
           copy.at = "idle" <=> copy.of = NoSession, worker' = [worker EXCEPT ![w] = copy]
    PROVE  Copies'
<1>1. 0..clock \subseteq 0..clock' /\ 0..minted \subseteq 0..minted' /\ 1..minted \subseteq 1..minted'
  BY RangesGrow
<1>2. Copy \subseteq Copy'
  BY <1>1 DEF Copy
<1> QED
  BY <1>2 DEF Copies

\* A worker goes to a place: what it knows stays.
LEMMA Going ==
    ASSUME Copies, Grows, NEW w \in Workers, NEW place \in Places \ {"idle"},
           worker[w].at # "idle", Goto(w, place)
    PROVE  Copies'
<1>1. 0..clock \subseteq 0..clock' /\ 0..minted \subseteq 0..minted' /\ 1..minted \subseteq 1..minted'
  BY RangesGrow
<1>2. worker[w] \in Copy /\ worker[w].of # NoSession
  BY DEF Copies
<1> DEFINE copy == [worker[w] EXCEPT !.at = place]
<1>3. copy \in Copy' /\ copy.at = place /\ copy.of = worker[w].of
  BY <1>1, <1>2 DEF Copy
<1>4. worker' = [worker EXCEPT ![w] = copy]
  BY <1>2 DEF Goto
<1> QED
  BY <1>2, <1>3, <1>4, CopyWrites

\* Every step keeps the types.
LEMMA SessionTypes ==
    ASSUME TypeOK, NEW s \in Sessions,
           Create(s) \/ Freeze(s) \/ Discard(s) \/ Retry(s) \/ Lapse(s)
    PROVE  TypeOK'
<1>1. Clocks /\ Rows /\ Copies /\ Trees /\ Times
  BY TypesSplit
<1>2. Grows /\ UNCHANGED <<clock, minted, worker, objects, tree, late, versions>>
  BY <1>1 DEF Create, Freeze, Discard, Retry, Lapse, Clocks, Grows, outputs
<1>3. Clocks' /\ Copies' /\ Trees' /\ Times'
  BY <1>1, <1>2, Stays DEF Clocks
<1>4. session[s] \in Row /\ Statuses = {"none", "draft", "queued"} \cup Running \cup Ended
  BY <1>1 DEF Rows, Statuses, Active
<1> USE <1>1, <1>2, <1>4
<1>5. ASSUME Create(s) PROVE Rows'
  <2>1. PICK v \in versions : session' = [session EXCEPT ![s] =
            [status |-> "draft", base |-> v.at, token |-> 0, stale |-> FALSE]] /\ IsLatest(v.at)
    BY <1>5 DEF Create
  <2>2. v.at \in 0..clock
    BY DEF Times, Version
  <2>3. [status |-> "draft", base |-> v.at, token |-> 0, stale |-> FALSE] \in Row'
    BY <2>2 DEF Row, Clocks
  <2> QED
    BY <2>1, <2>3, RowWrites
<1>6. ASSUME Freeze(s) PROVE Rows'
  <2> DEFINE status == IF IsLatest(session[s].base) THEN "queued" ELSE "stale"
  <2>1. status \in Statuses /\ session' = [session EXCEPT ![s].status = status]
    BY <1>6 DEF Freeze, Ended
  <2> QED
    BY <2>1, StatusWrites
<1>7. ASSUME Discard(s) PROVE Rows'
  BY <1>7, StatusWrites DEF Discard, Ended
<1>8. ASSUME Retry(s) PROVE Rows'
  <2>1. "queued" \in Statuses /\ 0 \in 0..minted
    BY DEF Clocks
  <2>2. session' = [session EXCEPT ![s].status = "queued", ![s].token = 0, ![s].stale = FALSE]
    BY <1>8 DEF Retry
  <2> QED
    BY <2>1, <2>2 DEF Rows, Row
<1>9. ASSUME Lapse(s) PROVE Rows'
  <2> DEFINE row == [session[s] EXCEPT !.stale = TRUE]
  <2>1. row \in Row'
    BY DEF Row
  <2>2. session' = [session EXCEPT ![s] = row]
    BY <1>9 DEF Lapse
  <2> QED
    BY <2>1, <2>2, RowWrites
<1> QED
  BY <1>3, <1>5, <1>6, <1>7, <1>8, <1>9, TypesSplit

\* It writes its place and one field more.
LEMMA FieldWrites ==
    ASSUME Copies, Grows, NEW w \in Workers, worker[w].at # "idle",
           NEW place \in Places \ {"idle"},
           \/ \E status \in Statuses :
                 \/ worker' = [worker EXCEPT ![w].status = status, ![w].at = place]
                 \/ worker' = [worker EXCEPT ![w].at = place, ![w].status = status]
           \/ \E copy \in SUBSET (1..minted) :
                 worker' = [worker EXCEPT ![w].at = place, ![w].copy = copy]
           \/ \E now \in 0..clock' :
                 worker' = [worker EXCEPT ![w].at = place, ![w].now = now]
    PROVE  Copies'
<1>1. 0..clock \subseteq 0..clock' /\ 0..minted \subseteq 0..minted' /\ 1..minted \subseteq 1..minted'
  BY RangesGrow
<1>2. Copy \subseteq Copy'
  BY <1>1 DEF Copy
<1>3. worker[w] \in Copy /\ worker[w].of # NoSession
  BY DEF Copies
<1>4. worker \in [Workers -> Copy'] /\ SUBSET (1..minted) \subseteq SUBSET (1..minted')
  BY <1>1, <1>2 DEF Copies
<1>5. worker' \in [Workers -> Copy'] /\ worker'[w].at = place /\ worker'[w].of = worker[w].of
         /\ \A x \in Workers \ {w} : worker'[x] = worker[x]
  <2>1. CASE \E status \in Statuses :
                \/ worker' = [worker EXCEPT ![w].status = status, ![w].at = place]
                \/ worker' = [worker EXCEPT ![w].at = place, ![w].status = status]
    BY <1>4, <2>1 DEF Copy
  <2>2. CASE \E copy \in SUBSET (1..minted) :
                worker' = [worker EXCEPT ![w].at = place, ![w].copy = copy]
    <3>1. PICK copy \in SUBSET (1..minted') :
               worker' = [worker EXCEPT ![w].at = place, ![w].copy = copy]
      BY <1>4, <2>2
    <3> QED
      BY <1>4, <3>1 DEF Copy
  <2>3. CASE \E now \in 0..clock' : worker' = [worker EXCEPT ![w].at = place, ![w].now = now]
    <3>1. PICK now \in 0..clock' :
               worker' = [worker EXCEPT ![w].at = place, ![w].now = now]
      BY <2>3
    <3> QED
      BY <1>4, <3>1 DEF Copy
  <2> QED
    BY <2>1, <2>2, <2>3
<1> QED
  BY <1>3, <1>5 DEF Copies

\* What a worker's step leaves alone, and where the step is.
LEMMA WorkerSteps ==
    ASSUME Clocks, NEW w \in Workers, Work(w) \/ Crash(w)
    PROVE  /\ Grows /\ late' = late
           /\ minted' = minted \/ (Claim(w) /\ minted' = minted + 1)
           /\ clock' = clock \/ (Activate(w) /\ clock' = clock + 1)
<1>1. CASE Claim(w)
  <2>1. clock' = clock /\ late' = late /\ minted' = minted + 1
    BY <1>1 DEF Claim
  <2> QED
    BY <1>1, <2>1 DEF Clocks, Grows
<1>2. CASE Activate(w)
  BY <1>2 DEF Activate, Clocks, Grows
<1>3. CASE Read(w) \/ Enter(w) \/ Clear(w) \/ Fill(w) \/ Launch(w) \/ Confirm(w)
             \/ Exchange(w) \/ Look(w) \/ Publish(w) \/ Commit(w) \/ Save(w) \/ Fail(w)
             \/ Release(w) \/ Crash(w)
  BY <1>3 DEF Read, Enter, Clear, Fill, Launch, Confirm, Exchange, Look, Publish, Commit, Save,
              Fail, Release, Crash, Clocks, Grows
<1> QED
  BY <1>1, <1>2, <1>3 DEF Work

\* The rows after a worker's step.
LEMMA WorkerRows ==
    ASSUME Clocks, Rows, Copies, NEW w \in Workers, PlaceFits(w), Work(w) \/ Crash(w)
    PROVE  Rows'
<1>1. Grows
  BY WorkerSteps
<1>2. CASE UNCHANGED session
  BY <1>1, <1>2, Stays
<1>10. CASE Read(w) \/ Clear(w) \/ Fill(w) \/ Exchange(w) \/ Look(w) \/ Publish(w)
              \/ Activate(w) \/ Save(w) \/ Crash(w)
  <2>1. UNCHANGED session
    BY <1>10 DEF Read, Clear, Fill, Exchange, Look, Publish, Activate, Save, Crash
  <2> QED
    BY <1>2, <2>1
<1>3. worker[w] \in Copy /\ (worker[w].at # "idle" => worker[w].of \in Sessions)
  BY DEF Copies, Copy
<1> USE DEF Statuses, Active, Ended
<1>4. CASE Claim(w)
  BY <1>4 DEF Claim, Rows, Row, Clocks
<1>5. CASE Enter(w)
  <2>1. CASE ~Holds(w)
    BY <1>2, <1>5, <2>1 DEF Enter
  <2>2. CASE UNCHANGED session
    BY <1>2, <2>2
  <2>3. CASE Holds(w) /\ session' # session
    <3>1. Following[worker[w].status] \in Statuses
      BY <1>5, EditConstants DEF Enter, PlaceFits
    <3>2. session' = [session EXCEPT ![worker[w].of].status = Following[worker[w].status]]
      BY <1>5, <2>3 DEF Enter
    <3> QED
      BY <1>1, <1>3, <1>5, <3>1, <3>2, StatusWrites DEF Enter
  <2> QED
    BY <2>1, <2>2, <2>3
<1>6. CASE Launch(w) \/ Confirm(w)
  <2>1. UNCHANGED session \/ Renewed(w)
    BY <1>6 DEF Launch, Confirm
  <2>2. UNCHANGED <<clock, minted>> /\ worker[w].of \in Sessions
    BY <1>3, <1>6 DEF Launch, Confirm
  <2>3. CASE Renewed(w)
    BY <2>2, <2>3 DEF Renewed, Rows, Row
  <2> QED
    BY <1>2, <2>1, <2>3
<1>7. CASE Commit(w)
  <2>1. UNCHANGED session \/ session' = [session EXCEPT ![worker[w].of].status = "published"]
    BY <1>7 DEF Commit
  <2>2. worker[w].of \in Sessions
    BY <1>3, <1>7 DEF Commit
  <2> QED
    BY <1>1, <1>2, <2>1, <2>2, StatusWrites
<1>8. CASE Fail(w)
  <2>1. UNCHANGED session \/ session' = [session EXCEPT ![worker[w].of].status = "failed"]
    BY <1>8 DEF Fail
  <2>2. worker[w].of \in Sessions
    BY <1>3, <1>8 DEF Fail
  <2> QED
    BY <1>1, <1>2, <2>1, <2>2, StatusWrites
<1>9. CASE Release(w)
  <2>1. UNCHANGED <<clock, minted>> /\ worker[w].of \in Sessions
    BY <1>3, <1>9 DEF Release
  <2>2. UNCHANGED session \/ session' =
          [session EXCEPT ![worker[w].of].token = 0, ![worker[w].of].stale = FALSE]
    BY <1>9 DEF Release
  <2>3. CASE session' = [session EXCEPT ![worker[w].of].token = 0, ![worker[w].of].stale = FALSE]
    BY <2>1, <2>3 DEF Rows, Row, Clocks
  <2> QED
    BY <1>2, <2>2, <2>3
<1> QED
  BY <1>4, <1>5, <1>6, <1>7, <1>8, <1>9, <1>10 DEF Work

\* The copies after a worker's step.
LEMMA WorkerCopies ==
    ASSUME Clocks, Rows, Copies, Trees, NEW w \in Workers, PlaceFits(w), Work(w) \/ Crash(w),
           worker[w].at # "idle" => worker[w].token > 0
    PROVE  Copies'
<1>1. Grows
  BY WorkerSteps
<1>2. worker[w] \in Copy /\ (worker[w].at # "idle" => worker[w].of \in Sessions)
  BY DEF Copies, Copy
<1>3. CASE worker[w].at # "idle" /\ \E place \in Places \ {"idle"} : Goto(w, place)
  BY <1>1, <1>3, Going
<1>4. CASE worker' = [worker EXCEPT ![w] = IdleWorker]
  <2>1. IdleWorker \in Copy' /\ IdleWorker.at = "idle" /\ IdleWorker.of = NoSession
    BY <1>1 DEF IdleWorker, Copy, Grows, Places, Statuses
  <2> QED
    BY <1>1, <1>4, <2>1, CopyWrites
<1>5. CASE Claim(w)
  <2>1. PICK s \in Sessions :
            worker' = [worker EXCEPT ![w].at = "read", ![w].of = s, ![w].token = minted + 1]
    BY <1>5 DEF Claim
  <2>2. minted' = minted + 1 /\ clock' = clock
    BY <1>5 DEF Claim
  <2>3. minted + 1 \in 0..minted' /\ "read" \in Places
    BY <1>1, <2>2 DEF Grows, Places
  <2>4. Copy \subseteq Copy'
    BY <1>1, RangesGrow DEF Copy
  <2>5. worker \in [Workers -> Copy'] /\ worker[w] \in Copy'
    BY <2>4 DEF Copies
  <2>6. worker' \in [Workers -> Copy'] /\ worker'[w].at = "read" /\ worker'[w].of = s
            /\ \A x \in Workers \ {w} : worker'[x] = worker[x]
    BY <2>1, <2>3, <2>5 DEF Copy
  <2> QED
    BY <2>6, EditConstants DEF Copies
<1>6. CASE Read(w)
  <2>1. CASE worker' = [worker EXCEPT ![w].status = session[worker[w].of].status,
                ![w].at = IF session[worker[w].of].status = "queued" THEN "enter" ELSE "fail"]
    <3>1. session[worker[w].of].status \in Statuses /\ UNCHANGED <<clock, minted>>
      BY <1>2, <1>6 DEF Read, Rows, Row
    <3>2. worker[w].of \in Sessions
      BY <1>2, <1>6 DEF Read
    <3> DEFINE place == IF session[worker[w].of].status = "queued" THEN "enter" ELSE "fail"
    <3>3. worker[w].at # "idle" /\ place \in Places \ {"idle"}
      BY <1>6 DEF Read, Places
    <3>4. \E status \in Statuses : worker' = [worker EXCEPT ![w].status = status, ![w].at = place]
      BY <2>1, <3>1
    <3> HIDE DEF place
    <3> QED
      BY <1>1, <3>3, <3>4, FieldWrites
  <2>2. CASE Goto(w, "release")
    <3>1. UNCHANGED <<clock, minted>> /\ worker[w].at # "idle" /\ "release" \in Places
      BY <1>6 DEF Read, Places
    <3> QED
      BY <1>3, <2>2, <3>1
  <2> QED
    BY <1>4, <1>6, <2>1, <2>2 DEF Read
<1>7. CASE Enter(w)
  <2> DEFINE to == Following[worker[w].status]
  <2>1. worker[w].of \in Sessions /\ worker[w].at = "enter" /\ UNCHANGED <<clock, minted>>
    BY <1>2, <1>7 DEF Enter
  <2>2. to \in Statuses
    BY <2>1, EditConstants DEF PlaceFits, Statuses, Active
  <2>3. FirstPlace(to) \in Places \ {"idle"} /\ "fail" \in Places \ {"idle"}
    BY DEF FirstPlace, Places
  <2>4. \/ \E place \in Places \ {"idle"} :
              worker' = [worker EXCEPT ![w].status = to, ![w].at = place]
        \/ Goto(w, "release")
    BY <1>7, <2>3 DEF Enter
  <2>5. ASSUME NEW place \in Places \ {"idle"},
               worker' = [worker EXCEPT ![w].status = to, ![w].at = place]
        PROVE Copies'
    BY <1>1, <2>1, <2>2, <2>5, FieldWrites
  <2> QED
    BY <1>3, <2>1, <2>4, <2>5 DEF Places
<1>8. CASE Launch(w) \/ Publish(w)
  <2>1. worker[w].of \in Sessions /\ worker[w].at # "idle" /\ UNCHANGED <<clock, minted>>
    BY <1>2, <1>8 DEF Launch, Publish
  <2>2. \/ \E place \in {"confirm", "activate"}, copy \in SUBSET (1..minted) :
              worker' = [worker EXCEPT ![w].at = place, ![w].copy = copy]
        \/ Goto(w, "save") \/ Goto(w, "fail")
    <3>1. tree[worker[w].of] \subseteq 1..minted
      BY <2>1 DEF Trees
    <3>2. CASE Launch(w)
      <4>1. worker[w].token \in 1..minted
        BY <1>2, <3>2 DEF Launch, Clocks, Copy
      <4> QED
        BY <3>1, <3>2, <4>1 DEF Launch
    <3>3. CASE Publish(w)
      BY <3>1, <3>3 DEF Publish
    <3> QED
      BY <1>8, <3>2, <3>3
  <2>3. ASSUME NEW place \in {"confirm", "activate"}, NEW copy \in SUBSET (1..minted),
               worker' = [worker EXCEPT ![w].at = place, ![w].copy = copy]
        PROVE Copies'
    BY <1>1, <2>1, <2>3, FieldWrites DEF Places
  <2> QED
    BY <1>3, <2>1, <2>2, <2>3 DEF Places
<1>9. CASE Activate(w)
  <2>1. worker[w].of \in Sessions /\ worker[w].at # "idle"
           /\ clock' = clock + 1 /\ UNCHANGED minted
    BY <1>2, <1>9 DEF Activate
  <2>2. \/ worker' = [worker EXCEPT ![w].at = "commit", ![w].now = clock + 1]
        \/ Goto(w, "fail")
    BY <1>9 DEF Activate, Withdrawn
  <2>3. CASE worker' = [worker EXCEPT ![w].at = "commit", ![w].now = clock + 1]
    <3>1. clock + 1 \in 0..clock' /\ "commit" \in Places \ {"idle"}
      BY <2>1 DEF Clocks, Places
    <3> QED
      BY <1>1, <2>1, <2>3, <3>1, FieldWrites
  <2> QED
    BY <1>3, <2>1, <2>2, <2>3 DEF Places
<1>10. CASE Commit(w)
  <2>1. worker[w].of \in Sessions /\ worker[w].at # "idle" /\ UNCHANGED <<clock, minted>>
    BY <1>2, <1>10 DEF Commit
  <2>2. \/ worker' = [worker EXCEPT ![w].at = "save", ![w].status = "published"]
        \/ Goto(w, "fail")
    BY <1>10 DEF Commit, Withdrawn
  <2>3. CASE worker' = [worker EXCEPT ![w].at = "save", ![w].status = "published"]
    BY <1>1, <2>1, <2>3, FieldWrites DEF Places, Statuses, Ended
  <2> QED
    BY <1>3, <2>1, <2>2, <2>3 DEF Places
<1>11. CASE Clear(w) \/ Fill(w) \/ Confirm(w) \/ Exchange(w) \/ Look(w) \/ Save(w) \/ Fail(w)
  <2>1. \E place \in Places \ {"idle"} : Goto(w, place)
    BY <1>11 DEF Clear, Fill, Confirm, Exchange, Look, Save, Fail, Places
  <2>2. worker[w].at # "idle"
    BY <1>11 DEF Clear, Fill, Confirm, Exchange, Look, Save, Fail
  <2> QED
    BY <1>3, <2>1, <2>2
<1>12. CASE Release(w) \/ Crash(w)
  BY <1>4, <1>12 DEF Release, Crash
<1> QED
  BY <1>5, <1>6, <1>7, <1>8, <1>9, <1>10, <1>11, <1>12 DEF Work

\* Every step keeps the types.
LEMMA TypesKept ==
    ASSUME TypeOK, \A w \in Workers : PlaceFits(w), ClaimsUnique, [Next]_vars
    PROVE  TypeOK'
<1>1. Clocks /\ Rows /\ Copies /\ Trees /\ Times
  BY TypesSplit
<1>2. CASE \E s \in Sessions : Create(s) \/ Freeze(s) \/ Discard(s) \/ Retry(s) \/ Lapse(s)
  BY <1>2, SessionTypes
<1>3. ASSUME NEW w \in Workers, Work(w) \/ Crash(w) PROVE TypeOK'
  <2>1. Grows /\ late' = late
    BY <1>1, <1>3, WorkerSteps
  <2>2. Rows' /\ Copies'
    BY <1>1, <1>3, WorkerRows, WorkerCopies DEF ClaimsUnique
  <2>3. worker[w] \in Copy /\ (worker[w].at # "idle" => worker[w].of \in Sessions)
    BY <1>1 DEF Copies, Copy
  <2>4. worker[w].at # "idle" => worker[w].token \in 1..minted
    BY <1>1, <2>3 DEF ClaimsUnique, Copy, Clocks
  <2>5. Trees'
    <3>1. CASE UNCHANGED <<objects, tree>>
      BY <1>1, <2>1, <3>1, Stays
    <3>2. CASE UNCHANGED <<clock, minted>>
               /\ objects' \subseteq 1..minted /\ tree' \in [Sessions -> SUBSET (1..minted)]
      BY <3>2 DEF Trees
    <3>3. CASE Clear(w) \/ Fill(w) \/ Exchange(w)
      <4>1. UNCHANGED <<clock, minted, objects>> /\ worker[w].at # "idle"
        BY <3>3 DEF Clear, Fill, Exchange, outputs
      <4>2. \E new \in SUBSET (1..minted) : tree' = [tree EXCEPT ![worker[w].of] = new] \/ tree' = tree
        <5>1. tree[worker[w].of] \cup {worker[w].token} \in SUBSET (1..minted)
                /\ worker[w].copy \in SUBSET (1..minted) /\ {} \in SUBSET (1..minted)
          BY <1>1, <2>3, <2>4, <4>1 DEF Trees, Copy
        <5> QED
          BY <3>3, <5>1 DEF Clear, Fill, Worked, Exchange
      <4> QED
        BY <1>1, <2>3, <3>2, <4>1, <4>2 DEF Trees
    <3>4. CASE Publish(w)
      BY <1>1, <2>4, <3>2, <3>4 DEF Publish, Trees
    <3>5. CASE Activate(w)
      <4>1. UNCHANGED <<minted, tree>> /\ objects' \subseteq objects
        BY <3>5 DEF Activate, Withdrawn
      <4> QED
        BY <1>1, <4>1 DEF Trees
    <3>6. CASE Commit(w)
      <4>1. UNCHANGED <<clock, minted, tree>> /\ objects' \subseteq objects
        BY <3>6 DEF Commit, Withdrawn
      <4> QED
        BY <1>1, <3>2, <4>1 DEF Trees
    <3>7. CASE Claim(w) \/ Read(w) \/ Enter(w) \/ Confirm(w) \/ Look(w)
               \/ Save(w) \/ Fail(w) \/ Release(w) \/ Crash(w)
      BY <3>1, <3>7 DEF Claim, Read, Enter, Confirm, Look, Save, Fail, Release, Crash, outputs
    <3>8. CASE Launch(w)
      <4>1. UNCHANGED <<clock, minted, objects>> /\ worker[w].at # "idle"
               /\ (Worked(w) \/ UNCHANGED tree)
        BY <3>8 DEF Launch, outputs
      <4>2. tree[worker[w].of] \cup {worker[w].token} \in SUBSET (1..minted)
        BY <1>1, <2>3, <2>4, <4>1 DEF Trees, Copy
      <4> QED
        BY <1>1, <2>3, <3>2, <4>1, <4>2 DEF Trees, Worked
    <3> QED
      BY <1>3, <3>3, <3>4, <3>5, <3>6, <3>7, <3>8 DEF Work
  <2>6. Times'
    <3>1. CASE UNCHANGED versions
      BY <1>1, <2>1, <3>1, Stays
    <3>2. CASE Commit(w)
      <4> DEFINE edited == [at |-> worker[w].now, of |-> worker[w].of,
                            parent |-> session[worker[w].of].base,
                            claim |-> worker[w].token, content |-> worker[w].copy]
      <4>1. worker[w].of \in Sessions /\ UNCHANGED <<clock, minted>>
        BY <2>3, <3>2 DEF Commit
      <4>2. edited \in Version
        BY <1>1, <2>3, <4>1 DEF Rows, Row, Copy, Version
      <4>3. versions' \subseteq versions \cup {edited}
        BY <3>2 DEF Commit
      <4> HIDE DEF edited
      <4> QED
        BY <1>1, <2>1, <4>1, <4>2, <4>3 DEF Times, Version
    <3>3. CASE ~Commit(w)
      <4>1. UNCHANGED versions
        BY <1>3, <3>3 DEF Work, Claim, Read, Enter, Clear, Fill, Launch, Confirm, Exchange, Look,
              Publish, Activate, Save, Fail, Release, Crash, outputs
      <4> QED
        BY <3>1, <4>1
    <3> QED
      BY <3>2, <3>3
  <2> QED
    BY <1>1, <2>1, <2>2, <2>5, <2>6, TypesSplit DEF Clocks, Grows
<1>4. CASE LateRead
  <2>1. Grows /\ late' = clock + 1 /\ clock' = clock + 1 /\ UNCHANGED <<session, versions, objects, tree, worker, minted>>
    BY <1>1, <1>4 DEF LateRead, Clocks, Grows, outputs
  <2>2. Rows' /\ Copies' /\ Trees' /\ Clocks'
    BY <1>1, <2>1, Stays DEF Clocks
  <2>3. Times'
    BY <1>1, <2>1, RangesGrow DEF Times, Version, Clocks
  <2> QED
    BY <2>2, <2>3, TypesSplit
<1>5. CASE LateActivate
  <2>1. Grows /\ UNCHANGED <<session, objects, tree, worker, clock, minted>>
    BY <1>1, <1>5 DEF LateActivate, Clocks, Grows
  <2>2. Rows' /\ Copies' /\ Trees' /\ Clocks'
    BY <1>1, <2>1, Stays DEF Clocks
  <2>3. Times'
    <3>1. Generated(late) \in Version /\ 0 \in 0..clock
      BY <1>1 DEF Generated, Version, Clocks, Times
    <3> QED
      BY <1>1, <1>5, <2>1, <3>1 DEF LateActivate, Times, Version
  <2> QED
    BY <2>2, <2>3, TypesSplit
<1>6. CASE UNCHANGED vars
  BY <1>6 DEF vars, outputs, TypeOK, Version
<1> QED
  BY <1>2, <1>3, <1>4, <1>5, <1>6 DEF Next

\* Only the worker that steps moves.
LEMMA OthersStay ==
    ASSUME Copies, NEW w \in Workers, Work(w) \/ Crash(w)
    PROVE  \A x \in Workers \ {w} : worker'[x] = worker[x]
<1>1. CASE Claim(w)
  BY <1>1 DEF Claim, Copies
<1>2. CASE Read(w) \/ Enter(w) \/ Launch(w)
  BY <1>2 DEF Read, Enter, Launch, Goto, Copies
<1>3. CASE Publish(w) \/ Activate(w) \/ Commit(w)
  BY <1>3 DEF Publish, Activate, Commit, Withdrawn, Goto, Copies
<1>4. CASE Clear(w) \/ Fill(w) \/ Confirm(w) \/ Exchange(w) \/ Look(w) \/ Save(w) \/ Fail(w)
              \/ Release(w) \/ Crash(w)
  BY <1>4 DEF Clear, Fill, Confirm, Exchange, Look, Save, Fail, Release, Crash, Goto, Copies
<1> QED
  BY <1>1, <1>2, <1>3, <1>4 DEF Work

\* A worker keeps its session and its token until it is idle again.
LEMMA WorkerKeeps ==
    ASSUME Copies, NEW w \in Workers, Work(w) \/ Crash(w), ~Claim(w)
    PROVE  /\ worker[w].at # "idle"
           /\ \/ worker'[w].at = "idle"
              \/ worker'[w].of = worker[w].of /\ worker'[w].token = worker[w].token
<1> USE DEF Copies, Copy
<1>1. CASE Read(w)
  BY <1>1 DEF Read, Goto, IdleWorker
<1>2. CASE Enter(w) \/ Launch(w)
  BY <1>2 DEF Enter, Launch, Goto
<1>3. CASE Publish(w) \/ Activate(w) \/ Commit(w)
  BY <1>3 DEF Publish, Activate, Commit, Withdrawn, Goto
<1>4. CASE Clear(w) \/ Fill(w) \/ Confirm(w) \/ Exchange(w) \/ Look(w) \/ Save(w) \/ Fail(w)
  BY <1>4 DEF Clear, Fill, Confirm, Exchange, Look, Save, Fail, Goto
<1>5. CASE Release(w) \/ Crash(w)
  BY <1>5 DEF Release, Crash, IdleWorker
<1> QED
  BY <1>1, <1>2, <1>3, <1>4, <1>5 DEF Work

\* A token is minted once, so a claim has one holder.
LEMMA ClaimsStayUnique ==
    ASSUME TypeOK, ClaimsUnique, [Next]_vars
    PROVE  ClaimsUnique'
<1>1. Clocks /\ Copies
  BY TypesSplit
<1>2. \A x \in Workers : worker[x].token <= minted
  BY <1>1 DEF Copies, Copy, Clocks
<1>3. CASE UNCHANGED worker
  BY <1>3 DEF ClaimsUnique
<1>4. ASSUME NEW w \in Workers, Work(w) \/ Crash(w) PROVE ClaimsUnique'
  <2>1. \A x \in Workers \ {w} : worker'[x] = worker[x]
    BY <1>1, <1>4, OthersStay
  <2>2. CASE Claim(w)
    <3>1. worker'[w].token = minted + 1
      BY <1>1, <2>2 DEF Claim, Copies, Copy
    <3> QED
      BY <1>1, <1>2, <2>1, <3>1 DEF ClaimsUnique, Clocks
  <2>3. CASE ~Claim(w)
    BY <1>1, <1>4, <2>1, <2>3, WorkerKeeps DEF ClaimsUnique
  <2> QED
    BY <2>2, <2>3
<1>5. CASE \E s \in Sessions : Create(s) \/ Freeze(s) \/ Discard(s) \/ Retry(s) \/ Lapse(s)
  BY <1>3, <1>5 DEF Create, Freeze, Discard, Retry, Lapse
<1> QED
  BY <1>3, <1>4, <1>5 DEF Next, LateRead, LateActivate, vars

\* A place fits the phase its worker entered.
LEMMA PlacesStayFit ==
    ASSUME TypeOK, \A w \in Workers : PlaceFits(w), [Next]_vars
    PROVE  \A w \in Workers : PlaceFits(w)'
<1>1. Copies
  BY TypesSplit
<1>2. ASSUME NEW x \in Workers, worker'[x] = worker[x] PROVE PlaceFits(x)'
  BY <1>2 DEF PlaceFits
<1>3. CASE UNCHANGED worker
  BY <1>2, <1>3
<1>4. ASSUME NEW w \in Workers, Work(w) \/ Crash(w) PROVE \A x \in Workers : PlaceFits(x)'
  <2>1. \A x \in Workers \ {w} : worker'[x] = worker[x]
    BY <1>1, <1>4, OthersStay
  <2> USE <1>1, EditConstants DEF PlaceFits, Copies, Copy
  <2>2. ASSUME Claim(w) PROVE PlaceFits(w)'
    BY <2>2 DEF Claim
  <2>3. ASSUME Read(w) PROVE PlaceFits(w)'
    BY <2>3 DEF Read, Goto, IdleWorker
  <2>4. ASSUME Enter(w) PROVE PlaceFits(w)'
    <3> DEFINE to == Following[worker[w].status]
    <3>1. to \in Running
      BY <2>4 DEF Enter
    <3>2. to \in DOMAIN Following \cap Running \/ to = "publishing"
      BY <3>1
    <3>3. \/ worker'[w].status = to /\ worker'[w].at \in {FirstPlace(to), "fail"}
          \/ worker'[w].at = "release"
      BY <2>4 DEF Enter, Goto
    <3> QED
      BY <3>2, <3>3 DEF FirstPlace
  <2>5. ASSUME Launch(w) \/ Publish(w) \/ Activate(w) \/ Commit(w) PROVE PlaceFits(w)'
    BY <2>5 DEF Launch, Publish, Activate, Commit, Withdrawn, Goto
  <2>6. ASSUME Clear(w) \/ Fill(w) \/ Confirm(w) \/ Exchange(w) \/ Look(w) \/ Fail(w) PROVE PlaceFits(w)'
    BY <2>6 DEF Clear, Fill, Confirm, Exchange, Look, Fail, Goto
  <2>7. ASSUME Save(w) PROVE PlaceFits(w)'
    BY <2>7 DEF Save, Goto
  <2>8. ASSUME Release(w) \/ Crash(w) PROVE PlaceFits(w)'
    BY <2>8 DEF Release, Crash, IdleWorker
  <2>9. PlaceFits(w)'
    BY <1>4, <2>2, <2>3, <2>4, <2>5, <2>6, <2>7, <2>8 DEF Work
  <2> QED
    BY <1>2, <2>1, <2>9
<1>5. CASE \E s \in Sessions : Create(s) \/ Freeze(s) \/ Discard(s) \/ Retry(s) \/ Lapse(s)
  BY <1>3, <1>5 DEF Create, Freeze, Discard, Retry, Lapse
<1> QED
  BY <1>3, <1>4, <1>5 DEF Next, LateRead, LateActivate, vars

\* What a worker's step does to the rows.
LEMMA RowsMove ==
    ASSUME TypeOK, NEW w \in Workers, PlaceFits(w), Work(w) \/ Crash(w), NEW s \in Sessions
    PROVE  /\ session'[s].base = session[s].base
           /\ \/ session'[s].status = session[s].status /\ session'[s].token = session[s].token
              \/ Claim(w) /\ session[s].status \in Active /\ session'[s].status = "queued"
              \/ /\ s = worker[w].of
                 /\ \/ /\ Enter(w) /\ Holds(w) /\ session[s].status \in Active
                       /\ session'[s].token = session[s].token
                    \/ Commit(w) /\ Holds(w) /\ session'[s].status = "published"
                    \/ session'[s].status = "failed"
                    \/ session'[s].token = 0 /\ session'[s].status = session[s].status
<1>1. session \in [Sessions -> Row]
  BY TypesSplit DEF Rows
<1>2. CASE Claim(w)
  <2>1. PICK q \in Sessions :
            /\ session[q].status \in Active
            /\ session' = [session EXCEPT ![q].status = "queued", ![q].token = minted + 1,
                                         ![q].stale = FALSE]
    BY <1>2 DEF Claim, Claimable
  <2>2. session'[s].base = session[s].base
           /\ (s # q => session'[s] = session[s]) /\ session'[q].status = "queued"
    BY <1>1, <2>1 DEF Row
  <2> QED
    BY <1>2, <2>1, <2>2
<1>3. CASE Enter(w)
  <2>1. Holds(w) => session[worker[w].of].status \in Active
    BY <1>3, EditConstants DEF Enter, Holds, PlaceFits, Active
  <2> QED
    BY <1>1, <1>3, <2>1 DEF Enter, Row
<1>4. CASE Commit(w)
  BY <1>1, <1>4 DEF Commit, Row
<1>5. CASE Fail(w)
  BY <1>1, <1>5 DEF Fail, Row
<1>6. CASE Release(w)
  BY <1>1, <1>6 DEF Release, Row
<1>7. CASE Launch(w) \/ Confirm(w)
  BY <1>1, <1>7 DEF Launch, Confirm, Renewed, Row
<1>8. CASE Read(w) \/ Clear(w) \/ Fill(w) \/ Exchange(w) \/ Look(w) \/ Publish(w)
              \/ Activate(w) \/ Save(w) \/ Crash(w)
  BY <1>8 DEF Read, Clear, Fill, Exchange, Look, Publish, Activate, Save, Crash
<1> QED
  BY <1>2, <1>3, <1>4, <1>5, <1>6, <1>7, <1>8 DEF Work

\* Only an activation adds an edit, and only of a worker that holds its claim.
LEMMA VersionsMove ==
    ASSUME NEW w \in Workers, Work(w) \/ Crash(w), versions' # versions
    PROVE  Commit(w) /\ Holds(w) /\ versions' = versions \cup
              {[at |-> worker[w].now, of |-> worker[w].of, parent |-> session[worker[w].of].base,
                claim |-> worker[w].token, content |-> worker[w].copy]}
<1>1. CASE Commit(w)
  BY <1>1 DEF Commit
<1>2. CASE ~Commit(w)
  BY <1>2 DEF Work, Claim, Read, Enter, Clear, Fill, Launch, Confirm, Exchange, Look,
              Publish, Activate, Save, Fail, Release, Crash, outputs
<1> QED
  BY <1>1, <1>2

\* The status and the version are written together.
LEMMA PublishedStays ==
    ASSUME TypeOK, \A w \in Workers : PlaceFits(w), PublishedHasVersion, [Next]_vars
    PROVE  PublishedHasVersion'
<1>1. Rows /\ Copies
  BY TypesSplit
<1>2. SUFFICES ASSUME NEW s \in Sessions, session'[s].status = "published"
               PROVE  \E v \in versions' : v.of = s /\ v.parent = session'[s].base
  BY DEF PublishedHasVersion
<1>3. CASE session[s].status = "published" /\ session'[s].base = session[s].base
           /\ versions \subseteq versions'
  BY <1>3 DEF PublishedHasVersion
<1>4. ASSUME NEW w \in Workers, Work(w) \/ Crash(w)
      PROVE  \E v \in versions' : v.of = s /\ v.parent = session'[s].base
  <2>1. versions \subseteq versions'
    BY <1>4, VersionsMove
  <2>2. CASE session[s].status = "published"
    BY <1>3, <1>4, <2>1, <2>2, RowsMove
  <2>3. CASE session[s].status # "published"
    <3>1. CASE Enter(w) /\ Holds(w) /\ s = worker[w].of
      <4>1. session'[s].status = Following[worker[w].status]
        BY <1>1, <1>2, <2>3, <3>1 DEF Enter, Rows, Row
      <4>2. Following[worker[w].status] \in Running
        BY <3>1, EditConstants DEF Enter, PlaceFits
      <4> QED
        BY <1>2, <4>1, <4>2, EditConstants DEF Ended
    <3>2. CASE Commit(w) /\ Holds(w) /\ s = worker[w].of
      <4>1. /\ versions' = versions \cup
                  {[at |-> worker[w].now, of |-> worker[w].of,
                    parent |-> session[worker[w].of].base,
                    claim |-> worker[w].token, content |-> worker[w].copy]}
            /\ session' = [session EXCEPT ![worker[w].of].status = "published"]
        BY <3>2 DEF Commit
      <4>2. session'[s].base = session[worker[w].of].base
        BY <1>1, <3>2, <4>1 DEF Rows, Row
      <4> DEFINE new == [at |-> worker[w].now, of |-> worker[w].of,
                         parent |-> session[worker[w].of].base,
                         claim |-> worker[w].token, content |-> worker[w].copy]
      <4>3. new \in versions'
        BY <4>1
      <4>4. new.of = s /\ new.parent = session'[s].base
        BY <3>2, <4>2
      <4> QED
        BY <4>3, <4>4
    <3> QED
      BY <1>2, <1>4, <2>3, <3>1, <3>2, RowsMove
  <2> QED
    BY <2>2, <2>3
<1>5. ASSUME NEW q \in Sessions, Create(q) \/ Freeze(q) \/ Discard(q) \/ Retry(q) \/ Lapse(q)
      PROVE  \E v \in versions' : v.of = s /\ v.parent = session'[s].base
  <2>1. session[s].status = "published" /\ session'[s].base = session[s].base
    BY <1>1, <1>2, <1>5 DEF Create, Freeze, Discard, Retry, Lapse, Rows, Row
  <2> QED
    BY <1>3, <1>5, <2>1 DEF Create, Freeze, Discard, Retry, Lapse, outputs
<1>6. CASE LateRead \/ LateActivate \/ UNCHANGED vars
  BY <1>2, <1>3, <1>6 DEF LateRead, LateActivate, vars, outputs
<1> QED
  BY <1>4, <1>5, <1>6 DEF Next

LEMMA EditInvariantKept == EInv /\ [Next]_vars => EInv'
BY TypesKept, PublishedStays, PlacesStayFit, ClaimsStayUnique DEF EInv

\* The rows are well formed and every published session has its version: the
\* transaction of ActivateManualEditVersion and the comparisons of every other
\* write suffice, whatever crashes, lapses and errors there are.
THEOREM EditInvariantHolds == Spec => []EditInvariant
<1>1. Init => EInv
  BY EditStarts
<1>2. EInv => EditInvariant
  BY DEF EInv, EditInvariant
<1> QED
  BY <1>1, <1>2, EditInvariantKept, PTL DEF Spec

-----------------------------------------------------------------------------
(* The line of edits, for one active session and a careful retry. *)

\* What an update of the rows by anybody but a worker does.
LEMMA RowsSet ==
    ASSUME Rows, NEW q \in Sessions,
           Create(q) \/ Freeze(q) \/ Discard(q) \/ Retry(q) \/ Lapse(q)
    PROVE  /\ UNCHANGED <<versions, worker>>
           /\ \A s \in Sessions \ {q} : session'[s] = session[s]
           /\ \/ session'[q].status \in {"draft", "queued", "stale", "discarded"}
              \/ /\ session'[q].status = session[q].status
                 /\ session'[q].token = session[q].token /\ session'[q].base = session[q].base
BY DEF Rows, Row, Create, Freeze, Discard, Retry, Lapse, outputs

\* A session becomes active only when none is.
LEMMA OneStaysActive ==
    ASSUME Careful, MaxActive = 1, EInv, OneActive, [Next]_vars
    PROVE  OneActive'
<1>1. Rows /\ Copies /\ \A w \in Workers : PlaceFits(w)
  BY TypesSplit DEF EInv
<1>2. CASE \A s \in Sessions : session'[s].status \in Active => session[s].status \in Active
  BY <1>2 DEF OneActive, Active, Running
<1>3. ASSUME NEW w \in Workers, Work(w) \/ Crash(w),
             NEW s \in Sessions, session'[s].status \in Active
      PROVE  session[s].status \in Active
  BY <1>1, <1>3, RowsMove, EditConstants DEF EInv, Active, Ended
<1>4. ASSUME NEW q \in Sessions, Create(q) \/ Retry(q) PROVE OneActive'
  <2>1. ActiveSessions = {}
    <3>1. CASE Retry(q)
      BY <3>1 DEF Retry
    <3>2. CASE Create(q)
      <4>1. IsFiniteSet(ActiveSessions)
        BY FS_Subset, EditConstants DEF ActiveSessions
      <4>2. Cardinality(ActiveSessions) \in Nat /\ Cardinality(ActiveSessions) < 1
        BY <3>2, <4>1, FS_CardinalityType DEF Create
      <4> QED
        BY <4>1, <4>2, FS_EmptySet
    <3> QED
      BY <1>4, <3>1, <3>2
  <2>2. \A s \in Sessions \ {q} : session'[s] = session[s]
    BY <1>1, <1>4, RowsSet
  <2> QED
    BY <2>1, <2>2 DEF OneActive, ActiveSessions, Active, Running
<1>5. ASSUME NEW q \in Sessions, Freeze(q) \/ Discard(q) \/ Lapse(q),
             NEW s \in Sessions, session'[s].status \in Active
      PROVE  session[s].status \in Active
  BY <1>1, <1>5 DEF Freeze, Discard, Lapse, Rows, Row, Active
<1>6. CASE LateRead \/ LateActivate \/ UNCHANGED vars
  BY <1>2, <1>6 DEF LateRead, LateActivate, vars
<1> QED
  BY <1>2, <1>3, <1>4, <1>5, <1>6 DEF Next

\* Two workers never hold the claim of one session, and one session is active.
LEMMA OneHolder ==
    ASSUME EInv, OneActive, NEW w \in Workers, NEW x \in Workers,
           worker[w].at = "commit", Holds(w), worker[x].at = "commit", Holds(x)
    PROVE  w = x
<1>1. worker[w].of \in Sessions /\ worker[x].of \in Sessions
  BY TypesSplit DEF EInv, Copies, Copy
<1>2. worker[w].status = "publishing" /\ worker[x].status = "publishing"
  BY DEF EInv, PlaceFits
<1>3. worker[w].of = worker[x].of
  BY <1>1, <1>2, EditConstants DEF Holds, OneActive, Active
<1> QED
  BY <1>3 DEF Holds, EInv, ClaimsUnique

\* Between the reading and the writing of an activation no other edit comes in.
LEMMA BaseStaysLast ==
    ASSUME EInv, OneActive, BaseIsLast, [Next]_vars
    PROVE  BaseIsLast'
<1>1. Clocks /\ Rows /\ Copies /\ Times /\ \A w \in Workers : PlaceFits(w)
  BY TypesSplit DEF EInv
<1>2. SUFFICES ASSUME NEW x \in Workers, worker'[x].at = "commit", Holds(x)'
               PROVE  /\ session'[worker'[x].of].base < worker'[x].now
                      /\ \A u \in Edited' : u.at <= session'[worker'[x].of].base
  BY DEF BaseIsLast
<1>3. CASE /\ worker'[x] = worker[x] /\ Edited' = Edited
           /\ session'[worker[x].of].base = session[worker[x].of].base
           /\ session'[worker[x].of].status = session[worker[x].of].status
           /\ session'[worker[x].of].token = session[worker[x].of].token
  BY <1>2, <1>3 DEF BaseIsLast, Holds
<1>4. ASSUME worker'[x] = worker[x]
      PROVE  /\ worker[x].of \in Sessions /\ worker[x].status = "publishing" /\ worker[x].token > 0
             /\ session'[worker[x].of].status = "publishing"
             /\ session'[worker[x].of].token = worker[x].token
  BY <1>1, <1>2, <1>4 DEF Copies, Copy, PlaceFits, EInv, ClaimsUnique, Holds
<1>5. ASSUME NEW w \in Workers, Work(w) \/ Crash(w), w # x
      PROVE  /\ session'[worker'[x].of].base < worker'[x].now
             /\ \A u \in Edited' : u.at <= session'[worker'[x].of].base
  <2> DEFINE s == worker[x].of
  <2>1. worker'[x] = worker[x] /\ worker[x].at = "commit"
    BY <1>1, <1>2, <1>5, OthersStay
  <2>2. s \in Sessions /\ session'[s].status = "publishing" /\ session'[s].token = worker[x].token
            /\ worker[x].status = "publishing" /\ worker[x].token > 0
    BY <1>4, <2>1
  <2>3. ~(Enter(w) /\ Holds(w) /\ s = worker[w].of /\ session'[s].token = session[s].token)
    BY <2>1, <2>2 DEF Enter, Holds, EInv, ClaimsUnique
  <2>4. /\ session'[s].base = session[s].base
        /\ session'[s].status = session[s].status /\ session'[s].token = session[s].token
    BY <1>1, <1>5, <2>2, <2>3, RowsMove DEF EInv
  <2>5. Holds(x)
    BY <2>2, <2>4 DEF Holds
  <2>6. versions' = versions
    BY <1>5, <2>1, <2>5, VersionsMove, OneHolder DEF Commit
  <2> QED
    BY <1>3, <2>1, <2>4, <2>6 DEF Edited
<1>6. ASSUME Work(x) \/ Crash(x)
      PROVE  /\ session'[worker'[x].of].base < worker'[x].now
             /\ \A u \in Edited' : u.at <= session'[worker'[x].of].base
  <2>1. Activate(x) /\ IsLatest(session[worker[x].of].base)
    <3> USE <1>1 DEF Copies, Copy
    <3>1. ~(Claim(x) \/ Read(x) \/ Clear(x) \/ Fill(x) \/ Launch(x) \/ Confirm(x) \/ Exchange(x)
               \/ Look(x) \/ Publish(x) \/ Save(x) \/ Fail(x))
      <4>1. ASSUME Claim(x) PROVE FALSE
        <5>1. PICK s \in Sessions :
                  worker' = [worker EXCEPT ![x].at = "read", ![x].of = s, ![x].token = minted + 1]
          BY <4>1 DEF Claim
        <5>2. worker'[x].at = "read"
          BY <5>1
        <5> QED
          BY <1>2, <5>2
      <4>2. ASSUME Read(x) PROVE FALSE
        <5>1. worker'[x].at \in {"enter", "fail", "idle", "release"}
          BY <4>2 DEF Read, Goto, IdleWorker
        <5> QED
          BY <1>2, <5>1
      <4>3. ~(Clear(x) \/ Fill(x) \/ Confirm(x) \/ Exchange(x))
        BY <1>2 DEF Clear, Fill, Confirm, Exchange, Goto
      <4>4. ~(Look(x) \/ Save(x) \/ Fail(x))
        BY <1>2 DEF Look, Save, Fail, Goto
      <4>5. ~(Launch(x) \/ Publish(x))
        BY <1>2 DEF Launch, Publish, Goto
      <4> QED
        BY <4>1, <4>2, <4>3, <4>4, <4>5
    <3>2. ~Enter(x)
      BY <1>2 DEF Enter, Goto, FirstPlace
    <3>3. ~(Commit(x) \/ Release(x) \/ Crash(x))
      BY <1>2 DEF Commit, Withdrawn, Release, Crash, Goto, IdleWorker
    <3>4. Activate(x)
      BY <1>6, <3>1, <3>2, <3>3 DEF Work
    <3> QED
      BY <1>2, <3>4 DEF Activate, Withdrawn, Goto
  <2>2. /\ worker'[x].now = clock + 1 /\ worker'[x].of = worker[x].of
        /\ UNCHANGED <<session, versions>>
    BY <1>1, <1>2, <2>1 DEF Activate, Withdrawn, Goto, Copies, Copy
  <2>3. session[worker[x].of].base \in 0..clock
    BY <1>1, <2>1 DEF IsLatest, Times, Version
  <2> QED
    BY <1>1, <2>1, <2>2, <2>3 DEF Edited, IsLatest, Clocks
<1>7. ASSUME NEW q \in Sessions, Create(q) \/ Freeze(q) \/ Discard(q) \/ Retry(q) \/ Lapse(q)
      PROVE  /\ session'[worker'[x].of].base < worker'[x].now
             /\ \A u \in Edited' : u.at <= session'[worker'[x].of].base
  BY <1>1, <1>3, <1>4, <1>7, RowsSet DEF Edited
<1>8. CASE LateRead \/ LateActivate \/ UNCHANGED vars
  <2>1. UNCHANGED <<session, worker>> /\ Edited' = Edited
    BY <1>8 DEF LateRead, LateActivate, vars, outputs, Edited, Generated
  <2> QED
    BY <1>3, <2>1
<1> QED
  BY <1>5, <1>6, <1>7, <1>8 DEF Next

\* A new edit comes after its base, and after every edit.
LEMMA LineStays ==
    ASSUME EInv, BaseIsLast, EditsFormLine, [Next]_vars
    PROVE  EditsFormLine'
<1>1. Clocks /\ Rows /\ Copies /\ Times
  BY TypesSplit DEF EInv
<1>2. CASE Edited' = Edited
  BY <1>2 DEF EditsFormLine
<1>3. ASSUME NEW w \in Workers, Work(w) \/ Crash(w), versions' # versions PROVE EditsFormLine'
  <2> DEFINE new == [at |-> worker[w].now, of |-> worker[w].of,
                     parent |-> session[worker[w].of].base,
                     claim |-> worker[w].token, content |-> worker[w].copy]
  <2>1. Commit(w) /\ Holds(w) /\ versions' = versions \cup {new}
    BY <1>3, VersionsMove
  <2>2. Edited' \subseteq Edited \cup {new}
    BY <2>1 DEF Edited
  <2>3. new.parent < new.at /\ \A u \in Edited : u.at <= new.parent
    BY <2>1 DEF Commit, BaseIsLast
  <2>4. new.at \in Nat /\ new.parent \in Nat /\ \A u \in Edited : u.at \in Nat /\ u.parent \in Nat
    BY <1>1, <2>1 DEF Commit, Rows, Row, Copies, Copy, Times, Version, Edited, Clocks
  <2> HIDE DEF new
  <2> QED
    BY <2>2, <2>3, <2>4 DEF EditsFormLine
<1>4. CASE \E s \in Sessions : Create(s) \/ Freeze(s) \/ Discard(s) \/ Retry(s) \/ Lapse(s)
  BY <1>1, <1>2, <1>4, RowsSet DEF Edited
<1>5. CASE LateRead \/ LateActivate \/ UNCHANGED vars
  BY <1>2, <1>5 DEF LateRead, LateActivate, vars, outputs, Edited, Generated
<1> QED
  BY <1>2, <1>3, <1>4, <1>5 DEF Next, Edited

\* Where one session may be active and a retry respects that, no edit drops
\* another: ActivateManualEditVersion needs no lock, because nobody else can be
\* between its reading of the latest version and its writing of the next.
THEOREM EditsAlwaysFormLine ==
    ASSUME Careful, MaxActive = 1
    PROVE  Spec => []EditsFormLine
<1>1. Init => EInv /\ LineInv
  BY EditStarts
<1>2. EInv /\ LineInv /\ [Next]_vars => EInv' /\ LineInv'
  BY EditInvariantKept, OneStaysActive, BaseStaysLast, LineStays DEF LineInv
<1>3. LineInv => EditsFormLine
  BY DEF LineInv
<1> QED
  BY <1>1, <1>2, <1>3, PTL DEF Spec

-----------------------------------------------------------------------------
(* What a claim publishes is its own work. *)

AtWork(w) == worker[w].at \notin {"idle", "release"}

\* While no live worker of a session lost its claim, whoever works on the session
\* holds it: a takeover waits for the lapse, a retry for the failure, and the
\* worker that wrote the failure only gives its claim up.
ClaimStands ==
    \A w \in Workers : AtWork(w) /\ worker[w].of \notin stalled =>
        /\ session[worker[w].of].token = worker[w].token
        /\ ~session[worker[w].of].stale
        /\ session[worker[w].of].status \notin {"none", "failed"}

\* A worker that emptied the workspace finds nobody else's work there.
Emptied(r) == /\ r.at \notin {"idle", "release", "read", "clear", "fail"}
              /\ r.at = "enter" => r.status # "queued"

OwnWork ==
    \A w \in Workers : AtWork(w) /\ worker[w].of \notin stalled =>
        /\ Emptied(worker[w]) => tree[worker[w].of] \subseteq {worker[w].token}
        /\ worker[w].at \in {"confirm", "exchange", "activate", "commit"} =>
              worker[w].copy \subseteq {worker[w].token}
        /\ worker[w].at \in {"activate", "commit"} => worker[w].copy # {}

OwnerInv == ClaimStands /\ OwnWork /\ PublishedByOwner

LEMMA AloneAtWork ==
    ASSUME EInv, ClaimStands, NEW w \in Workers, NEW x \in Workers, AtWork(w), AtWork(x),
           worker[w].of = worker[x].of, worker[x].of \notin stalled
    PROVE  w = x
BY DEF EInv, ClaimsUnique, ClaimStands, AtWork

\* A worker that is still at work after its step was before, or claims.
LEMMA WorkGoesOn ==
    ASSUME EInv, NEW x \in Workers, Work(x) \/ Crash(x), ~Claim(x), AtWork(x)'
    PROVE  /\ AtWork(x) /\ worker'[x].of = worker[x].of /\ worker'[x].token = worker[x].token
           /\ worker[x].of \in Sessions /\ worker[x].token > 0
           /\ ~Release(x) /\ ~Crash(x)
<1>1. Copies
  BY TypesSplit DEF EInv
<1>2. /\ worker[x].at # "idle" /\ worker[x].of \in Sessions /\ worker[x].token > 0
      /\ worker'[x].of = worker[x].of /\ worker'[x].token = worker[x].token
  BY <1>1, WorkerKeeps DEF AtWork, Copies, Copy, EInv, ClaimsUnique
<1>3. ~Release(x) /\ ~Crash(x)
  BY <1>1 DEF AtWork, Release, Crash, IdleWorker, Copies
<1>4. worker[x].at # "release"
  BY <1>3 DEF Work, Claim, Read, Enter, Clear, Fill, Launch, Confirm, Exchange, Look,
              Publish, Activate, Commit, Save, Fail
<1> QED
  BY <1>2, <1>3, <1>4 DEF AtWork

\* What a worker claims, and how it leaves the row.
LEMMA Claiming ==
    ASSUME TypeOK, NEW w \in Workers, Claim(w)
    PROVE  \E s \in Sessions :
              /\ Claimable(s) /\ worker'[w].at = "read" /\ worker'[w].of = s
              /\ worker'[w].token = minted + 1
              /\ session'[s].status = "queued" /\ session'[s].token = minted + 1
              /\ ~session'[s].stale
              /\ \A q \in Sessions \ {s} : session'[q] = session[q]
<1>1. Rows /\ Copies
  BY TypesSplit
<1>2. PICK s \in Sessions :
         /\ Claimable(s)
         /\ session' = [session EXCEPT ![s].status = "queued", ![s].token = minted + 1,
                                       ![s].stale = FALSE]
         /\ worker' = [worker EXCEPT ![w].at = "read", ![w].of = s, ![w].token = minted + 1]
  BY DEF Claim
<1>3. worker'[w].at = "read" /\ worker'[w].of = s /\ worker'[w].token = minted + 1
  BY <1>1, <1>2 DEF Copies, Copy
<1>4. /\ session'[s].status = "queued" /\ session'[s].token = minted + 1 /\ ~session'[s].stale
      /\ \A q \in Sessions \ {s} : session'[q] = session[q]
  BY <1>1, <1>2 DEF Rows, Row
<1> QED
  BY <1>2, <1>3, <1>4

\* A row a worker writes is its session's; but for its release it is at work.
LEMMA OthersRowsStay ==
    ASSUME EInv, ClaimStands, NEW w \in Workers, Work(w) \/ Crash(w), NEW x \in Workers \ {w},
           AtWork(x), worker[x].of \notin stalled
    PROVE  session'[worker[x].of] = session[worker[x].of]
<1>1. Rows /\ Copies
  BY TypesSplit DEF EInv
<1>2. /\ worker[x].of \in Sessions /\ worker[x].token > 0
      /\ session[worker[x].of].token = worker[x].token /\ ~session[worker[x].of].stale
  BY <1>1 DEF AtWork, ClaimStands, EInv, ClaimsUnique, Copies, Copy
<1>3. CASE Claim(w)
  <2>1. PICK s \in Sessions : Claimable(s) /\ \A q \in Sessions \ {s} : session'[q] = session[q]
    BY <1>3, Claiming DEF EInv
  <2>2. s # worker[x].of
    BY <1>1, <1>2, <2>1 DEF Claimable, Rows, Row, Clocks
  <2> QED
    BY <1>2, <2>1, <2>2
<1>4. CASE AtWork(w) /\ ~Claim(w)
  <2>1. worker[w].of # worker[x].of
    BY <1>4, AloneAtWork
  <2>2. \A q \in Sessions \ {worker[w].of} : session'[q] = session[q]
    <3>1. CASE Enter(w) \/ Commit(w) \/ Fail(w) \/ Release(w) \/ Launch(w) \/ Confirm(w)
      BY <1>1, <3>1 DEF Enter, Commit, Fail, Release, Launch, Confirm, Renewed, Rows
    <3>2. CASE UNCHANGED session
      BY <3>2
    <3> QED
      BY <1>4, <3>1, <3>2 DEF Work, Read, Clear, Fill, Exchange, Look, Publish, Activate, Save, Crash
  <2> QED
    BY <1>2, <2>1, <2>2
<1>5. CASE ~AtWork(w) /\ ~Claim(w)
  <2>1. Release(w) \/ Crash(w)
    BY <1>5 DEF AtWork, Work, Read, Enter, Clear, Fill, Launch, Confirm, Exchange, Look,
                Publish, Activate, Commit, Save, Fail
  <2>2. CASE Crash(w)
    BY <2>2 DEF Crash
  <2>3. CASE Release(w)
    <3>1. worker[w].at # "idle" /\ worker[w].token # worker[x].token
      BY <2>3 DEF Release, AtWork, EInv, ClaimsUnique
    <3>2. CASE worker[w].of = worker[x].of
      BY <1>2, <2>3, <3>1, <3>2 DEF Release
    <3>3. CASE worker[w].of # worker[x].of
      BY <1>1, <1>2, <2>3, <3>3 DEF Release, Rows
    <3> QED
      BY <3>2, <3>3
  <2> QED
    BY <2>1, <2>2, <2>3
<1> QED
  BY <1>3, <1>4, <1>5

\* The worker's own step keeps its claim, until it gives it up.
LEMMA OwnRowStays ==
    ASSUME EInv, ClaimStands, NEW x \in Workers, Work(x), ~Claim(x), AtWork(x)',
           worker[x].of \notin stalled
    PROVE  /\ session'[worker[x].of].token = worker[x].token
           /\ ~session'[worker[x].of].stale
           /\ session'[worker[x].of].status \notin {"none", "failed"}
<1>1. Rows /\ Copies /\ PlaceFits(x)
  BY TypesSplit DEF EInv
<1>2. AtWork(x) /\ worker[x].of \in Sessions /\ ~Release(x) /\ ~Crash(x)
  BY WorkGoesOn
<1> DEFINE s == worker[x].of
<1>3. /\ session[s].token = worker[x].token /\ ~session[s].stale
      /\ session[s].status \notin {"none", "failed"}
  BY <1>2 DEF ClaimStands
<1>4. CASE UNCHANGED session
  BY <1>3, <1>4
<1>5. CASE Enter(x) /\ ~UNCHANGED session
  <2>1. /\ session' = [session EXCEPT ![s].status = Following[worker[x].status]]
        /\ Following[worker[x].status] \in Running
    BY <1>1, <1>5, EditConstants DEF Enter, PlaceFits
  <2>2. /\ session'[s].token = session[s].token /\ session'[s].stale = session[s].stale
        /\ session'[s].status = Following[worker[x].status]
    BY <1>1, <1>2, <2>1 DEF Rows, Row
  <2> QED
    BY <1>3, <2>1, <2>2, EditConstants DEF Ended
<1>6. CASE Commit(x) /\ ~UNCHANGED session
  <2>1. session' = [session EXCEPT ![s].status = "published"]
    BY <1>6 DEF Commit
  <2> QED
    BY <1>1, <1>2, <1>3, <2>1 DEF Rows, Row
<1>7. CASE (Launch(x) \/ Confirm(x)) /\ ~UNCHANGED session
  <2>1. session' = [session EXCEPT ![s].stale = FALSE]
    BY <1>7 DEF Launch, Confirm, Renewed
  <2> QED
    BY <1>1, <1>2, <1>3, <2>1 DEF Rows, Row
<1>8. ~Fail(x)
  <2>1. Fail(x) => worker'[x].at = "release"
    BY <1>1 DEF Fail, Goto, Copies, Copy
  <2> QED
    BY <2>1 DEF AtWork
<1> QED
  BY <1>2, <1>4, <1>5, <1>6, <1>7, <1>8
  DEF Work, Read, Clear, Fill, Exchange, Look, Publish, Activate, Save

LEMMA StandsOn ==
    ASSUME EInv, ClaimStands, [Next]_vars
    PROVE  ClaimStands'
<1>1. Rows /\ Copies
  BY TypesSplit DEF EInv
<1>2. SUFFICES ASSUME NEW x \in Workers, AtWork(x)', worker'[x].of \notin stalled'
               PROVE  /\ session'[worker'[x].of].token = worker'[x].token
                      /\ ~session'[worker'[x].of].stale
                      /\ session'[worker'[x].of].status \notin {"none", "failed"}
  BY DEF ClaimStands
<1>3. CASE /\ worker'[x] = worker[x] /\ worker[x].of \notin stalled
           /\ session'[worker[x].of] = session[worker[x].of]
  BY <1>2, <1>3 DEF ClaimStands, AtWork
<1>4. ASSUME NEW w \in Workers, Work(w) \/ Crash(w)
      PROVE  /\ session'[worker'[x].of].token = worker'[x].token
             /\ ~session'[worker'[x].of].stale
             /\ session'[worker'[x].of].status \notin {"none", "failed"}
  <2>1. stalled' = stalled
    BY <1>4 DEF Work, Claim, Read, Enter, Clear, Fill, Launch, Confirm, Exchange, Look,
                Publish, Activate, Commit, Save, Fail, Release, Crash, bounds
  <2>2. CASE w # x
    <3>1. worker'[x] = worker[x]
      BY <1>1, <1>4, <2>2, OthersStay
    <3>2. AtWork(x) /\ worker[x].of \notin stalled
      BY <1>2, <2>1, <3>1 DEF AtWork
    <3>3. session'[worker[x].of] = session[worker[x].of]
      BY <1>4, <2>2, <3>2, OthersRowsStay
    <3> QED
      BY <1>3, <3>1, <3>2, <3>3
  <2>3. CASE w = x /\ Claim(x)
    BY <2>3, Claiming DEF EInv
  <2>4. CASE w = x /\ ~Claim(x)
    <3>1. /\ worker'[x].of = worker[x].of /\ worker'[x].token = worker[x].token
          /\ ~Crash(x)
      BY <1>2, <1>4, <2>4, WorkGoesOn
    <3> QED
      BY <1>2, <1>4, <2>1, <2>4, <3>1, OwnRowStays
  <2> QED
    BY <2>2, <2>3, <2>4
<1>5. ASSUME NEW q \in Sessions, Create(q) \/ Freeze(q) \/ Discard(q) \/ Retry(q) \/ Lapse(q)
      PROVE  /\ session'[worker'[x].of].token = worker'[x].token
             /\ ~session'[worker'[x].of].stale
             /\ session'[worker'[x].of].status \notin {"none", "failed"}
  <2>1. /\ worker' = worker /\ \A s \in Sessions \ {q} : session'[s] = session[s]
        /\ stalled \subseteq stalled'
    BY <1>1, <1>5, RowsSet DEF Create, Freeze, Discard, Retry, Lapse, bounds
  <2>2. AtWork(x) /\ worker[x].of \notin stalled /\ worker[x].of \in Sessions
    BY <1>1, <1>2, <2>1 DEF AtWork, Copies, Copy
  <2>3. /\ session[worker[x].of].token = worker[x].token
        /\ ~session[worker[x].of].stale
        /\ session[worker[x].of].status \notin {"none", "failed"}
    BY <2>2 DEF ClaimStands
  <2>4. CASE worker[x].of # q
    BY <1>3, <2>1, <2>2, <2>4
  <2>5. CASE worker[x].of = q
    <3>1. ~Create(q) /\ ~Retry(q)
      BY <2>3, <2>5 DEF Create, Retry
    <3>2. ~Lapse(q)
      <4>1. Alive(q)
        BY <2>3, <2>5 DEF Alive
      <4> QED
        BY <1>2, <2>1, <2>5, <4>1 DEF Lapse
    <3>3. Freeze(q) \/ Discard(q)
      BY <1>5, <3>1, <3>2
    <3>4. /\ session'[q].token = session[q].token /\ session'[q].stale = session[q].stale
          /\ session'[q].status \in {"queued", "stale", "discarded"}
      BY <1>1, <3>3 DEF Freeze, Discard, Rows, Row
    <3> QED
      BY <2>1, <2>3, <2>5, <3>4
  <2> QED
    BY <2>4, <2>5
<1>6. CASE LateRead \/ LateActivate \/ UNCHANGED vars
  BY <1>2, <1>3, <1>6 DEF LateRead, LateActivate, vars, bounds, AtWork
<1> QED
  BY <1>4, <1>5, <1>6 DEF Next

\* A workspace is written by a worker of its session.
LEMMA TreesMove ==
    ASSUME Trees, NEW w \in Workers, Work(w) \/ Crash(w), NEW s \in Sessions
    PROVE  tree'[s] = tree[s] \/ (AtWork(w) /\ ~Claim(w) /\ s = worker[w].of)
<1>1. CASE Clear(w) \/ Fill(w) \/ Launch(w) \/ Exchange(w)
  BY <1>1 DEF Clear, Fill, Launch, Exchange, Worked, AtWork, Claim, Trees
<1>2. CASE UNCHANGED tree
  BY <1>2
<1> QED
  BY <1>1, <1>2 DEF Work, Claim, Read, Enter, Confirm, Look, Publish, Activate, Commit, Save,
                    Fail, Release, Crash

\* What a worker's own step leaves in its workspace and its copy.
Own(r, t) ==
    /\ Emptied(r) => t \subseteq {r.token}
    /\ r.at \in {"confirm", "exchange", "activate", "commit"} => r.copy \subseteq {r.token}
    /\ r.at \in {"activate", "commit"} => r.copy # {}

LEMMA OwnWorkGoesOn ==
    ASSUME EInv, NEW x \in Workers, Work(x), ~Claim(x), AtWork(x)',
           Own(worker[x], tree[worker[x].of])
    PROVE  Own(worker'[x], tree'[worker[x].of])
<1>1. Rows /\ Copies /\ Trees /\ PlaceFits(x)
  BY TypesSplit DEF EInv
<1>2. /\ AtWork(x) /\ worker'[x].of = worker[x].of /\ worker'[x].token = worker[x].token
      /\ worker[x].of \in Sessions /\ ~Release(x) /\ ~Crash(x)
  BY WorkGoesOn
<1> DEFINE r == worker[x]
           s == worker[x].of
<1>3. r \in Copy
  BY <1>1 DEF Copies
<1> USE <1>2, <1>3 DEF Copies, Copy, Own, Emptied
<1>4. CASE Read(x)
  <2>1. \/ worker' = [worker EXCEPT ![x].status = session[s].status,
                ![x].at = IF session[s].status = "queued" THEN "enter" ELSE "fail"]
        \/ worker' = [worker EXCEPT ![x] = IdleWorker]
        \/ Goto(x, "release")
    BY <1>4 DEF Read
  <2>2. worker'[x].at = "fail" \/ (worker'[x].at = "enter" /\ worker'[x].status = "queued")
    BY <1>1, <2>1 DEF AtWork, Goto, IdleWorker
  <2> QED
    BY <2>2
<1>5. CASE Enter(x)
  <2> DEFINE to == Following[r.status]
  <2>1. UNCHANGED tree /\ (worker'[x].at = "fail" \/ worker'[x].at = FirstPlace(to)
                           \/ worker'[x].at = "release")
    BY <1>1, <1>5 DEF Enter, Goto
  <2>2. r.status = "queued" => FirstPlace(to) = "clear"
    BY ManualEditAssumption DEF FirstPlace
  <2>3. FirstPlace(to) \in {"clear", "look", "launch"}
    BY DEF FirstPlace
  <2> QED
    BY <1>5, <2>1, <2>2, <2>3 DEF AtWork, Enter
<1>6. CASE Clear(x)
  <2>1. tree' = [tree EXCEPT ![s] = {}]
    BY <1>6 DEF Clear
  <2>2. tree'[s] = {} /\ worker'[x].at = "fill"
    BY <1>1, <1>6, <2>1 DEF Clear, Goto, Trees
  <2> QED
    BY <2>2
<1>7. CASE Fill(x)
  <2>1. tree'[s] = tree[s] \cup {r.token} /\ tree[s] \subseteq {r.token}
    BY <1>1, <1>7 DEF Fill, Worked, Trees
  <2>2. worker'[x].at \in {"save", "fail"}
    BY <1>1, <1>7 DEF Fill, Goto
  <2> QED
    BY <2>1, <2>2
<1>8. CASE Launch(x)
  <2>1. tree[s] \subseteq {r.token} /\ tree'[s] \subseteq {r.token}
    BY <1>1, <1>8 DEF Launch, Worked, Trees
  <2>2. \/ worker'[x].at = "confirm" /\ worker'[x].copy = tree[s] \cup {r.token}
        \/ worker'[x].at \in {"save", "fail"}
    BY <1>1, <1>8 DEF Launch, Goto
  <2> QED
    BY <2>1, <2>2
<1>9. CASE Confirm(x)
  <2>1. UNCHANGED tree /\ worker'[x].at \in {"exchange", "fail"} /\ worker'[x].copy = r.copy
    BY <1>1, <1>9 DEF Confirm, Goto
  <2> QED
    BY <1>9, <2>1 DEF Confirm
<1>10. CASE Exchange(x)
  <2>1. r.copy \subseteq {r.token} /\ tree'[s] \in {tree[s], r.copy} /\ tree[s] \subseteq {r.token}
    BY <1>1, <1>10 DEF Exchange, Trees
  <2>2. worker'[x].at \in {"save", "fail"}
    BY <1>1, <1>10 DEF Exchange, Goto
  <2> QED
    BY <2>1, <2>2
<1>11. CASE Look(x)
  <2>1. UNCHANGED tree /\ worker'[x].at \in {"publish", "fail"}
    BY <1>1, <1>11 DEF Look, Goto
  <2> QED
    BY <1>11, <2>1 DEF Look
<1>12. CASE Publish(x)
  <2>1. /\ UNCHANGED tree
        /\ \/ worker'[x].at = "activate" /\ worker'[x].copy = tree[s] /\ tree[s] # {}
           \/ worker'[x].at = "fail"
    BY <1>1, <1>12 DEF Publish, Goto
  <2> QED
    BY <1>12, <2>1 DEF Publish
<1>13. CASE Activate(x)
  <2>1. /\ UNCHANGED tree
        /\ \/ worker'[x].at = "commit" /\ worker'[x].copy = r.copy
           \/ worker'[x].at = "fail"
    BY <1>1, <1>13 DEF Activate, Withdrawn, Goto
  <2> QED
    BY <1>13, <2>1 DEF Activate
<1>14. CASE Commit(x)
  <2>1. UNCHANGED tree /\ worker'[x].at \in {"save", "fail"}
    BY <1>1, <1>14 DEF Commit, Withdrawn, Goto
  <2> QED
    BY <1>14, <2>1 DEF Commit
<1>15. CASE Save(x)
  <2>1. UNCHANGED tree /\ worker'[x].at \in {"release", "enter", "fail"}
    BY <1>1, <1>15 DEF Save, Goto
  <2> QED
    BY <1>15, <2>1 DEF Save
<1>16. ~Fail(x)
  <2>1. Fail(x) => worker'[x].at = "release"
    BY <1>1 DEF Fail, Goto
  <2> QED
    BY <2>1 DEF AtWork
<1> QED
  BY <1>4, <1>5, <1>6, <1>7, <1>8, <1>9, <1>10, <1>11, <1>12, <1>13, <1>14, <1>15, <1>16 DEF Work

LEMMA OwnWorkStays ==
    ASSUME EInv, ClaimStands, OwnWork, [Next]_vars
    PROVE  OwnWork'
<1>1. Copies /\ Trees
  BY TypesSplit DEF EInv
<1>2. SUFFICES ASSUME NEW x \in Workers, AtWork(x)', worker'[x].of \notin stalled'
               PROVE  Own(worker'[x], tree'[worker'[x].of])
  BY DEF OwnWork, Own, Emptied
<1>3. CASE /\ worker'[x] = worker[x] /\ worker[x].of \notin stalled
           /\ tree'[worker[x].of] = tree[worker[x].of]
  BY <1>2, <1>3 DEF OwnWork, Own, AtWork
<1>4. ASSUME NEW w \in Workers, Work(w) \/ Crash(w)
      PROVE  Own(worker'[x], tree'[worker'[x].of])
  <2>1. stalled' = stalled
    BY <1>4 DEF Work, Claim, Read, Enter, Clear, Fill, Launch, Confirm, Exchange, Look,
                Publish, Activate, Commit, Save, Fail, Release, Crash, bounds
  <2>2. CASE w # x
    <3>1. worker'[x] = worker[x]
      BY <1>1, <1>4, <2>2, OthersStay
    <3>2. AtWork(x) /\ worker[x].of \notin stalled /\ worker[x].of \in Sessions
      BY <1>1, <1>2, <2>1, <3>1 DEF AtWork, Copies, Copy
    <3>3. tree'[worker[x].of] = tree[worker[x].of]
      BY <1>1, <1>4, <2>2, <3>2, TreesMove, AloneAtWork
    <3> QED
      BY <1>3, <3>1, <3>2, <3>3
  <2>3. CASE w = x /\ Claim(x)
    <3>1. worker'[x].at = "read"
      BY <2>3, Claiming DEF EInv
    <3> QED
      BY <3>1 DEF Own, Emptied
  <2>4. CASE w = x /\ ~Claim(x)
    <3>1. AtWork(x) /\ worker'[x].of = worker[x].of /\ ~Crash(x)
      BY <1>2, <1>4, <2>4, WorkGoesOn
    <3>2. Own(worker[x], tree[worker[x].of])
      BY <1>2, <2>1, <3>1 DEF OwnWork, Own
    <3> QED
      BY <1>2, <1>4, <2>4, <3>1, <3>2, OwnWorkGoesOn
  <2> QED
    BY <2>2, <2>3, <2>4
<1>5. CASE \E q \in Sessions : Create(q) \/ Freeze(q) \/ Discard(q) \/ Retry(q) \/ Lapse(q)
  <2>1. UNCHANGED <<worker, tree>> /\ stalled \subseteq stalled'
    BY <1>5 DEF Create, Freeze, Discard, Retry, Lapse, bounds
  <2> QED
    BY <1>2, <1>3, <2>1
<1>6. CASE LateRead \/ LateActivate \/ UNCHANGED vars
  <2>1. UNCHANGED <<worker, tree, stalled>>
    BY <1>6 DEF LateRead, LateActivate, vars, bounds
  <2> QED
    BY <1>2, <1>3, <2>1
<1> QED
  BY <1>4, <1>5, <1>6 DEF Next

LEMMA OwnerStays ==
    ASSUME EInv, OwnWork, PublishedByOwner, [Next]_vars
    PROVE  PublishedByOwner'
<1>1. stalled \subseteq stalled'
  BY DEF Next, Create, Freeze, Discard, Retry, Lapse, LateRead, LateActivate, vars, Work, Claim,
         Read, Enter, Clear, Fill, Launch, Confirm, Exchange, Look, Publish, Activate, Commit,
         Save, Fail, Release, Crash, bounds
<1>2. CASE \A v \in versions' : v \in versions \/ v.of = NoSession
  BY <1>1, <1>2 DEF PublishedByOwner
<1>3. ASSUME NEW w \in Workers, Work(w) \/ Crash(w), versions' # versions
      PROVE  PublishedByOwner'
  <2> DEFINE new == [at |-> worker[w].now, of |-> worker[w].of,
                     parent |-> session[worker[w].of].base,
                     claim |-> worker[w].token, content |-> worker[w].copy]
  <2>1. Commit(w) /\ versions' = versions \cup {new}
    BY <1>3, VersionsMove
  <2>2. AtWork(w) /\ worker[w].at = "commit"
    BY <2>1 DEF Commit, AtWork
  <2>3. new.of \notin stalled => new.content = {new.claim}
    BY <2>2 DEF OwnWork
  <2> HIDE DEF new
  <2> QED
    BY <1>1, <2>1, <2>3 DEF PublishedByOwner
<1>4. CASE \E s \in Sessions : Create(s) \/ Freeze(s) \/ Discard(s) \/ Retry(s) \/ Lapse(s)
  BY <1>2, <1>4 DEF Create, Freeze, Discard, Retry, Lapse, outputs
<1>5. CASE LateRead \/ LateActivate \/ UNCHANGED vars
  BY <1>2, <1>5 DEF LateRead, LateActivate, vars, outputs, Generated
<1> QED
  BY <1>2, <1>3, <1>4, <1>5 DEF Next

\* A version of a session none of whose claims lapsed under a live worker is the
\* work of the claim that published it, whatever crashed before it and was taken
\* over: the emptied workspace (materializeEditWorkspace) and the renewals around
\* the exchange of the tree suffice, for every number of sessions and workers.
THEOREM VersionIsOwnersWork == Spec => []PublishedByOwner
<1>1. Init => EInv /\ OwnerInv
  <2>1. Init => EInv
    BY EditStarts
  <2>2. ASSUME Init PROVE OwnerInv
    BY <2>2 DEF Init, OwnerInv, ClaimStands, OwnWork, AtWork, IdleWorker, PublishedByOwner, Generated
  <2> QED
    BY <2>1, <2>2
<1>2. EInv /\ OwnerInv /\ [Next]_vars => EInv' /\ OwnerInv'
  BY EditInvariantKept, StandsOn, OwnWorkStays, OwnerStays DEF OwnerInv
<1>3. OwnerInv => PublishedByOwner
  BY DEF OwnerInv
<1> QED
  BY <1>1, <1>2, <1>3, PTL DEF Spec

=============================================================================
