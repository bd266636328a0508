------------------------- MODULE AssessmentRunProofs -------------------------
(***************************************************************************)
(* Proofs about the output directory over any number of sessions, jobs,    *)
(* answers, crashes, edits and updates.                                    *)
(***************************************************************************)
EXTENDS AssessmentRun, FiniteSetTheorems, TLAPS

\* The types of the variables, by what they belong to.
RecordsOK == state \in Records \cup {None} /\ mem \in Records \cup {None}
PairsOK == jobs \in [AllJobs -> Pairs] /\ cache \in [AllJobs -> Pairs]
FilesOK ==
    /\ files \in [Files -> Contents \cup {None}]
    /\ importing \in {None} \cup SUBSET Files /\ pending \subseteq Files \cup {"import"}
JobsOK ==
    /\ pc \in Preparing \cup Holding \cup {"idle", "release", "unlock"}
    /\ job \in 1..(Jobs + 1) /\ answer \in 0..MaxCalls /\ results \in Results
FlagsOK ==
    /\ work \in BOOLEAN /\ fresh \in BOOLEAN /\ inCheckout \in BOOLEAN
    /\ replace \in BOOLEAN /\ inflight \in BOOLEAN /\ cancelled \in BOOLEAN
    /\ expired \in BOOLEAN /\ imported \in BOOLEAN /\ staging \in BOOLEAN
RunsOK ==
    /\ stop \in 0..MaxStarts /\ lock \in 0..MaxStarts /\ stopper \in 0..MaxStarts
    /\ starts \in 0..MaxStarts
HistoryOK ==
    /\ sources \in Nat /\ plugin \in Nat
    /\ bought \in Seq(Requests) /\ Len(bought) <= MaxCalls /\ kept \subseteq Requests
    /\ repeated \in Nat /\ owed \in Nat /\ raced \subseteq Files
    /\ events \in 0..MaxEvents /\ crashes \in 0..events

\* Where a session is working on one job, moving, adopting or buying it.
AtOneJob ==
    {"uncacheArtifact", "uncacheReceipt", "moveArtifact", "moveReceipt", "discard", "reserved",
     "calling", "writeArtifact", "writeReceipt", "accept", "charged", "adoptArtifact",
     "adoptReceipt"}
Answered == {"writeArtifact", "writeReceipt", "accept"}

\* Where files are moved, those already moved hold the results, unless an import or
\* a user has written them since.
Moving ==
    /\ files \in [Files -> Contents \cup {None}]
    /\ \A f \in Files \ pending : files[f] \in {results, User, Legacy}

\* What a session's own variables are at each of its places.
Stages ==
    /\ pc = "idle" => NoSession
    /\ pc # "idle" => starts > 0
    /\ pc \in Preparing \ {"lock"} => mem = None
    /\ pc \in Holding \cup {"lock", "release", "unlock"} => mem # None
    /\ pc \in {"clear", "unlinkState", "removeWork", "removeFiles", "mkdir", "lock", "first"} =>
           job = 1
    /\ pc \in AtOneJob => job <= Jobs
    /\ pc \in {"publish", "wrap"} => job > Jobs
    /\ inflight => pc \in {"reserved", "calling", "ending", "release", "unlock"}
    /\ pc \in {"reserved", "calling"} => inflight
    /\ answer # 0 <=> pc \in Answered
    /\ mem # None => ~mem.unavailable
    /\ pc = "ending" => mem.status # "complete"
    /\ pc = "publish" => Moving

\* What a session has seen of the sources and the plugin.
Versions ==
    mem # None => mem.sources <= sources /\ mem.plugin <= plugin

\* The pair of the job in hand at each place.
InHand ==
    /\ pc \in {"uncacheArtifact", "uncacheReceipt", "moveArtifact"} =>
           jobs[job].receipt # 0 /\ jobs[job].artifact = jobs[job].receipt
    /\ pc = "moveReceipt" =>
           /\ jobs[job].receipt # 0 /\ jobs[job].artifact = 0
           /\ cache[job].artifact = jobs[job].receipt
    /\ pc \in {"charged", "adoptArtifact"} =>
           /\ jobs[job].receipt = 0
           /\ cache[job].receipt # 0 /\ cache[job].artifact = cache[job].receipt
           /\ bought[cache[job].receipt] = Request(job)
    /\ pc = "adoptReceipt" =>
           /\ jobs[job].receipt = 0 /\ jobs[job].artifact = cache[job].receipt
           /\ cache[job].receipt # 0 /\ cache[job].artifact = 0
           /\ bought[cache[job].receipt] = Request(job)
    /\ pc \in {"reserved", "calling", "writeArtifact", "writeReceipt"} =>
           jobs[job].receipt = 0 /\ cache[job].receipt = 0
    /\ pc = "writeReceipt" => jobs[job].artifact = answer
    /\ pc = "discard" => cache[job].receipt = 0

\* A receipt is in one place, and names an answer to a request of its job, as
\* the answer in hand does.
OnePlace == \A j \in AllJobs : jobs[j].receipt = 0 \/ cache[j].receipt = 0
Named ==
    \A j \in AllJobs, place \in {jobs, cache} :
        place[j].receipt # 0 =>
            place[j].receipt <= Len(bought) /\ bought[place[j].receipt].job = j
Answering == pc \in Answered => answer <= Len(bought) /\ bought[answer] = Request(job)

\* Where a directory's jobs are gone.
Emptied ==
    /\ pc \in Holding \cup {"lock", "release", "unlock"} => work
    /\ ~work => jobs = Nothing /\ cache = Nothing
    /\ pc \in {"unlinkState", "removeFiles", "mkdir"} => jobs = Nothing
    /\ pc = "mkdir" => state = None

Pair(p) == p.artifact # 0 /\ p.receipt # 0

\* The jobs already moved left no complete pair behind.
Moved ==
    pc \in {"move", "uncacheArtifact", "uncacheReceipt", "moveArtifact", "moveReceipt"} =>
        \A j \in AllJobs : j < job => ~Pair(jobs[j])

\* A result r of job j rests on one of the answers bought to the request of record
\* m.
Rests(answers, r, j, m) ==
    \/ r = Gap /\ j \in Optional
    \/ /\ r \in 1..Len(answers)
       /\ answers[r] = [job |-> j, sources |-> m.sources,
                        plugin |-> IF j \in Instructed THEN m.plugin ELSE 0]

\* So do the files that record m calls its own, which are all alike.
Current(answers, m) ==
    \A f \in OwnFiles(m) :
        /\ m.deliverables[f] \in Results
        /\ \A j \in AllJobs : Rests(answers, m.deliverables[f][j], j, m)
        /\ \A g \in OwnFiles(m) : m.deliverables[f] = m.deliverables[g]

\* So do the results of the session, those it has recorded, and those on disk.
ResultsRest == pc \in Holding => \A j \in AllJobs : j < job => Rests(bought, results[j], j, mem)
RecordRests ==
    mem # None /\ mem.deliverables # None =>
        Current(bought, mem)

\* A call charged and not yet owed, and an answer bought and not yet received.
Charging == {"charged", "adoptArtifact", "adoptReceipt"}
Buying   == {"calling", "writeArtifact", "writeReceipt"}
Ahead  == IF pc \in Charging \cup {"reserved"} THEN 1 ELSE 0
Coming == IF pc \in Buying THEN 1 ELSE 0

\* The session's own accounting covers what it owes and what is received, with
\* one call of room while one is charged.
Charged ==
    mem # None =>
        /\ owed + Ahead <= mem.calls
        /\ mem.calls <= owed + crashes + Ahead
        /\ Cardinality(Receipts) + Ahead + Coming <= mem.calls

\* What is about to be delivered has been saved.
Saved ==
    /\ pc \in Buying \cup {"adoptArtifact", "adoptReceipt"} =>
           state # None /\ state.calls = mem.calls
    /\ inflight /\ pc # "reserved" => state # None /\ state.unavailable

\* The request of a job in the current or the next session.
Base(j) ==
    [job |-> j, sources |-> IF mem # None THEN mem.sources ELSE sources,
     plugin |-> IF j \in Instructed THEN IF mem # None THEN mem.plugin ELSE plugin ELSE 0]

\* Nothing was bought for a later request.
KeptEarlier ==
    \A q \in kept : q.sources <= Base(q.job).sources /\ q.plugin <= Base(q.job).plugin

\* An accepted answer to request q of job j is there, or on its way.
Stored(j, q) ==
    \/ Pair(jobs[j]) /\ bought[jobs[j].receipt] = q
    \/ Pair(cache[j]) /\ bought[cache[j].receipt] = q
    \/ pc = "moveReceipt" /\ job = j /\ bought[jobs[j].receipt] = q
    \/ pc = "adoptReceipt" /\ job = j /\ bought[cache[j].receipt] = q

Lost == {j \in AllJobs : Base(j) \in kept /\ ~Stored(j, Base(j))}

\* A request is lost only by a crash.
LostByCrash == repeated + Cardinality(Lost) <= crashes

-----------------------------------------------------------------------------
(***************************************************************************)
(* Lemmas on the job in hand and on the pairs                              *)
(***************************************************************************)

\* A session that works on one job works on a job there is.
LEMMA JobInHand ==
    ASSUME JobsOK, Stages, pc \in AtOneJob
    PROVE  job \in AllJobs
BY JobsAssumption DEF JobsOK, Stages, AllJobs

\* So does one that is about to decide on its next job.
LEMMA NextJob ==
    ASSUME JobsOK, job <= Jobs
    PROVE  job \in AllJobs
BY JobsAssumption DEF JobsOK, AllJobs

\* An artifact and a receipt are numbers of answers, 0 if absent.
LEMMA PairTypes ==
    ASSUME PairsOK, NEW j \in AllJobs
    PROVE  /\ jobs[j] \in Pairs /\ cache[j] \in Pairs
           /\ jobs[j].artifact \in 0..MaxCalls /\ jobs[j].receipt \in 0..MaxCalls
           /\ cache[j].artifact \in 0..MaxCalls /\ cache[j].receipt \in 0..MaxCalls
BY DEF PairsOK, Pairs

\* What writing one artifact does to the pairs of all jobs.
LEMMA ArtifactWritten ==
    ASSUME NEW f \in [AllJobs -> Pairs], NEW j \in AllJobs, NEW n \in 0..MaxCalls
    PROVE  LET g == [f EXCEPT ![j].artifact = n]
           IN  /\ g \in [AllJobs -> Pairs] /\ \A i \in AllJobs \ {j} : g[i] = f[i]
               /\ g[j].artifact = n /\ g[j].receipt = f[j].receipt
BY DEF Pairs

\* What writing one receipt does to the pairs of all jobs.
LEMMA ReceiptWritten ==
    ASSUME NEW f \in [AllJobs -> Pairs], NEW j \in AllJobs, NEW n \in 0..MaxCalls
    PROVE  LET g == [f EXCEPT ![j].receipt = n]
           IN  /\ g \in [AllJobs -> Pairs] /\ \A i \in AllJobs \ {j} : g[i] = f[i]
               /\ g[j].artifact = f[j].artifact /\ g[j].receipt = n
BY DEF Pairs

\* A directory without jobs.
LEMMA NoPairs ==
    /\ Nothing \in [AllJobs -> Pairs] /\ 0 \in 0..MaxCalls
    /\ \A j \in AllJobs : Nothing[j].artifact = 0 /\ Nothing[j].receipt = 0
BY RunBounds DEF Nothing, Pairs

(***************************************************************************)
(* What a step does to the session's record and to the saved one           *)
(***************************************************************************)

\* What a step may make of the session's record: nothing, drop it, take over the
\* saved one, begin a new one, demote it, count a call, or complete it.
MemMove ==
    \/ UNCHANGED mem /\ (pc' \in {"ending", "lock", "reserved", "charged"} => pc' = pc)
    \/ mem' = None /\ pc' = "idle"
    \/ /\ pc = "idle" /\ pc' = "lock" /\ AcceptsResume
       /\ \E status \in {"complete", "running"} : mem' = [state EXCEPT !.status = status]
    \/ /\ pc = "mkdir" /\ pc' = "lock"
       /\ mem' = [id |-> starts, status |-> "running", calls |-> 0, unavailable |-> FALSE,
                  sources |-> sources, plugin |-> plugin, deliverables |-> None]
    \/ \E status \in {"interrupted", "failed"} :
           /\ pc \in {"run", "calling", "publish", "wrap"} /\ pc' = "ending"
           /\ mem' = [mem EXCEPT !.status = status]
    \/ /\ pc = "run" /\ pc' \in {"reserved", "charged"}
       /\ mem' = [mem EXCEPT !.calls = @ + 1]
    \/ /\ pc = "publish" /\ pc' = "wrap" /\ pending = {}
       /\ mem' = [mem EXCEPT !.status = "complete", !.deliverables = files]

\* What it may make of the saved one: nothing, remove it, or write the session's.
StateMove ==
    \/ UNCHANGED state
    \/ state' = None /\ pc \in {"unlinkState", "removeFiles", "idle"}
    \/ pc \in Holding /\ pc' # "idle" /\ state' = [mem' EXCEPT !.unavailable = inflight]

\* A step leaves job's artifacts and receipts as these and the other jobs' alone.
PairMove(jobsArtifact, jobsReceipt, cacheArtifact, cacheReceipt) ==
    /\ job \in AllJobs
    /\ jobs' \in [AllJobs -> Pairs] /\ cache' \in [AllJobs -> Pairs]
    /\ \A i \in AllJobs \ {job} : jobs'[i] = jobs[i] /\ cache'[i] = cache[i]
    /\ jobs'[job].artifact = jobsArtifact /\ jobs'[job].receipt = jobsReceipt
    /\ cache'[job].artifact = cacheArtifact /\ cache'[job].receipt = cacheReceipt

\* Two records of one run, made for the same sources and plugin.
Same(r, m) == r.id = m.id /\ r.sources = m.sources /\ r.plugin = m.plugin

\* Every step changes the record in memory in one of these ways.
LEMMA MemMoves ==
    ASSUME Next
    PROVE  MemMove
BY DEF MemMove, Exhausted, Next, AtRest, vars, Prepare, Work, Finish, World, StartResume, Goto,
       StartFresh, ClearWork, MovePair, UncacheArtifact, UncacheReceipt, MoveArtifact,
       MoveReceipt, UnlinkState, RemoveWork, RemoveFiles, MakeWork, TakeLock, FirstCheckpoint,
       Checkpoint, StopAtJob, End, ReuseReceipt, Take, AtJob, DiscardReceipt, DiscardArtifact,
       ChargeCached, SaveCharge, AdoptArtifact, AdoptReceipt, ReserveCall, StartCall, Answer,
       FailCall, LoseCost, WriteArtifact, WriteReceipt, AcceptJob, Stage, PublishFile,
       PublishFails, Complete, Published, CompletionRefused, Wrap, SaveEnd, RemoveStop,
       ReleaseLock, DropSession, Heartbeat, Crash, Event, LockGoesStale, AskStop, WriteStop,
       EditFile, Change, EmptyDirectory, ImportBegins, InstallFile, InstallReceipt,
       ImportEndsEarly, store, locks, world, imports, history, session, bounds

\* Every step changes the record on disk in one of these ways.
LEMMA StateMoves ==
    ASSUME Next
    PROVE  StateMove
BY DEF StateMove, Holding, Next, AtRest, vars, Prepare, Work, Finish, World, StartResume, Goto,
       StartFresh, ClearWork, MovePair, UncacheArtifact, UncacheReceipt, MoveArtifact,
       MoveReceipt, UnlinkState, RemoveWork, RemoveFiles, MakeWork, TakeLock, FirstCheckpoint,
       Checkpoint, StopAtJob, End, ReuseReceipt, Take, AtJob, DiscardReceipt, DiscardArtifact,
       ChargeCached, SaveCharge, AdoptArtifact, AdoptReceipt, ReserveCall, StartCall, Answer,
       FailCall, LoseCost, WriteArtifact, WriteReceipt, AcceptJob, Stage, PublishFile,
       PublishFails, Complete, Published, CompletionRefused, Wrap, SaveEnd, RemoveStop,
       ReleaseLock, DropSession, Heartbeat, Crash, Event, LockGoesStale, AskStop, WriteStop,
       EditFile, Change, EmptyDirectory, ImportBegins, InstallFile, InstallReceipt,
       ImportEndsEarly, store, locks, world, imports, history, session, bounds

\* What else a record keeps with another status.
LEMMA StatusUpdated ==
    ASSUME NEW r \in Records, NEW s \in Statuses
    PROVE  LET m == [r EXCEPT !.status = s]
           IN  /\ m \in Records /\ Same(m, r) /\ m.status = s /\ m.calls = r.calls
               /\ m.unavailable = r.unavailable /\ m.deliverables = r.deliverables
BY DEF Records, Statuses, Same

\* What else a record keeps with its accounting available or not.
LEMMA AvailabilityUpdated ==
    ASSUME NEW r \in Records, NEW b \in BOOLEAN
    PROVE  LET m == [r EXCEPT !.unavailable = b]
           IN  /\ m \in Records /\ Same(m, r) /\ m.status = r.status /\ m.calls = r.calls
               /\ m.unavailable = b /\ m.deliverables = r.deliverables
BY DEF Records, Statuses, Same

\* What else a record keeps with one call more.
LEMMA CallsUpdated ==
    ASSUME NEW r \in Records
    PROVE  LET m == [r EXCEPT !.calls = @ + 1]
           IN  /\ m \in Records /\ Same(m, r) /\ m.status = r.status /\ m.calls = r.calls + 1
               /\ m.unavailable = r.unavailable /\ m.deliverables = r.deliverables
BY DEF Records, Statuses, Same

\* What else a record keeps with its completion.
LEMMA CompletionUpdated ==
    ASSUME NEW r \in Records, NEW d \in [Files -> Contents]
    PROVE  LET m == [r EXCEPT !.status = "complete", !.deliverables = d]
           IN  /\ m \in Records /\ Same(m, r) /\ m.status = "complete" /\ m.calls = r.calls
               /\ m.unavailable = r.unavailable /\ m.deliverables = d
BY DEF Records, Statuses, Same

\* A session that holds the directory has a record.
LEMMA MemHeld ==
    ASSUME RecordsOK, Stages, pc \in Holding \cup {"lock", "release", "unlock"}
    PROVE  mem \in Records /\ mem # None /\ ~mem.unavailable
BY DEF RecordsOK, Stages

\* Once every file was moved, every file has a content.
LEMMA AllMoved ==
    ASSUME JobsOK, Stages, pc = "publish", pending = {}
    PROVE  /\ files \in [Files -> Contents]
           /\ \A f \in Files : files[f] \in {results, User, Legacy}
<1>1. \A f \in Files : files[f] \in {results, User, Legacy}
  BY DEF Stages, Moving
<1>2. results \in Contents /\ User \in Contents /\ Legacy \in Contents
  BY DEF JobsOK, Contents
<1>3. files \in [Files -> Contents \cup {None}]
  BY DEF Stages, Moving
<1> QED BY <1>1, <1>2, <1>3

\* What the ways to change the record in memory leave of it.
LEMMA MemFields ==
    ASSUME RecordsOK, FlagsOK, JobsOK, RunsOK, HistoryOK, Stages, MemMove
    PROVE  /\ mem' \in Records \cup {None}
           /\ pc \in Holding \cup {"lock", "release", "unlock"} /\ pc' # "idle" =>
                  mem' \in Records
           /\ pc' = "lock" => mem' \in Records
           /\ mem' # None => ~mem'.unavailable
           /\ mem' # None =>
                  \/ /\ mem # None /\ Same(mem', mem)
                     /\ \/ mem'.deliverables = mem.deliverables
                        \/ pc = "publish" /\ pending = {} /\ mem'.deliverables = files
                     /\ \/ mem'.calls = mem.calls
                        \/ /\ pc = "run" /\ pc' \in {"reserved", "charged"}
                           /\ mem'.calls = mem.calls + 1
                  \/ /\ pc = "idle" /\ pc' = "lock" /\ AcceptsResume /\ Same(mem', state)
                     /\ mem'.calls = state.calls /\ mem'.deliverables = state.deliverables
                  \/ /\ pc = "mkdir" /\ pc' = "lock"
                     /\ mem'.sources = sources /\ mem'.plugin = plugin
                     /\ mem'.calls = 0 /\ mem'.deliverables = None
           /\ pc' # pc /\ pc' = "ending" => mem'.status # "complete"
<1> USE DEF RecordsOK
<1>1. CASE UNCHANGED mem /\ (pc' \in {"ending", "lock", "reserved", "charged"} => pc' = pc)
  BY <1>1, MemHeld DEF Stages, Same
<1>2. CASE mem' = None /\ pc' = "idle"
  BY <1>2
<1>3. CASE /\ pc = "idle" /\ pc' = "lock" /\ AcceptsResume
           /\ \E status \in {"complete", "running"} : mem' = [state EXCEPT !.status = status]
  <2>1. state \in Records /\ ~state.unavailable
    BY <1>3 DEF AcceptsResume
  <2>2. PICK s \in Statuses : mem' = [state EXCEPT !.status = s]
    BY <1>3 DEF Statuses
  <2> QED BY <1>3, <2>1, <2>2, StatusUpdated DEF Holding
<1>4. CASE /\ pc = "mkdir" /\ pc' = "lock"
           /\ mem' = [id |-> starts, status |-> "running", calls |-> 0, unavailable |-> FALSE,
                      sources |-> sources, plugin |-> plugin, deliverables |-> None]
  BY <1>4, RunBounds DEF Records, Statuses, Stages, RunsOK, HistoryOK, Holding
<1>5. CASE \E status \in {"interrupted", "failed"} :
             /\ pc \in {"run", "calling", "publish", "wrap"} /\ pc' = "ending"
             /\ mem' = [mem EXCEPT !.status = status]
  <2>1. PICK s \in Statuses \ {"complete"} : mem' = [mem EXCEPT !.status = s]
    BY <1>5 DEF Statuses
  <2>2. mem \in Records /\ mem # None /\ ~mem.unavailable
    BY <1>5, MemHeld DEF Holding
  <2> QED BY <1>5, <2>1, <2>2, StatusUpdated
<1>6. CASE /\ pc = "run" /\ pc' \in {"reserved", "charged"}
           /\ mem' = [mem EXCEPT !.calls = @ + 1]
  BY <1>6, MemHeld, CallsUpdated DEF Holding
<1>7. CASE /\ pc = "publish" /\ pc' = "wrap" /\ pending = {}
           /\ mem' = [mem EXCEPT !.status = "complete", !.deliverables = files]
  <2>1. files \in [Files -> Contents]
    BY <1>7, AllMoved
  <2> QED BY <1>7, <2>1, MemHeld, CompletionUpdated DEF Holding
<1> QED BY <1>1, <1>2, <1>3, <1>4, <1>5, <1>6, <1>7 DEF MemMove

\* The state on disk and the session's own are records of a run.
LEMMA RecordsTyped ==
    ASSUME RecordsOK, FlagsOK, JobsOK, RunsOK, HistoryOK, Stages, Next
    PROVE  RecordsOK'
<1>1. mem' \in Records \cup {None}
  BY MemMoves, MemFields
<1>2. CASE UNCHANGED state \/ state' = None
  BY <1>1, <1>2 DEF RecordsOK
<1>3. CASE pc \in Holding /\ pc' # "idle" /\ state' = [mem' EXCEPT !.unavailable = inflight]
  <2>1. mem' \in Records
    BY <1>3, MemMoves, MemFields
  <2> QED BY <1>1, <1>3, <2>1, AvailabilityUpdated DEF RecordsOK, FlagsOK
<1> QED BY <1>2, <1>3, StateMoves DEF StateMove

\* What one write of the pairs makes of the pair of the job in hand, artifact and
\* receipt of jobs/ and of cache/; the pairs of the other jobs stay.
LEMMA Writes ==
    ASSUME PairsOK, JobsOK, Stages
    PROVE  LET ja == jobs[job].artifact
               jr == jobs[job].receipt
               ca == cache[job].artifact
               cr == cache[job].receipt
           IN  /\ UncacheArtifact => PairMove(ja, jr, 0, cr)
               /\ UncacheReceipt => PairMove(ja, jr, ca, 0)
               /\ MoveArtifact => PairMove(0, jr, ja, cr)
               /\ MoveReceipt => PairMove(ja, 0, ca, jr)
               /\ DiscardReceipt => PairMove(ja, jr, ca, 0)
               /\ DiscardArtifact => PairMove(ja, jr, 0, cr)
               /\ AdoptArtifact => PairMove(ca, jr, 0, cr)
               /\ AdoptReceipt => PairMove(ja, cr, ca, 0)
               /\ WriteArtifact => PairMove(answer, jr, ca, cr)
               /\ WriteReceipt => PairMove(ja, answer, ca, cr)
<1> USE DEF PairsOK, PairMove
<1>1. ASSUME UncacheArtifact
      PROVE  PairMove(jobs[job].artifact, jobs[job].receipt, 0, cache[job].receipt)
  <2>1. job \in AllJobs
    BY <1>1, JobInHand DEF UncacheArtifact, Goto, AtOneJob
  <2> QED BY <1>1, <2>1, ArtifactWritten, NoPairs DEF UncacheArtifact, Goto, session
<1>2. ASSUME UncacheReceipt
      PROVE  PairMove(jobs[job].artifact, jobs[job].receipt, cache[job].artifact, 0)
  <2>1. job \in AllJobs
    BY <1>2, JobInHand DEF UncacheReceipt, Goto, AtOneJob
  <2> QED BY <1>2, <2>1, ReceiptWritten, NoPairs DEF UncacheReceipt, Goto, session
<1>3. ASSUME MoveArtifact
      PROVE  PairMove(0, jobs[job].receipt, jobs[job].artifact, cache[job].receipt)
  <2>1. job \in AllJobs
    BY <1>3, JobInHand DEF MoveArtifact, Goto, AtOneJob
  <2>2. jobs[job].artifact \in 0..MaxCalls
    BY <2>1, PairTypes
  <2> QED BY <1>3, <2>1, <2>2, ArtifactWritten, NoPairs DEF MoveArtifact, Goto, session
<1>4. ASSUME MoveReceipt
      PROVE  PairMove(jobs[job].artifact, 0, cache[job].artifact, jobs[job].receipt)
  <2>1. job \in AllJobs
    BY <1>4, JobInHand DEF MoveReceipt, Goto, AtOneJob
  <2>2. jobs[job].receipt \in 0..MaxCalls
    BY <2>1, PairTypes
  <2> QED BY <1>4, <2>1, <2>2, ReceiptWritten, NoPairs DEF MoveReceipt, Goto
<1>5. ASSUME DiscardReceipt
      PROVE  PairMove(jobs[job].artifact, jobs[job].receipt, cache[job].artifact, 0)
  <2>1. job \in AllJobs
    BY <1>5, NextJob DEF DiscardReceipt, AtJob
  <2> QED BY <1>5, <2>1, ReceiptWritten, NoPairs DEF DiscardReceipt, AtJob, session
<1>6. ASSUME DiscardArtifact
      PROVE  PairMove(jobs[job].artifact, jobs[job].receipt, 0, cache[job].receipt)
  <2>1. job \in AllJobs
    BY <1>6, JobInHand DEF DiscardArtifact, Goto, AtOneJob
  <2> QED BY <1>6, <2>1, ArtifactWritten, NoPairs DEF DiscardArtifact, Goto, session
<1>7. ASSUME AdoptArtifact
      PROVE  PairMove(cache[job].artifact, jobs[job].receipt, 0, cache[job].receipt)
  <2>1. job \in AllJobs
    BY <1>7, JobInHand DEF AdoptArtifact, Goto, AtOneJob
  <2>2. cache[job].artifact \in 0..MaxCalls
    BY <2>1, PairTypes
  <2> QED BY <1>7, <2>1, <2>2, ArtifactWritten, NoPairs DEF AdoptArtifact, Goto, session
<1>8. ASSUME AdoptReceipt
      PROVE  PairMove(jobs[job].artifact, cache[job].receipt, cache[job].artifact, 0)
  <2>1. job \in AllJobs
    BY <1>8, JobInHand DEF AdoptReceipt, Goto, AtOneJob
  <2>2. cache[job].receipt \in 0..MaxCalls
    BY <2>1, PairTypes
  <2> QED BY <1>8, <2>1, <2>2, ReceiptWritten, NoPairs DEF AdoptReceipt, Goto, Take
<1>9. ASSUME WriteArtifact
      PROVE  PairMove(answer, jobs[job].receipt, cache[job].artifact, cache[job].receipt)
  <2>1. job \in AllJobs
    BY <1>9, JobInHand DEF WriteArtifact, Goto, AtOneJob
  <2> QED BY <1>9, <2>1, ArtifactWritten DEF WriteArtifact, Goto, session, JobsOK
<1>10. ASSUME WriteReceipt
      PROVE  PairMove(jobs[job].artifact, answer, cache[job].artifact, cache[job].receipt)
  <2>1. job \in AllJobs
    BY <1>10, JobInHand DEF WriteReceipt, Goto, AtOneJob
  <2> QED BY <1>10, <2>1, ReceiptWritten DEF WriteReceipt, Goto, session, JobsOK
<1> QED BY ONLY <1>1, <1>2, <1>3, <1>4, <1>5, <1>6, <1>7, <1>8, <1>9, <1>10

\* Artifacts and receipts are numbers of answers.
LEMMA PairsTyped ==
    ASSUME PairsOK, JobsOK, Stages, Next
    PROVE  PairsOK'
<1>1. \/ UNCHANGED <<jobs, cache>>
      \/ ClearWork \/ MovePair \/ UncacheArtifact \/ UncacheReceipt \/ MoveArtifact \/ MoveReceipt
      \/ RemoveWork \/ DiscardReceipt \/ DiscardArtifact \/ AdoptArtifact \/ AdoptReceipt
      \/ WriteArtifact \/ WriteReceipt \/ EmptyDirectory
  BY DEF Next, AtRest, vars, Prepare, Work, Finish, World, StartResume, Goto, StartFresh,
         UnlinkState, RemoveFiles, MakeWork, TakeLock, FirstCheckpoint, Checkpoint, StopAtJob,
         End, ReuseReceipt, Take, AtJob, ChargeCached, SaveCharge, ReserveCall, StartCall, Answer,
         FailCall, LoseCost, AcceptJob, Stage, PublishFile, PublishFails, Complete, Published,
         CompletionRefused, Wrap, SaveEnd, RemoveStop, ReleaseLock, DropSession, Heartbeat, Crash,
         Event, LockGoesStale, AskStop, WriteStop, EditFile, Change, ImportBegins, InstallFile,
         InstallReceipt, ImportEndsEarly, store, locks, world, imports, history, session, bounds
<1> USE DEF PairsOK
<1>2. CASE UNCHANGED <<jobs, cache>>
  BY <1>2
<1>3. CASE ClearWork
  BY <1>3, NoPairs DEF ClearWork, session
<1>4. CASE MovePair
  BY <1>4, NoPairs DEF MovePair
<1>5. CASE UncacheArtifact
  BY <1>5, Writes DEF UncacheArtifact, Goto, session, PairMove
<1>6. CASE UncacheReceipt
  BY <1>6, Writes DEF UncacheReceipt, Goto, session, PairMove
<1>7. CASE MoveArtifact
  BY <1>7, Writes DEF MoveArtifact, Goto, session, PairMove
<1>8. CASE MoveReceipt
  BY <1>8, Writes DEF MoveReceipt, Goto, PairMove
<1>9. CASE RemoveWork
  BY <1>9, NoPairs DEF RemoveWork, Goto, session
<1>10. CASE DiscardReceipt
  BY <1>10, Writes DEF DiscardReceipt, AtJob, session, PairMove
<1>11. CASE DiscardArtifact
  BY <1>11, Writes DEF DiscardArtifact, Goto, session, PairMove
<1>12. CASE AdoptArtifact
  BY <1>12, Writes DEF AdoptArtifact, Goto, session, PairMove
<1>13. CASE AdoptReceipt
  BY <1>13, Writes DEF AdoptReceipt, Goto, Take, PairMove
<1>14. CASE WriteArtifact
  BY <1>14, Writes DEF WriteArtifact, Goto, session, PairMove
<1>15. CASE WriteReceipt
  BY <1>15, Writes DEF WriteReceipt, Goto, session, PairMove
<1>16. CASE EmptyDirectory
  BY <1>16, NoPairs DEF EmptyDirectory, session
<1> QED BY <1>1, <1>2, <1>3, <1>4, <1>5, <1>6, <1>7, <1>8, <1>9, <1>10, <1>11, <1>12, <1>13,
       <1>14, <1>15, <1>16

\* Deliverables and what an import or a replacement has to do are of their types.
LEMMA FilesTyped ==
    ASSUME FilesOK, JobsOK, Next
    PROVE  FilesOK'
<1>1. \/ UNCHANGED <<files, importing, pending>>
      \/ StartFresh \/ RemoveFiles \/ Stage \/ PublishFile \/ ReleaseLock \/ Crash \/ EditFile
      \/ EmptyDirectory \/ ImportBegins \/ InstallFile \/ InstallReceipt \/ ImportEndsEarly
  BY DEF Next, AtRest, vars, Prepare, Work, Finish, World, StartResume, Goto, ClearWork, MovePair,
         UncacheArtifact, UncacheReceipt, MoveArtifact, MoveReceipt, UnlinkState, RemoveWork,
         MakeWork, TakeLock, FirstCheckpoint, Checkpoint, StopAtJob, End, ReuseReceipt, Take,
         AtJob, DiscardReceipt, DiscardArtifact, ChargeCached, SaveCharge, AdoptArtifact,
         AdoptReceipt, ReserveCall, StartCall, Answer, FailCall, LoseCost, WriteArtifact,
         WriteReceipt, AcceptJob, PublishFails, Complete, Published, CompletionRefused,
         Wrap, SaveEnd, RemoveStop, Heartbeat, LockGoesStale, AskStop, Event, WriteStop, Change,
         store, locks, world, imports, history, session, bounds
<1> USE FilesAssumption DEF FilesOK
<1>2. CASE UNCHANGED <<files, importing, pending>>
  BY <1>2
<1>3. CASE StartFresh
  <2>1. Owned \ Own \subseteq Files \cup {"import"}
    BY DEF Owned, Own, Unchanged, Recorded
  <2> QED BY <1>3, <2>1 DEF StartFresh, store, world, imports
<1>4. CASE RemoveFiles
  BY <1>4 DEF RemoveFiles
<1>5. CASE PublishFile
  BY <1>5 DEF PublishFile, world, imports, JobsOK, Contents
<1>6. CASE ReleaseLock
  BY <1>6 DEF ReleaseLock, Goto, DropSession, store, world, imports
<1>7. CASE Crash
  BY <1>7 DEF Crash, Event, DropSession, store, world, imports
<1>8. CASE EditFile
  BY <1>8 DEF EditFile, Event, session, world, imports, Contents
<1>9. CASE EmptyDirectory
  BY <1>9 DEF EmptyDirectory, session
<1>10. CASE ImportBegins
  BY <1>10 DEF ImportBegins, Event, store, session
<1>11. CASE InstallFile
  BY <1>11 DEF InstallFile, session, Contents
<1>12. CASE InstallReceipt
  BY <1>12 DEF InstallReceipt, Event, store, session
<1>13. CASE ImportEndsEarly
  BY <1>13 DEF ImportEndsEarly, Event, store, session
<1>14. CASE Stage
  BY <1>14 DEF Stage, End, Goto, store, world, imports
<1> QED BY <1>1, <1>2, <1>3, <1>4, <1>5, <1>6, <1>7, <1>8, <1>9, <1>10, <1>11, <1>12, <1>13, <1>14

\* Flags are Booleans.
LEMMA FlagsTyped ==
    ASSUME FlagsOK, Next
    PROVE  FlagsOK'
<1>1. \/ UNCHANGED <<work, fresh, inCheckout, replace, inflight, cancelled, expired, imported,
                     staging>>
      \/ StartFresh \/ RemoveWork \/ RemoveFiles \/ MakeWork \/ TakeLock \/ FirstCheckpoint
      \/ SaveCharge \/ ReserveCall \/ StartCall \/ Answer \/ FailCall \/ AcceptJob \/ Complete
      \/ SaveEnd \/ ReleaseLock \/ Heartbeat \/ Crash \/ LockGoesStale \/ WriteStop \/ Change
      \/ EmptyDirectory \/ ImportBegins \/ InstallReceipt \/ ImportEndsEarly
  BY DEF Next, AtRest, vars, Prepare, Work, Finish, World, StartResume, Goto, ClearWork, MovePair,
         UncacheArtifact, UncacheReceipt, MoveArtifact, MoveReceipt, UnlinkState, StopAtJob, End,
         ReuseReceipt, Take, AtJob, DiscardReceipt, DiscardArtifact, ChargeCached, AdoptArtifact,
         AdoptReceipt, LoseCost, WriteArtifact, WriteReceipt, Stage, PublishFile, PublishFails,
         CompletionRefused, Published, Wrap, RemoveStop, AskStop, Event, EditFile, InstallFile,
         store, locks, world, imports, history, session, bounds
<1> USE DEF FlagsOK
<1>2. CASE UNCHANGED <<work, fresh, inCheckout, replace, inflight, cancelled, expired, imported,
                       staging>>
  BY <1>2
<1>3. CASE StartFresh
  BY <1>3 DEF StartFresh, store, locks, world, imports
<1>4. CASE RemoveWork
  BY <1>4 DEF RemoveWork, Goto, locks, session, world, imports
<1>5. CASE RemoveFiles
  BY <1>5 DEF RemoveFiles, locks
<1>6. CASE MakeWork
  BY <1>6 DEF MakeWork, Goto, locks, imports
<1>7. CASE TakeLock
  BY <1>7 DEF TakeLock, Goto, store, session, world, imports
<1>8. CASE FirstCheckpoint
  BY <1>8 DEF FirstCheckpoint, Goto, Checkpoint, store, locks, world, imports
<1>9. CASE SaveCharge
  BY <1>9 DEF SaveCharge, Goto, Checkpoint, store, locks, world, imports
<1>10. CASE ReserveCall
  BY <1>10 DEF ReserveCall, AtJob, store, locks, world, imports
<1>11. CASE StartCall
  BY <1>11 DEF StartCall, Goto, Checkpoint, store, locks, world, imports
<1>12. CASE Answer
  BY <1>12 DEF Answer, Goto, store, locks, world, imports
<1>13. CASE FailCall
  BY <1>13 DEF FailCall, End, Goto, Take, store, locks, world, imports
<1>14. CASE AcceptJob
  BY <1>14 DEF AcceptJob, Goto, Take, Checkpoint, store, locks, world, imports
<1>15. CASE Complete
  BY <1>15 DEF Complete, Checkpoint, Published, store, locks, world, imports
<1>16. CASE SaveEnd
  BY <1>16 DEF SaveEnd, Goto, Checkpoint, store, locks, world, imports
<1>17. CASE ReleaseLock
  BY <1>17 DEF ReleaseLock, Goto, DropSession, store, world, imports
<1>18. CASE Heartbeat
  BY <1>18 DEF Heartbeat, Checkpoint, store, locks, world, imports
<1>19. CASE Crash
  BY <1>19 DEF Crash, Event, DropSession, store, locks, world, imports
<1>20. CASE LockGoesStale
  BY <1>20 DEF LockGoesStale, store, session, world, imports
<1>21. CASE WriteStop
  BY <1>21 DEF WriteStop, store, imports
<1>22. CASE Change
  BY <1>22 DEF Change, Event, store, locks, session, imports
<1>23. CASE EmptyDirectory
  BY <1>23 DEF EmptyDirectory, session
<1>24. CASE ImportBegins
  BY <1>24 DEF ImportBegins, Event, store, locks, session
<1>25. CASE InstallReceipt
  BY <1>25 DEF InstallReceipt, Event, store, locks, session
<1>26. CASE ImportEndsEarly
  BY <1>26 DEF ImportEndsEarly, Event, store, locks, session
<1> QED BY <1>1, <1>2, <1>3, <1>4, <1>5, <1>6, <1>7, <1>8, <1>9, <1>10, <1>11, <1>12, <1>13,
       <1>14, <1>15, <1>16, <1>17, <1>18, <1>19, <1>20, <1>21, <1>22, <1>23, <1>24, <1>25, <1>26

\* The request of the job in hand is a request.
LEMMA RequestTyped ==
    ASSUME RecordsOK, Stages, pc \in Holding, NEW j \in AllJobs
    PROVE  Request(j) \in Requests
BY MemHeld DEF Request, Requests, Records

\* The runs named by locks and requests are runs there are.
LEMMA RunsTyped ==
    ASSUME RunsOK, RecordsOK, Stages, Next
    PROVE  RunsOK'
<1>1. \/ UNCHANGED <<stop, lock, stopper, starts>>
      \/ StartResume \/ StartFresh \/ TakeLock \/ RemoveStop \/ ReleaseLock \/ AskStop
      \/ WriteStop \/ EmptyDirectory
  BY DEF Next, AtRest, vars, Prepare, Work, Finish, World, ClearWork, MovePair, UncacheArtifact,
         Goto, UncacheReceipt, MoveArtifact, MoveReceipt, UnlinkState, RemoveWork, RemoveFiles,
         MakeWork, FirstCheckpoint, Checkpoint, StopAtJob, End, ReuseReceipt, Take, AtJob,
         DiscardReceipt, DiscardArtifact, ChargeCached, SaveCharge, AdoptArtifact, AdoptReceipt,
         ReserveCall, StartCall, Answer, FailCall, LoseCost, WriteArtifact, WriteReceipt,
         AcceptJob, Stage, PublishFile, PublishFails, Complete, Published, CompletionRefused,
         Wrap, SaveEnd, Heartbeat, Crash, Event, DropSession, LockGoesStale, EditFile, Change,
         ImportBegins, InstallFile, InstallReceipt, ImportEndsEarly, locks, session, world,
         imports, bounds, history, store
<1> USE RunBounds DEF RunsOK
<1>2. CASE UNCHANGED <<stop, lock, stopper, starts>>
  BY <1>2
<1>3. CASE StartResume
  BY <1>3 DEF StartResume, Goto, locks, world
<1>4. CASE StartFresh
  BY <1>4 DEF StartFresh, locks, world
<1>5. CASE TakeLock
  <2>1. mem \in Records
    BY <1>5, MemHeld DEF TakeLock, Goto
  <2> QED BY <1>5, <2>1 DEF TakeLock, Goto, world, bounds, Records
<1>6. CASE RemoveStop
  BY <1>6 DEF RemoveStop, Goto, world, bounds
<1>7. CASE ReleaseLock
  BY <1>7 DEF ReleaseLock, Goto, DropSession, world, bounds
<1>8. CASE AskStop
  BY <1>8 DEF AskStop, Event, locks
<1>9. CASE WriteStop
  BY <1>9 DEF WriteStop, bounds
<1>10. CASE EmptyDirectory
  BY <1>10 DEF EmptyDirectory, bounds
<1> QED BY <1>1, <1>2, <1>3, <1>4, <1>5, <1>6, <1>7, <1>8, <1>9, <1>10

\* The versions, the requests and the counters are of their types.
LEMMA HistoryTyped ==
    ASSUME HistoryOK, RecordsOK, JobsOK, Stages, Next
    PROVE  HistoryOK'
<1>1. \/ UNCHANGED <<sources, plugin, bought, kept, repeated, owed, raced, events, crashes>>
      \/ ClearWork \/ RemoveWork \/ MakeWork \/ AdoptReceipt \/ StartCall \/ Answer
      \/ WriteReceipt \/ Crash \/ AskStop \/ EditFile \/ Change \/ EmptyDirectory \/ ImportBegins
      \/ InstallReceipt \/ ImportEndsEarly \/ StartFresh
  BY DEF Next, AtRest, vars, Prepare, Work, Finish, World, StartResume, Goto,
         MovePair, UncacheArtifact, UncacheReceipt, MoveArtifact, MoveReceipt, UnlinkState,
         RemoveFiles, TakeLock, FirstCheckpoint, Checkpoint, StopAtJob, End, ReuseReceipt, Take,
         AtJob, DiscardReceipt, DiscardArtifact, ChargeCached, SaveCharge, AdoptArtifact,
         ReserveCall, FailCall, LoseCost, WriteArtifact, AcceptJob, Stage, PublishFile,
         PublishFails, Complete, Published, CompletionRefused, Wrap, SaveEnd, RemoveStop,
         ReleaseLock, DropSession, Heartbeat, LockGoesStale, WriteStop, InstallFile, store, locks,
         world, imports, history, bounds, session
<1> USE RunBounds DEF HistoryOK
<1>2. CASE UNCHANGED <<sources, plugin, bought, kept, repeated, owed, raced, events, crashes>>
  BY <1>2
<1>3. CASE ClearWork
  BY <1>3 DEF ClearWork, world, bounds
<1>4. CASE RemoveWork
  BY <1>4 DEF RemoveWork, Goto, world, bounds
<1>5. CASE MakeWork
  BY <1>5 DEF MakeWork, Goto, bounds
<1>6. CASE AdoptReceipt
  BY <1>6 DEF AdoptReceipt, Goto, Take, world, bounds
<1>7. CASE StartCall
  BY <1>7 DEF StartCall, Goto, Checkpoint, world, bounds
<1>8. CASE Answer
  <2>1. job \in AllJobs
    BY <1>8, JobInHand DEF Answer, Goto, AtOneJob
  <2>2. Request(job) \in Requests
    BY <1>8, <2>1, RequestTyped DEF Answer, Goto, Holding
  <2> QED BY <1>8, <2>2 DEF Answer, Goto, world, bounds
<1>9. CASE WriteReceipt
  <2>1. job \in AllJobs
    BY <1>9, JobInHand DEF WriteReceipt, Goto, AtOneJob
  <2>2. Request(job) \in Requests
    BY <1>9, <2>1, RequestTyped DEF WriteReceipt, Goto, Holding
  <2> QED BY <1>9, <2>2 DEF WriteReceipt, Goto, world, bounds
<1>10. CASE Crash
  BY <1>10 DEF Crash, Event, DropSession, world, history
<1>11. CASE AskStop
  BY <1>11 DEF AskStop, Event, history
<1>12. CASE EditFile
  BY <1>12 DEF EditFile, Event, world, history
<1>13. CASE Change
  BY <1>13 DEF Change, Event, history
<1>14. CASE EmptyDirectory
  BY <1>14 DEF EmptyDirectory, bounds
<1>15. CASE ImportBegins
  BY <1>15 DEF ImportBegins, Event, history
<1>16. CASE InstallReceipt
  BY <1>16 DEF InstallReceipt, Event, history
<1>17. CASE ImportEndsEarly
  BY <1>17 DEF ImportEndsEarly, Event, history
<1>18. CASE StartFresh
  BY <1>18 DEF StartFresh, world
<1> QED BY <1>1, <1>2, <1>3, <1>4, <1>5, <1>6, <1>7, <1>8, <1>9, <1>10, <1>11, <1>12, <1>13,
       <1>14, <1>15, <1>16, <1>17, <1>18

\* Places, jobs, answers and results are of their types.
LEMMA JobsTyped ==
    ASSUME JobsOK, PairsOK, HistoryOK, Stages, InHand, Next
    PROVE  JobsOK'
<1> USE DEF JobsOK, Preparing, Holding, Next, AtRest, vars, Prepare, Work, Finish, World,
        StartResume, Goto, StartFresh, ClearWork, MovePair, UncacheArtifact, UncacheReceipt,
        MoveArtifact, MoveReceipt, UnlinkState, RemoveWork, RemoveFiles, MakeWork, TakeLock,
        FirstCheckpoint, Checkpoint, StopAtJob, End, ReuseReceipt, Take, AtJob, DiscardReceipt,
        DiscardArtifact, ChargeCached, SaveCharge, AdoptArtifact, AdoptReceipt, ReserveCall,
        StartCall, Answer, FailCall, LoseCost, WriteArtifact, WriteReceipt, AcceptJob, Stage,
        PublishFile, PublishFails, Complete, Published, CompletionRefused, Wrap, SaveEnd,
        RemoveStop, ReleaseLock, DropSession, Heartbeat, Crash, Event, LockGoesStale, AskStop,
        WriteStop, EditFile, Change, EmptyDirectory, ImportBegins, InstallFile, InstallReceipt,
        ImportEndsEarly, store, locks, world, imports, history, session, bounds
<1>1. (pc \in Preparing \cup Holding \cup {"idle", "release", "unlock"})'
  OBVIOUS
<1>2. pc \in AtOneJob => job <= Jobs
  BY ONLY Stages DEF Stages
<1>3. \/ UNCHANGED job
      \/ job' = 1
      \/ job <= Jobs /\ job' = job + 1
  BY <1>2 DEF AtOneJob
<1>4. (job \in 1..(Jobs + 1))'
  BY ONLY <1>3, JobsOK, JobsAssumption DEF JobsOK
<1>5. (answer \in 0..MaxCalls)'
  BY RunBounds DEF HistoryOK
<1>6. /\ pc = "accept" => answer \in 1..MaxCalls
      /\ \A j \in AllJobs : jobs[j].artifact # 0 => jobs[j].artifact \in 1..MaxCalls
      /\ pc = "adoptReceipt" => jobs[job].artifact # 0
  BY ONLY Stages, InHand, PairTypes, JobsOK, PairsOK, RunBounds DEF Stages, InHand, JobsOK,
     Answered
<1>7. \/ UNCHANGED results \/ results' = NoResults
      \/ \E r \in {Gap} \cup 1..MaxCalls : results' = [results EXCEPT ![job] = r]
  BY <1>2, <1>6, NextJob DEF AtOneJob
<1>8. (results \in Results)'
  BY ONLY <1>7, JobsOK DEF JobsOK, Results, NoResults
<1> QED BY ONLY <1>1, <1>4, <1>5, <1>8 DEF JobsOK

\* A session has a record where it holds the directory, which it does not leave
\* without ending, and its accounting is available until it ends.
LEMMA RecordStages ==
    ASSUME RecordsOK, FlagsOK, JobsOK, RunsOK, HistoryOK, Stages, Next
    PROVE  /\ (pc \in Holding \cup {"lock", "release", "unlock"} => mem # None)'
           /\ (mem # None => ~mem.unavailable)'
           /\ (pc = "ending" => mem.status # "complete")'
<1>1. pc' \in Holding \cup {"release", "unlock"} =>
          pc \in Holding \cup {"lock", "release", "unlock"}
  BY DEF Holding, Next, AtRest, vars, Prepare, Work, Finish, World, StartResume, Goto, StartFresh,
         ClearWork, MovePair, UncacheArtifact, UncacheReceipt, MoveArtifact, MoveReceipt,
         UnlinkState, RemoveWork, RemoveFiles, MakeWork, TakeLock, FirstCheckpoint, Checkpoint,
         StopAtJob, End, ReuseReceipt, Take, AtJob, DiscardReceipt, DiscardArtifact, ChargeCached,
         SaveCharge, AdoptArtifact, AdoptReceipt, ReserveCall, StartCall, Answer, FailCall,
         LoseCost, WriteArtifact, WriteReceipt, AcceptJob, Stage, PublishFile, PublishFails,
         Complete, Published, CompletionRefused, Wrap, SaveEnd, RemoveStop, ReleaseLock,
         DropSession, Heartbeat, Crash, Event, LockGoesStale, AskStop, WriteStop, EditFile,
         Change, EmptyDirectory, ImportBegins, InstallFile, InstallReceipt, ImportEndsEarly,
         store, locks, world, imports, history, session, bounds
<1>2. (pc \in Holding \cup {"lock", "release", "unlock"} => mem # None)'
  BY <1>1, MemMoves, MemFields, MarkersAssumption DEF Holding
<1>3. (pc = "ending" => mem.status # "complete")'
  <2>1. CASE pc = "ending"
    <3>1. pc' = "ending" => UNCHANGED mem
      BY <2>1, MemMoves DEF MemMove
    <3> QED BY <2>1, <3>1 DEF Stages
  <2>2. CASE pc # "ending"
    <3>1. pc' # pc /\ pc' = "ending" => mem'.status # "complete"
      BY MemMoves, MemFields
    <3> QED BY <2>2, <3>1
  <2> QED BY <2>1, <2>2
<1> QED BY <1>2, <1>3, MemMoves, MemFields

\* Files once moved stay as they were published, imported or edited.
LEMMA MovingHolds ==
    ASSUME FilesOK, JobsOK, Stages, Next
    PROVE  (pc = "publish" => Moving)'
<1>1. \/ pc' # "publish"
      \/ pc = "publish" /\ UNCHANGED <<files, pending, results>>
      \/ Stage
      \/ pc = "publish" /\ UNCHANGED results /\ PublishFile
      \/ pc = "publish" /\ UNCHANGED <<pending, results>> /\ (EditFile \/ InstallFile)
  BY DEF Holding, Next, AtRest, vars, Prepare, Work, Finish, World, StartResume, Goto, StartFresh,
         ClearWork, MovePair, UncacheArtifact, UncacheReceipt, MoveArtifact, MoveReceipt,
         UnlinkState, RemoveWork, RemoveFiles, MakeWork, TakeLock, FirstCheckpoint, Checkpoint,
         StopAtJob, End, ReuseReceipt, Take, AtJob, DiscardReceipt, DiscardArtifact, ChargeCached,
         SaveCharge, AdoptArtifact, AdoptReceipt, ReserveCall, StartCall, Answer, FailCall,
         LoseCost, WriteArtifact, WriteReceipt, AcceptJob, PublishFile, PublishFails,
         Complete, Published, CompletionRefused, Wrap, SaveEnd, RemoveStop, ReleaseLock,
         DropSession, Heartbeat, Crash, Event, LockGoesStale, AskStop, WriteStop, EditFile,
         Change, EmptyDirectory, ImportBegins, InstallFile, InstallReceipt, ImportEndsEarly,
         store, locks, world, imports, history, session, bounds
<1>2. results \in Contents /\ User \in Contents /\ Legacy \in Contents
  BY DEF JobsOK, Contents
<1>3. CASE pc = "publish" /\ UNCHANGED <<files, pending, results>>
  BY <1>3 DEF Stages, Moving
<1>4. CASE Stage
  BY <1>4 DEF Stage, End, Goto, store, Moving, FilesOK
<1>5. CASE pc = "publish" /\ UNCHANGED results /\ PublishFile
  BY <1>2, <1>5 DEF PublishFile, Stages, Moving
<1>6. CASE pc = "publish" /\ UNCHANGED <<pending, results>> /\ (EditFile \/ InstallFile)
  BY <1>2, <1>6 DEF EditFile, InstallFile, Stages, Moving
<1> QED BY <1>1, <1>3, <1>4, <1>5, <1>6

\* Every step leaves the session's variables as they have to be at its next place.
LEMMA StagesHold ==
    ASSUME RecordsOK, FilesOK, FlagsOK, JobsOK, RunsOK, HistoryOK, Stages, Next
    PROVE  Stages'
<1> USE DEF Stages, JobsOK, RunsOK, NoSession, Preparing, Holding, AtOneJob, Answered, Next,
        AtRest, vars, Prepare, Work, Finish, World, StartResume, Goto, StartFresh, ClearWork,
        MovePair, UncacheArtifact, UncacheReceipt, MoveArtifact, MoveReceipt, UnlinkState,
        RemoveWork, RemoveFiles, MakeWork, TakeLock, FirstCheckpoint, Checkpoint, StopAtJob, End,
        ReuseReceipt, Take, AtJob, DiscardReceipt, DiscardArtifact, ChargeCached, SaveCharge,
        AdoptArtifact, AdoptReceipt, ReserveCall, StartCall, Answer, FailCall, LoseCost,
        WriteArtifact, WriteReceipt, AcceptJob, Stage, PublishFile, PublishFails, Complete,
        Published, CompletionRefused, Wrap, SaveEnd, RemoveStop, ReleaseLock, DropSession,
        Heartbeat, Crash, Event, LockGoesStale, AskStop, WriteStop, EditFile, Change,
        EmptyDirectory, ImportBegins, InstallFile, InstallReceipt, ImportEndsEarly, store, locks,
        world, imports, history, session, bounds
<1>1. (pc = "idle" => NoSession)'
  OBVIOUS
<1>2. (pc # "idle" => starts > 0)'
  OBVIOUS
<1>3. (pc \in Preparing \ {"lock"} => mem = None)'
  OBVIOUS
<1>4. (pc \in Holding \cup {"lock", "release", "unlock"} => mem # None)'
  BY RecordStages
<1>5. (pc \in {"clear", "unlinkState", "removeWork", "removeFiles", "mkdir", "lock", "first"} =>
         job = 1)'
  OBVIOUS
<1>6. (pc \in AtOneJob => job <= Jobs)'
  OBVIOUS
<1>7. (pc \in {"publish", "wrap"} => job > Jobs)'
  OBVIOUS
<1>8. (inflight => pc \in {"reserved", "calling", "ending", "release", "unlock"})'
  OBVIOUS
<1>9. (pc \in {"reserved", "calling"} => inflight)'
  OBVIOUS
<1>10. (answer # 0 <=> pc \in Answered)'
  OBVIOUS
<1>11. /\ (mem # None => ~mem.unavailable)'
     /\ (pc = "ending" => mem.status # "complete")'
  BY RecordStages
<1>12. (pc = "publish" => Moving)'
  BY MovingHolds
<1> QED BY ONLY <1>1, <1>2, <1>3, <1>4, <1>5, <1>6, <1>7, <1>8, <1>9, <1>10, <1>11, <1>12
        DEF Stages

\* A session never saw later sources or a later plugin than there are.
LEMMA VersionsHold ==
    ASSUME RecordsOK, FlagsOK, JobsOK, RunsOK, HistoryOK, Stages, Versions, Next
    PROVE  Versions'
<1>1. sources' \in {sources, sources + 1} /\ plugin' \in {plugin, plugin + 1}
  BY DEF Next, AtRest, vars, Prepare, Work, Finish, World, StartResume, Goto, StartFresh,
         ClearWork, MovePair, UncacheArtifact, UncacheReceipt, MoveArtifact, MoveReceipt,
         UnlinkState, RemoveWork, RemoveFiles, MakeWork, TakeLock, FirstCheckpoint, Checkpoint,
         StopAtJob, End, ReuseReceipt, Take, AtJob, DiscardReceipt, DiscardArtifact, ChargeCached,
         SaveCharge, AdoptArtifact, AdoptReceipt, ReserveCall, StartCall, Answer, FailCall,
         LoseCost, WriteArtifact, WriteReceipt, AcceptJob, Stage, PublishFile, PublishFails,
         Complete, Published, CompletionRefused, Wrap, SaveEnd, RemoveStop, ReleaseLock,
         DropSession, Heartbeat, Crash, Event, LockGoesStale, AskStop, WriteStop, EditFile,
         Change, EmptyDirectory, ImportBegins, InstallFile, InstallReceipt, ImportEndsEarly,
         store, locks, world, imports, history, session, bounds
<1>2. mem # None => mem.sources \in Nat /\ mem.plugin \in Nat
  BY DEF RecordsOK, Records
<1>3. CASE mem' = None
  BY <1>3 DEF Versions
<1>4. CASE mem # None /\ Same(mem', mem)
  BY <1>1, <1>2, <1>4 DEF Versions, Same, HistoryOK
<1>5. CASE pc = "idle" /\ AcceptsResume /\ Same(mem', state)
  BY <1>1, <1>5 DEF Versions, Same, HistoryOK, AcceptsResume
<1>6. CASE pc = "mkdir" /\ mem'.sources = sources /\ mem'.plugin = plugin
  BY <1>1, <1>6 DEF Versions, HistoryOK
<1> QED BY <1>3, <1>4, <1>5, <1>6, MemMoves, MemFields

\* An artifact beside a receipt is the one it accepted.
LEMMA PairIntact ==
    ASSUME PairsIntact, NEW j \in AllJobs
    PROVE  /\ jobs[j].receipt # 0 => jobs[j].artifact \in {0, jobs[j].receipt}
           /\ cache[j].receipt # 0 => cache[j].artifact \in {0, cache[j].receipt}
BY DEF PairsIntact

\* The pair of the job in hand is as the session left it.
LEMMA InHandHolds ==
    ASSUME PairsOK, JobsOK, RecordsOK, Stages, InHand, PairsIntact, Next
    PROVE  InHand'
<1>1. \/ UNCHANGED <<pc, job, mem, answer, jobs, cache, bought>>
      \/ pc' \notin AtOneJob \ {"accept"}
      \/ MovePair \/ UncacheArtifact \/ UncacheReceipt \/ MoveArtifact \/ DiscardReceipt
      \/ ChargeCached \/ SaveCharge \/ AdoptArtifact \/ ReserveCall \/ StartCall \/ Answer
      \/ WriteArtifact
  BY DEF AtOneJob, Next, AtRest, vars, Prepare, Work, Finish, World, StartResume, Goto,
     StartFresh, ClearWork, MoveReceipt, UnlinkState, RemoveWork, RemoveFiles, MakeWork, TakeLock,
     FirstCheckpoint, Checkpoint, StopAtJob, End, ReuseReceipt, Take, AtJob, DiscardArtifact,
     AdoptReceipt, FailCall, LoseCost, WriteReceipt, AcceptJob, Stage, PublishFile, PublishFails,
     Complete, Published, CompletionRefused, Wrap, SaveEnd, RemoveStop, ReleaseLock, DropSession,
     Heartbeat, Crash, Event, LockGoesStale, AskStop, WriteStop, EditFile, Change, EmptyDirectory,
     ImportBegins, InstallFile, InstallReceipt, ImportEndsEarly, store, locks, world, imports,
     history, session, bounds
<1> USE DEF InHand, Request, AtOneJob
<1>2. CASE UNCHANGED <<pc, job, mem, answer, jobs, cache, bought>>
  BY <1>2
<1>3. CASE pc' \notin AtOneJob \ {"accept"}
  BY <1>3
<1>4. CASE MovePair
  <2>1. job <= Jobs => job \in AllJobs
    BY NextJob
  <2>2. job <= Jobs /\ jobs[job].receipt # 0 => jobs[job].artifact \in {0, jobs[job].receipt}
    BY <2>1, PairIntact
  <2> QED BY <1>4, <2>2 DEF MovePair, history
<1>5. CASE UncacheArtifact
  BY <1>5, Writes DEF UncacheArtifact, Goto, session, history, PairMove
<1>6. CASE UncacheReceipt
  BY <1>6, Writes DEF UncacheReceipt, Goto, session, history, PairMove
<1>7. CASE MoveArtifact
  BY <1>7, Writes DEF MoveArtifact, Goto, session, history, PairMove
<1>8. CASE DiscardReceipt
  BY <1>8, Writes DEF DiscardReceipt, AtJob, session, history, PairMove
<1>9. CASE ChargeCached
  <2>1. mem \in Records
    BY <1>9, MemHeld DEF ChargeCached, AtJob, Holding
  <2>2. CASE pc' = "charged"
    <3>1. Request(job)' = Request(job)
      BY <1>9, <2>1, <2>2, CallsUpdated DEF ChargeCached, End, Goto, Request, Same
    <3> QED BY <1>9, <2>2, <3>1 DEF ChargeCached, End, Goto, AtJob, store, history, Cached, Fits
  <2> QED BY <1>9, <2>2 DEF ChargeCached, End, Goto
<1>10. CASE SaveCharge
  BY <1>10 DEF SaveCharge, Goto, Checkpoint, store, history
<1>11. CASE AdoptArtifact
  BY <1>11, Writes DEF AdoptArtifact, Goto, session, history, PairMove
<1>12. CASE ReserveCall
  BY <1>12 DEF ReserveCall, AtJob, store, history
<1>13. CASE StartCall
  BY <1>13 DEF StartCall, Goto, Checkpoint, store
<1>14. CASE Answer
  BY <1>14 DEF Answer, Goto, store
<1>15. CASE WriteArtifact
  BY <1>15, Writes DEF WriteArtifact, Goto, session, history, PairMove
<1> QED BY <1>1, <1>2, <1>3, <1>4, <1>5, <1>6, <1>7, <1>8, <1>9, <1>10, <1>11, <1>12, <1>13,
       <1>14, <1>15

\* A write keeps all pairs intact if it keeps those of the job in hand.
LEMMA IntactMove ==
    ASSUME PairsIntact, NEW a, NEW b, NEW c, NEW d, PairMove(a, b, c, d),
           b # 0 => a \in {0, b}, d # 0 => c \in {0, d}
    PROVE  PairsIntact'
<1>1. ASSUME NEW j \in AllJobs
      PROVE  /\ jobs'[j].receipt # 0 => jobs'[j].artifact \in {0, jobs'[j].receipt}
             /\ cache'[j].receipt # 0 => cache'[j].artifact \in {0, cache'[j].receipt}
  BY PairIntact DEF PairMove
<1> QED BY <1>1 DEF PairsIntact

\* A write keeps all receipts named if it keeps those of the job in hand.
LEMMA NamedMove ==
    ASSUME Named, UNCHANGED bought, NEW a, NEW b, NEW c, NEW d, PairMove(a, b, c, d),
           \A r \in {b, d} : r # 0 => r <= Len(bought) /\ bought[r].job = job
    PROVE  Named'
<1>1. ASSUME NEW j \in AllJobs, NEW r \in {jobs'[j].receipt, cache'[j].receipt}, r # 0
      PROVE  r <= Len(bought) /\ bought[r].job = j
  BY <1>1 DEF PairMove, Named
<1> QED BY <1>1 DEF Named

\* No write brings a receipt together with an artifact it did not accept.
LEMMA PairsIntactHolds ==
    ASSUME PairsOK, JobsOK, Stages, InHand, OnePlace, PairsIntact, Next
    PROVE  PairsIntact'
<1>1. \/ UNCHANGED <<jobs, cache>>
      \/ ClearWork \/ MovePair \/ UncacheArtifact \/ UncacheReceipt \/ MoveArtifact \/ MoveReceipt
      \/ RemoveWork \/ DiscardReceipt \/ DiscardArtifact \/ AdoptArtifact \/ AdoptReceipt
      \/ WriteArtifact \/ WriteReceipt \/ EmptyDirectory
  BY DEF Next, AtRest, vars, Prepare, Work, Finish, World, StartResume, Goto, StartFresh,
         UnlinkState, RemoveFiles, MakeWork, TakeLock, FirstCheckpoint, Checkpoint, StopAtJob,
         End, ReuseReceipt, Take, AtJob, ChargeCached, SaveCharge, ReserveCall, StartCall, Answer,
         FailCall, LoseCost, AcceptJob, Stage, PublishFile, PublishFails, Complete, Published,
         CompletionRefused, Wrap, SaveEnd, RemoveStop, ReleaseLock, DropSession, Heartbeat, Crash,
         Event, LockGoesStale, AskStop, WriteStop, EditFile, Change, ImportBegins, InstallFile,
         InstallReceipt, ImportEndsEarly, store, locks, world, imports, history, session, bounds
<1>2. CASE UNCHANGED <<jobs, cache>>
  BY <1>2 DEF PairsIntact
<1>3. CASE ClearWork
  BY <1>3, NoPairs DEF ClearWork, PairsIntact
<1>4. CASE MovePair
  BY <1>4, NoPairs DEF MovePair, PairsIntact
<1>5. CASE UncacheArtifact
  <2>1. job \in AllJobs
    BY <1>5, Writes DEF PairMove
  <2> QED BY <1>5, <2>1, Writes, IntactMove, PairIntact DEF UncacheArtifact, Goto, InHand
<1>6. CASE UncacheReceipt
  <2>1. job \in AllJobs
    BY <1>6, Writes DEF PairMove
  <2> QED BY <1>6, <2>1, Writes, IntactMove, PairIntact DEF UncacheReceipt, Goto, InHand
<1>7. CASE MoveArtifact
  <2>1. job \in AllJobs
    BY <1>7, Writes DEF PairMove
  <2> QED BY <1>7, <2>1, Writes, IntactMove, PairIntact DEF MoveArtifact, Goto, InHand, OnePlace
<1>8. CASE MoveReceipt
  <2>1. job \in AllJobs
    BY <1>8, Writes DEF PairMove
  <2> QED BY <1>8, <2>1, Writes, IntactMove, PairIntact DEF MoveReceipt, Goto, InHand
<1>9. CASE RemoveWork
  BY <1>9, NoPairs DEF RemoveWork, Goto, PairsIntact
<1>10. CASE DiscardReceipt
  <2>1. job \in AllJobs
    BY <1>10, Writes DEF PairMove
  <2> QED BY <1>10, <2>1, Writes, IntactMove, PairIntact DEF DiscardReceipt, AtJob, InHand
<1>11. CASE DiscardArtifact
  <2>1. job \in AllJobs
    BY <1>11, Writes DEF PairMove
  <2> QED BY <1>11, <2>1, Writes, IntactMove, PairIntact DEF DiscardArtifact, Goto, InHand
<1>12. CASE AdoptArtifact
  <2>1. job \in AllJobs
    BY <1>12, Writes DEF PairMove
  <2> QED BY <1>12, <2>1, Writes, IntactMove, PairIntact DEF AdoptArtifact, Goto, InHand
<1>13. CASE AdoptReceipt
  <2>1. job \in AllJobs
    BY <1>13, Writes DEF PairMove
  <2> QED BY <1>13, <2>1, Writes, IntactMove, PairIntact DEF AdoptReceipt, Goto, Take, InHand
<1>14. CASE WriteArtifact
  <2>1. job \in AllJobs
    BY <1>14, Writes DEF PairMove
  <2> QED BY <1>14, <2>1, Writes, IntactMove, PairIntact DEF WriteArtifact, Goto, InHand
<1>15. CASE WriteReceipt
  <2>1. job \in AllJobs
    BY <1>15, Writes DEF PairMove
  <2> QED BY <1>15, <2>1, Writes, IntactMove, PairIntact DEF WriteReceipt, Goto, InHand
<1>16. CASE EmptyDirectory
  BY <1>16, NoPairs DEF EmptyDirectory, PairsIntact
<1> QED BY <1>1, <1>2, <1>3, <1>4, <1>5, <1>6, <1>7, <1>8, <1>9, <1>10, <1>11, <1>12, <1>13,
       <1>14, <1>15, <1>16

\* No write leaves a receipt in two places.
LEMMA OnePlaceHolds ==
    ASSUME PairsOK, JobsOK, Stages, InHand, OnePlace, Next
    PROVE  OnePlace'
<1>1. \/ UNCHANGED <<jobs, cache>>
      \/ ClearWork \/ MovePair \/ UncacheArtifact \/ UncacheReceipt \/ MoveArtifact \/ MoveReceipt
      \/ RemoveWork \/ DiscardReceipt \/ DiscardArtifact \/ AdoptArtifact \/ AdoptReceipt
      \/ WriteArtifact \/ WriteReceipt \/ EmptyDirectory
  BY DEF Next, AtRest, vars, Prepare, Work, Finish, World, StartResume, Goto, StartFresh,
         UnlinkState, RemoveFiles, MakeWork, TakeLock, FirstCheckpoint, Checkpoint, StopAtJob,
         End, ReuseReceipt, Take, AtJob, ChargeCached, SaveCharge, ReserveCall, StartCall, Answer,
         FailCall, LoseCost, AcceptJob, Stage, PublishFile, PublishFails, Complete, Published,
         CompletionRefused, Wrap, SaveEnd, RemoveStop, ReleaseLock, DropSession, Heartbeat, Crash,
         Event, LockGoesStale, AskStop, WriteStop, EditFile, Change, ImportBegins, InstallFile,
         InstallReceipt, ImportEndsEarly, store, locks, world, imports, history, session, bounds
<1> USE DEF OnePlace
<1>2. CASE UNCHANGED <<jobs, cache>>
  BY <1>2
<1>3. CASE ClearWork
  BY <1>3, NoPairs DEF ClearWork
<1>4. CASE MovePair
  BY <1>4, NoPairs DEF MovePair
<1>5. CASE UncacheArtifact
  BY <1>5, Writes DEF UncacheArtifact, Goto, PairMove, InHand
<1>6. CASE UncacheReceipt
  BY <1>6, Writes DEF UncacheReceipt, Goto, PairMove, InHand
<1>7. CASE MoveArtifact
  BY <1>7, Writes DEF MoveArtifact, Goto, PairMove, InHand
<1>8. CASE MoveReceipt
  BY <1>8, Writes DEF MoveReceipt, Goto, PairMove, InHand
<1>9. CASE RemoveWork
  BY <1>9, NoPairs DEF RemoveWork, Goto
<1>10. CASE DiscardReceipt
  BY <1>10, Writes DEF DiscardReceipt, AtJob, PairMove, InHand
<1>11. CASE DiscardArtifact
  BY <1>11, Writes DEF DiscardArtifact, Goto, PairMove, InHand
<1>12. CASE AdoptArtifact
  BY <1>12, Writes DEF AdoptArtifact, Goto, PairMove, InHand
<1>13. CASE AdoptReceipt
  BY <1>13, Writes DEF AdoptReceipt, Goto, Take, PairMove, InHand
<1>14. CASE WriteArtifact
  BY <1>14, Writes DEF WriteArtifact, Goto, PairMove, InHand
<1>15. CASE WriteReceipt
  BY <1>15, Writes DEF WriteReceipt, Goto, PairMove, InHand
<1>16. CASE EmptyDirectory
  BY <1>16, NoPairs DEF EmptyDirectory
<1> QED BY <1>1, <1>2, <1>3, <1>4, <1>5, <1>6, <1>7, <1>8, <1>9, <1>10, <1>11, <1>12, <1>13,
       <1>14, <1>15, <1>16

\* Requests are only appended.
LEMMA BoughtGrows ==
    ASSUME RecordsOK, JobsOK, HistoryOK, Stages, Next
    PROVE  /\ Len(bought) \in Nat /\ Len(bought') \in Nat /\ Len(bought) <= Len(bought')
           /\ \A i \in 1..Len(bought) : bought'[i] = bought[i]
<1>1. CASE UNCHANGED bought
  BY <1>1 DEF HistoryOK
<1>2. CASE Answer
  <2>1. job \in AllJobs
    BY <1>2, JobInHand DEF Answer, Goto, AtOneJob
  <2>2. Request(job) \in Requests
    BY <1>2, <2>1, RequestTyped DEF Answer, Goto, Holding
  <2>3. bought' = Append(bought, Request(job))
    BY <1>2 DEF Answer
  <2> QED BY <2>2, <2>3 DEF HistoryOK
<1>3. UNCHANGED bought \/ Answer
  BY DEF Next, AtRest, vars, Prepare, Work, Finish, World, StartResume, Goto, StartFresh,
         ClearWork, MovePair, UncacheArtifact, UncacheReceipt, MoveArtifact, MoveReceipt,
         UnlinkState, RemoveWork, RemoveFiles, MakeWork, TakeLock, FirstCheckpoint, Checkpoint,
         StopAtJob, End, ReuseReceipt, Take, AtJob, DiscardReceipt, DiscardArtifact, ChargeCached,
         SaveCharge, AdoptArtifact, AdoptReceipt, ReserveCall, StartCall, FailCall, LoseCost,
         WriteArtifact, WriteReceipt, AcceptJob, Stage, PublishFile, PublishFails, Complete,
         Published, CompletionRefused, Wrap, SaveEnd, RemoveStop, ReleaseLock, DropSession,
         Heartbeat, Crash, Event, LockGoesStale, AskStop, WriteStop, EditFile, Change,
         EmptyDirectory, ImportBegins, InstallFile, InstallReceipt, ImportEndsEarly, store, locks,
         world, imports, history, session, bounds
<1> QED BY <1>1, <1>2, <1>3

\* What Named says of one job.
LEMMA NamedAt ==
    ASSUME Named, NEW j \in AllJobs, NEW r \in {jobs[j].receipt, cache[j].receipt}, r # 0
    PROVE  r <= Len(bought) /\ bought[r].job = j
BY DEF Named

\* Every receipt names an answer to a request of its job.
LEMMA NamedHolds ==
    ASSUME PairsOK, JobsOK, RecordsOK, HistoryOK, Stages, Answering, Named, Next
    PROVE  Named'
<1>1. \/ UNCHANGED <<jobs, cache>>
      \/ ClearWork \/ MovePair \/ UncacheArtifact \/ UncacheReceipt \/ MoveArtifact \/ MoveReceipt
      \/ RemoveWork \/ DiscardReceipt \/ DiscardArtifact \/ AdoptArtifact \/ AdoptReceipt
      \/ WriteArtifact \/ WriteReceipt \/ EmptyDirectory
  BY DEF Next, AtRest, vars, Prepare, Work, Finish, World, StartResume, Goto, StartFresh,
         UnlinkState, RemoveFiles, MakeWork, TakeLock, FirstCheckpoint, Checkpoint, StopAtJob,
         End, ReuseReceipt, Take, AtJob, ChargeCached, SaveCharge, ReserveCall, StartCall, Answer,
         FailCall, LoseCost, AcceptJob, Stage, PublishFile, PublishFails, Complete, Published,
         CompletionRefused, Wrap, SaveEnd, RemoveStop, ReleaseLock, DropSession, Heartbeat, Crash,
         Event, LockGoesStale, AskStop, WriteStop, EditFile, Change, ImportBegins, InstallFile,
         InstallReceipt, ImportEndsEarly, store, locks, world, imports, history, session, bounds
<1>2. CASE UNCHANGED <<jobs, cache>>
  <2>1. ASSUME NEW j \in AllJobs, NEW r \in {jobs[j].receipt, cache[j].receipt}, r # 0
        PROVE  r <= Len(bought') /\ bought'[r].job = j
    <3>1. r \in 1..Len(bought) /\ bought[r].job = j
      BY <2>1, NamedAt, PairTypes, BoughtGrows, RunBounds
    <3> QED BY <3>1, BoughtGrows
  <2> QED BY <1>2, <2>1 DEF Named
<1>3. CASE ClearWork
  BY <1>3, NoPairs DEF ClearWork, Named
<1>4. CASE MovePair
  BY <1>4, NoPairs DEF MovePair, history, Named
<1>5. CASE UncacheArtifact
  <2>1. job \in AllJobs
    BY <1>5, Writes DEF PairMove
  <2> QED BY <1>5, <2>1, Writes, NamedMove, NamedAt DEF UncacheArtifact, Goto, history, Answering,
             Request, Answered
<1>6. CASE UncacheReceipt
  <2>1. job \in AllJobs
    BY <1>6, Writes DEF PairMove
  <2> QED BY <1>6, <2>1, Writes, NamedMove, NamedAt DEF UncacheReceipt, Goto, history, Answering,
             Request, Answered
<1>7. CASE MoveArtifact
  <2>1. job \in AllJobs
    BY <1>7, Writes DEF PairMove
  <2> QED BY <1>7, <2>1, Writes, NamedMove, NamedAt DEF MoveArtifact, Goto, history, Answering,
             Request, Answered
<1>8. CASE MoveReceipt
  <2>1. job \in AllJobs
    BY <1>8, Writes DEF PairMove
  <2> QED BY <1>8, <2>1, Writes, NamedMove, NamedAt DEF MoveReceipt, Goto, history, Answering,
             Request, Answered
<1>9. CASE RemoveWork
  BY <1>9, NoPairs DEF RemoveWork, Goto, Named
<1>10. CASE DiscardReceipt
  <2>1. job \in AllJobs
    BY <1>10, Writes DEF PairMove
  <2> QED BY <1>10, <2>1, Writes, NamedMove, NamedAt DEF DiscardReceipt, AtJob, history,
             Answering, Request, Answered
<1>11. CASE DiscardArtifact
  <2>1. job \in AllJobs
    BY <1>11, Writes DEF PairMove
  <2> QED BY <1>11, <2>1, Writes, NamedMove, NamedAt DEF DiscardArtifact, Goto, history,
             Answering, Request, Answered
<1>12. CASE AdoptArtifact
  <2>1. job \in AllJobs
    BY <1>12, Writes DEF PairMove
  <2> QED BY <1>12, <2>1, Writes, NamedMove, NamedAt DEF AdoptArtifact, Goto, history, Answering,
             Request, Answered
<1>13. CASE AdoptReceipt
  <2>1. job \in AllJobs
    BY <1>13, Writes DEF PairMove
  <2> QED BY <1>13, <2>1, Writes, NamedMove, NamedAt DEF AdoptReceipt, Goto, Take, Answering,
             Request, Answered
<1>14. CASE WriteArtifact
  <2>1. job \in AllJobs
    BY <1>14, Writes DEF PairMove
  <2> QED BY <1>14, <2>1, Writes, NamedMove, NamedAt DEF WriteArtifact, Goto, history, Answering,
             Request, Answered
<1>15. CASE WriteReceipt
  <2>1. job \in AllJobs
    BY <1>15, Writes DEF PairMove
  <2> QED BY <1>15, <2>1, Writes, NamedMove, NamedAt DEF WriteReceipt, Goto, Answering, Request,
             Answered
<1>16. CASE EmptyDirectory
  BY <1>16, NoPairs DEF EmptyDirectory, Named
<1> QED BY <1>1, <1>2, <1>3, <1>4, <1>5, <1>6, <1>7, <1>8, <1>9, <1>10, <1>11, <1>12, <1>13,
       <1>14, <1>15, <1>16

\* The answer in hand is one to the request of the job in hand.
LEMMA AnsweringHolds ==
    ASSUME JobsOK, RecordsOK, HistoryOK, Stages, Answering, Next
    PROVE  Answering'
<1>1. \/ UNCHANGED <<pc, job, answer, mem, bought>>
      \/ pc' \notin Answered
      \/ Answer \/ WriteArtifact \/ WriteReceipt
  BY DEF Answered, Next, AtRest, vars, Prepare, Work, Finish, World, StartResume, Goto,
     StartFresh, ClearWork, MovePair, UncacheArtifact, UncacheReceipt, MoveArtifact, MoveReceipt,
     UnlinkState, RemoveWork, RemoveFiles, MakeWork, TakeLock, FirstCheckpoint, Checkpoint,
     StopAtJob, End, ReuseReceipt, Take, AtJob, DiscardReceipt, DiscardArtifact, ChargeCached,
     SaveCharge, AdoptArtifact, AdoptReceipt, ReserveCall, StartCall, FailCall, LoseCost,
     AcceptJob, Stage, PublishFile, PublishFails, Complete, Published, CompletionRefused, Wrap,
     SaveEnd, RemoveStop, ReleaseLock, DropSession, Heartbeat, Crash, Event, LockGoesStale,
     AskStop, WriteStop, EditFile, Change, EmptyDirectory, ImportBegins, InstallFile,
     InstallReceipt, ImportEndsEarly, store, locks, world, imports, history, session, bounds
<1> USE DEF Answering, Answered, Request
<1>2. CASE UNCHANGED <<pc, job, answer, mem, bought>>
  BY <1>2
<1>3. CASE pc' \notin Answered
  BY <1>3
<1>4. CASE Answer
  <2>1. job \in AllJobs
    BY <1>4, JobInHand DEF Answer, Goto, AtOneJob
  <2>2. Request(job) \in Requests
    BY <1>4, <2>1, RequestTyped DEF Answer, Goto, Holding
  <2> QED BY <1>4, <2>2 DEF Answer, Goto, HistoryOK
<1>5. CASE WriteArtifact
  BY <1>5 DEF WriteArtifact, Goto, session, history
<1>6. CASE WriteReceipt
  BY <1>6 DEF WriteReceipt, Goto, session
<1> QED BY <1>1, <1>2, <1>3, <1>4, <1>5, <1>6

\* A start from an empty directory finds neither work nor a state.
LEMMA EmptyFound ==
    ASSUME AcceptsEmpty, FlagsOK
    PROVE  ~work /\ state = None
BY DEF AcceptsEmpty, Leftovers, Own, FlagsOK

\* A session that holds the directory has its work directory.
LEMMA WorkHeld ==
    ASSUME FlagsOK, Stages, Emptied, Next
    PROVE  (pc \in Holding \cup {"lock", "release", "unlock"} => work)'
BY DEF Emptied, Holding, AcceptsResume, Next, AtRest, vars, Prepare, Work, Finish, World,
       StartResume, Goto, StartFresh, ClearWork, MovePair, UncacheArtifact, UncacheReceipt,
       MoveArtifact, MoveReceipt, UnlinkState, RemoveWork, RemoveFiles, MakeWork, TakeLock,
       FirstCheckpoint, Checkpoint, StopAtJob, End, ReuseReceipt, Take, AtJob, DiscardReceipt,
       DiscardArtifact, ChargeCached, SaveCharge, AdoptArtifact, AdoptReceipt, ReserveCall,
       StartCall, Answer, FailCall, LoseCost, WriteArtifact, WriteReceipt, AcceptJob, Stage,
       PublishFile, PublishFails, Complete, Published, CompletionRefused, Wrap, SaveEnd,
       RemoveStop, ReleaseLock, DropSession, Heartbeat, Crash, Event, LockGoesStale, AskStop,
       WriteStop, EditFile, Change, EmptyDirectory, ImportBegins, InstallFile, InstallReceipt,
       ImportEndsEarly, store, locks, world, imports, history, session, bounds

\* Jobs lie only in a work directory.
LEMMA NoWorkNoJobs ==
    ASSUME PairsOK, JobsOK, Stages, InHand, Emptied, Next
    PROVE  (~work => jobs = Nothing /\ cache = Nothing)'
<1>1. \/ UNCHANGED <<work, jobs, cache>>
      \/ pc \in Holding /\ UNCHANGED work
      \/ ClearWork \/ MovePair \/ UncacheArtifact \/ UncacheReceipt \/ MoveArtifact \/ MoveReceipt
      \/ RemoveWork \/ MakeWork \/ EmptyDirectory
  BY DEF Holding, Next, AtRest, vars, Prepare, Work, Finish, World, StartResume, Goto, StartFresh,
         UnlinkState, RemoveFiles, TakeLock, FirstCheckpoint, Checkpoint, StopAtJob, End,
         ReuseReceipt, Take, AtJob, DiscardReceipt, DiscardArtifact, ChargeCached, SaveCharge,
         AdoptArtifact, AdoptReceipt, ReserveCall, StartCall, Answer, FailCall, LoseCost,
         WriteArtifact, WriteReceipt, AcceptJob, Stage, PublishFile, PublishFails, Complete,
         Published, CompletionRefused, Wrap, SaveEnd, RemoveStop, ReleaseLock, DropSession,
         Heartbeat, Crash, Event, LockGoesStale, AskStop, WriteStop, EditFile, Change,
         ImportBegins, InstallFile, InstallReceipt, ImportEndsEarly, store, locks, world, imports,
         history, session, bounds
<1> USE DEF Emptied
<1>2. CASE UNCHANGED <<work, jobs, cache>>
  BY <1>2
<1>3. CASE pc \in Holding /\ UNCHANGED work
  BY <1>3
<1>4. CASE ClearWork
  BY <1>4 DEF ClearWork
<1>5. CASE MovePair
  BY <1>5 DEF MovePair
<1>6. CASE UncacheArtifact
  <2>1. job \in AllJobs
    BY <1>6, JobInHand DEF UncacheArtifact, Goto, AtOneJob
  <2> QED BY <1>6, <2>1, NoPairs DEF UncacheArtifact, Goto, InHand
<1>7. CASE UncacheReceipt
  <2>1. job \in AllJobs
    BY <1>7, JobInHand DEF UncacheReceipt, Goto, AtOneJob
  <2> QED BY <1>7, <2>1, NoPairs DEF UncacheReceipt, Goto, InHand
<1>8. CASE MoveArtifact
  <2>1. job \in AllJobs
    BY <1>8, JobInHand DEF MoveArtifact, Goto, AtOneJob
  <2> QED BY <1>8, <2>1, NoPairs DEF MoveArtifact, Goto, InHand
<1>9. CASE MoveReceipt
  <2>1. job \in AllJobs
    BY <1>9, JobInHand DEF MoveReceipt, Goto, AtOneJob
  <2> QED BY <1>9, <2>1, NoPairs DEF MoveReceipt, Goto, InHand
<1>10. CASE RemoveWork
  BY <1>10 DEF RemoveWork, Goto
<1>11. CASE MakeWork
  BY <1>11 DEF MakeWork, Goto
<1>12. CASE EmptyDirectory
  BY <1>12 DEF EmptyDirectory
<1> QED BY <1>1, <1>2, <1>3, <1>4, <1>5, <1>6, <1>7, <1>8, <1>9, <1>10, <1>11, <1>12

\* A new run finds no jobs and no state.
LEMMA PreparedEmpty ==
    ASSUME FlagsOK, Emptied, Next
    PROVE  (/\ pc \in {"unlinkState", "removeFiles", "mkdir"} => jobs = Nothing
            /\ pc = "mkdir" => state = None)'
<1>1. \/ UNCHANGED <<jobs, pc, state>>
      \/ pc' \notin {"unlinkState", "removeFiles", "mkdir"}
      \/ StartFresh \/ ClearWork \/ MovePair \/ UnlinkState \/ RemoveWork \/ RemoveFiles
  BY DEF Holding, Next, AtRest, vars, Prepare, Work, Finish, World, StartResume, Goto,
     UncacheArtifact, UncacheReceipt, MoveArtifact, MoveReceipt, MakeWork, TakeLock,
     FirstCheckpoint, Checkpoint, StopAtJob, End, ReuseReceipt, Take, AtJob, DiscardReceipt,
     DiscardArtifact, ChargeCached, SaveCharge, AdoptArtifact, AdoptReceipt, ReserveCall,
     StartCall, Answer, FailCall, LoseCost, WriteArtifact, WriteReceipt, AcceptJob, Stage,
     PublishFile, PublishFails, Complete, Published, CompletionRefused, Wrap, SaveEnd, RemoveStop,
     ReleaseLock, DropSession, Heartbeat, Crash, Event, LockGoesStale, AskStop, WriteStop,
     EditFile, Change, EmptyDirectory, ImportBegins, InstallFile, InstallReceipt, ImportEndsEarly,
     store, locks, world, imports, history, session, bounds
<1> USE DEF Emptied
<1>2. CASE UNCHANGED <<jobs, pc, state>>
  BY <1>2
<1>3. CASE pc' \notin {"unlinkState", "removeFiles", "mkdir"}
  BY <1>3
<1>4. CASE StartFresh
  BY <1>4, EmptyFound DEF StartFresh, store
<1>5. CASE ClearWork
  BY <1>5 DEF ClearWork
<1>6. CASE MovePair
  BY <1>6 DEF MovePair
<1>7. CASE UnlinkState
  BY <1>7 DEF UnlinkState, Goto, store
<1>8. CASE RemoveWork
  BY <1>8 DEF RemoveWork, Goto
<1>9. CASE RemoveFiles
  BY <1>9 DEF RemoveFiles
<1> QED BY <1>1, <1>2, <1>3, <1>4, <1>5, <1>6, <1>7, <1>8, <1>9

\* Jobs stay within the work directory, and a new run finds none.
LEMMA EmptiedHolds ==
    ASSUME FlagsOK, PairsOK, JobsOK, Stages, InHand, Emptied, Next
    PROVE  Emptied'
BY WorkHeld, NoWorkNoJobs, PreparedEmpty DEF Emptied

\* A job that was passed over or moved has no complete pair left.
LEMMA MovedHolds ==
    ASSUME PairsOK, JobsOK, Stages, InHand, Moved, Next
    PROVE  Moved'
<1>1. \/ UNCHANGED <<jobs, pc, job>>
      \/ pc' \notin {"move", "uncacheArtifact", "uncacheReceipt", "moveArtifact", "moveReceipt"}
      \/ ClearWork \/ MovePair \/ UncacheArtifact \/ UncacheReceipt \/ MoveArtifact \/ MoveReceipt
  BY DEF Next, AtRest, vars, Prepare, Work, Finish, World, StartResume, Goto, StartFresh,
         UnlinkState, RemoveWork, RemoveFiles, MakeWork, TakeLock, FirstCheckpoint, Checkpoint,
         StopAtJob, End, ReuseReceipt, Take, AtJob, DiscardReceipt, DiscardArtifact, ChargeCached,
         SaveCharge, AdoptArtifact, AdoptReceipt, ReserveCall, StartCall, Answer, FailCall,
         LoseCost, WriteArtifact, WriteReceipt, AcceptJob, Stage, PublishFile, PublishFails,
         Complete, Published, CompletionRefused, Wrap, SaveEnd, RemoveStop, ReleaseLock,
         DropSession, Heartbeat, Crash, Event, LockGoesStale, AskStop, WriteStop, EditFile,
         Change, EmptyDirectory, ImportBegins, InstallFile, InstallReceipt, ImportEndsEarly,
         store, locks, world, imports, history, session, bounds
<1> USE DEF Moved, Pair
<1>2. CASE UNCHANGED <<jobs, pc, job>>
  BY <1>2
<1>3. CASE pc' \notin {"move", "uncacheArtifact", "uncacheReceipt", "moveArtifact", "moveReceipt"}
  BY <1>3
<1>4. CASE ClearWork
  BY <1>4 DEF ClearWork, session, Stages, AllJobs
<1>5. CASE MovePair
  BY <1>5 DEF MovePair, JobsOK, AllJobs
<1>6. CASE UncacheArtifact
  BY <1>6, Writes DEF UncacheArtifact, Goto, session, PairMove, JobsOK, AllJobs
<1>7. CASE UncacheReceipt
  BY <1>7, Writes DEF UncacheReceipt, Goto, session, PairMove, JobsOK, AllJobs
<1>8. CASE MoveArtifact
  BY <1>8, Writes DEF MoveArtifact, Goto, session, PairMove, JobsOK, AllJobs
<1>9. CASE MoveReceipt
  BY <1>9, Writes DEF MoveReceipt, Goto, PairMove, JobsOK, AllJobs
<1> QED BY <1>1, <1>2, <1>3, <1>4, <1>5, <1>6, <1>7, <1>8, <1>9

\* A result goes on resting on what it rested on.
LEMMA RestsStill ==
    ASSUME RecordsOK, JobsOK, HistoryOK, Stages, Next, NEW r, NEW j \in AllJobs,
           NEW m, NEW n, Same(n, m), Rests(bought, r, j, m)
    PROVE  Rests(bought', r, j, n)
<1>1. CASE r = Gap /\ j \in Optional
  BY <1>1 DEF Rests
<1>2. CASE r \in 1..Len(bought) /\ bought'[r] = bought[r] /\ r \in 1..Len(bought')
  BY <1>2 DEF Rests, Same
<1> QED BY <1>1, <1>2, BoughtGrows DEF Rests

\* An accepted answer or the replacement of an optional job is what a result may be.
LEMMA AnswerRests ==
    ASSUME JobsOK, NEW r \in 1..Len(bought), NEW j \in AllJobs, bought[r] = Request(j)
    PROVE  Rests(bought, r, j, mem)
BY DEF Rests, Request

\* What a session takes for a job rests on an answer to its request.
LEMMA TakenRests ==
    ASSUME PairsOK, JobsOK, RecordsOK, HistoryOK, Stages, InHand, Named, Answering,
           ReuseReceipt \/ AdoptReceipt \/ FailCall \/ AcceptJob
    PROVE  \/ UNCHANGED <<job, results>>
           \/ /\ job \in AllJobs /\ job' = job + 1
              /\ \E r : Rests(bought, r, job, mem) /\ results' = [results EXCEPT ![job] = r]
<1>1. CASE ReuseReceipt
  <2>1. job \in AllJobs
    BY <1>1, NextJob DEF ReuseReceipt, AtJob
  <2>2. jobs[job].receipt \in 1..Len(bought)
    BY <1>1, <2>1, PairTypes, NamedAt, RunBounds DEF ReuseReceipt, HistoryOK
  <2>3. bought[jobs[job].receipt] = Request(job) =>
            Rests(bought, jobs[job].receipt, job, mem)
    BY <2>1, <2>2, AnswerRests
  <2> QED BY <1>1, <2>1, <2>3 DEF ReuseReceipt, Take
<1>2. CASE AdoptReceipt
  <2>1. job \in AllJobs
    BY <1>2, JobInHand DEF AdoptReceipt, Goto, AtOneJob
  <2>2. cache[job].receipt \in 1..Len(bought)
    BY <1>2, <2>1, PairTypes, NamedAt, RunBounds DEF AdoptReceipt, Goto, InHand, HistoryOK
  <2>3. Rests(bought, jobs[job].artifact, job, mem)
    BY <1>2, <2>1, <2>2, AnswerRests DEF AdoptReceipt, Goto, InHand
  <2> QED BY <1>2, <2>1, <2>3 DEF AdoptReceipt, Take
<1>3. CASE FailCall
  <2>1. job \in AllJobs
    BY <1>3, JobInHand DEF FailCall, AtOneJob
  <2>2. job \in Optional => Rests(bought, Gap, job, mem)
    BY DEF Rests
  <2> QED BY <1>3, <2>1, <2>2 DEF FailCall, Take
<1>4. CASE AcceptJob
  <2>1. job \in AllJobs
    BY <1>4, JobInHand DEF AcceptJob, Goto, AtOneJob
  <2>2. answer \in 1..Len(bought) /\ bought[answer] = Request(job)
    BY <1>4 DEF AcceptJob, Goto, Answering, Answered, Stages, JobsOK, HistoryOK
  <2> QED BY <1>4, <2>1, <2>2, AnswerRests DEF AcceptJob, Take
<1> QED BY <1>1, <1>2, <1>3, <1>4

\* The session's results go on resting on answers to its requests.
LEMMA ResultsRestHolds ==
    ASSUME PairsOK, RecordsOK, FilesOK, FlagsOK, JobsOK, RunsOK, HistoryOK, Stages, InHand, Named,
           Answering, ResultsRest, Next
    PROVE  ResultsRest'
<1>1. \/ pc' \notin Holding
      \/ pc = "lock" /\ pc' = "first"
      \/ pc \in Holding /\ UNCHANGED <<job, results>>
      \/ pc \in Holding /\ (ReuseReceipt \/ AdoptReceipt \/ FailCall \/ AcceptJob)
  BY DEF Holding, Next, AtRest, vars, Prepare, Work, Finish, World, StartResume, Goto, StartFresh,
         ClearWork, MovePair, UncacheArtifact, UncacheReceipt, MoveArtifact, MoveReceipt,
         UnlinkState, RemoveWork, RemoveFiles, MakeWork, TakeLock, FirstCheckpoint, Checkpoint,
         StopAtJob, End, ReuseReceipt, Take, AtJob, DiscardReceipt, DiscardArtifact, ChargeCached,
         SaveCharge, AdoptArtifact, AdoptReceipt, ReserveCall, StartCall, Answer, FailCall,
         LoseCost, WriteArtifact, WriteReceipt, AcceptJob, Stage, PublishFile, PublishFails,
         Complete, Published, CompletionRefused, Wrap, SaveEnd, RemoveStop, ReleaseLock,
         DropSession, Heartbeat, Crash, Event, LockGoesStale, AskStop, WriteStop, EditFile,
         Change, EmptyDirectory, ImportBegins, InstallFile, InstallReceipt, ImportEndsEarly,
         store, locks, world, imports, history, session, bounds
<1>2. CASE pc' \notin Holding
  BY <1>2 DEF ResultsRest
<1>3. CASE pc = "lock" /\ pc' = "first"
  BY <1>3, StagesHold DEF Stages, ResultsRest, AllJobs
<1>4. ASSUME pc \in Holding, pc' \in Holding
      PROVE  Same(mem', mem)
  BY <1>4, MemMoves, MemFields, RecordStages DEF Holding
<1>5. CASE pc \in Holding /\ pc' \in Holding /\ UNCHANGED <<job, results>>
  BY <1>4, <1>5, RestsStill DEF ResultsRest
<1>6. CASE /\ pc \in Holding /\ pc' \in Holding
           /\ ReuseReceipt \/ AdoptReceipt \/ FailCall \/ AcceptJob
  <2>1. CASE UNCHANGED <<job, results>>
    BY <1>5, <1>6, <2>1
  <2>2. CASE /\ job \in AllJobs /\ job' = job + 1
             /\ \E r : Rests(bought, r, job, mem) /\ results' = [results EXCEPT ![job] = r]
    <3>1. PICK r : Rests(bought, r, job, mem) /\ results' = [results EXCEPT ![job] = r]
      BY <2>2
    <3>2. ASSUME NEW j \in AllJobs, j < job'
          PROVE  Rests(bought, results'[j], j, mem)
      <4>1. j < job \/ j = job
        BY <2>2, <3>2 DEF AllJobs
      <4> QED BY <1>6, <2>2, <3>1, <4>1 DEF ResultsRest, JobsOK, Results
    <3> QED BY <1>4, <1>6, <3>2, RestsStill DEF ResultsRest
  <2> QED BY <1>6, <2>1, <2>2, TakenRests
<1> QED BY <1>1, <1>2, <1>3, <1>5, <1>6

\* What a record calls its own goes on resting on what it rested on.
LEMMA CurrentStill ==
    ASSUME RecordsOK, JobsOK, HistoryOK, Stages, Next, NEW m, NEW n, Same(n, m),
           n.deliverables = m.deliverables, Current(bought, m)
    PROVE  Current(bought', n)
<1>1. OwnFiles(n) = OwnFiles(m)
  BY DEF OwnFiles
<1>2. ASSUME NEW f \in OwnFiles(m), NEW j \in AllJobs
      PROVE  Rests(bought', m.deliverables[f][j], j, n)
  BY RestsStill DEF Current
<1> QED BY <1>1, <1>2 DEF Current

\* A record on disk is a current report if what it calls its own rests on answers to its
\* requests.
LEMMA ReportIs ==
    ReportCurrent <=> (state # None /\ state.deliverables # None => Current(bought, state))
BY DEF ReportCurrent, RestsOn, Current, Rests

\* So do the files the session has recorded.
LEMMA RecordRestsHolds ==
    ASSUME PairsOK, RecordsOK, FlagsOK, JobsOK, RunsOK, HistoryOK, Stages, ResultsRest,
           RecordRests, ReportCurrent, Next
    PROVE  RecordRests'
<1> SUFFICES ASSUME mem' # None, mem'.deliverables # None
             PROVE  Current(bought', mem')
  BY DEF RecordRests
<1>1. CASE mem # None /\ Same(mem', mem) /\ mem'.deliverables = mem.deliverables
  BY <1>1, CurrentStill DEF RecordRests
<1>2. CASE mem # None /\ Same(mem', mem) /\ pc = "publish" /\ pending = {} /\ mem'.deliverables = files
  <2>1. ASSUME NEW j \in AllJobs
        PROVE  Rests(bought', results[j], j, mem')
    <3>1. j < job
      BY <1>2, JobsAssumption DEF Stages, JobsOK, AllJobs
    <3> QED BY <1>2, <3>1, RestsStill DEF ResultsRest, Holding
  <2>2. results \in Results
    BY DEF JobsOK
  <2>3. \A f \in OwnFiles(mem') : mem'.deliverables[f] = results
    BY <1>2, AllMoved DEF OwnFiles
  <2> QED BY <2>1, <2>2, <2>3 DEF Current
<1>3. CASE AcceptsResume /\ Same(mem', state) /\ mem'.deliverables = state.deliverables
  <2>1. Current(bought, state)
    BY <1>3, ReportIs DEF AcceptsResume
  <2> QED BY <1>3, <2>1, CurrentStill
<1> QED BY <1>1, <1>2, <1>3, MemMoves, MemFields

\* And so does a report on disk.
LEMMA ReportCurrentHolds ==
    ASSUME PairsOK, RecordsOK, FlagsOK, JobsOK, RunsOK, HistoryOK, Stages, RecordRests',
           ReportCurrent, Next
    PROVE  ReportCurrent'
<1> SUFFICES ASSUME state' # None, state'.deliverables # None
             PROVE  Current(bought', state')
  BY DEF ReportCurrent, RestsOn, Current, Rests
<1>1. CASE UNCHANGED state
  <2>1. Same(state, state) /\ Current(bought, state)
    BY <1>1, ReportIs DEF Same
  <2> QED BY <1>1, <2>1, CurrentStill
<1>2. CASE state' = None
  BY <1>2
<1>3. CASE pc \in Holding /\ pc' # "idle" /\ state' = [mem' EXCEPT !.unavailable = inflight]
  <2>1. mem' \in Records /\ mem' # None
    BY <1>3, MemMoves, MemFields, MarkersAssumption
  <2>2. Same(state', mem') /\ state'.deliverables = mem'.deliverables
    BY <1>3, <2>1, AvailabilityUpdated DEF FlagsOK
  <2>3. Current(bought', mem')
    BY <1>3, <2>1, <2>2 DEF RecordRests
  <2>4. OwnFiles(state') = OwnFiles(mem')
    BY <2>2 DEF OwnFiles
  <2> QED BY <2>2, <2>3, <2>4 DEF Current, Rests, Same
<1> QED BY <1>1, <1>2, <1>3, StateMoves DEF StateMove

\* Sets of jobs are finite.
LEMMA JobSets ==
    ASSUME NEW S \in SUBSET AllJobs
    PROVE  /\ IsFiniteSet(S) /\ Cardinality(S) \in Nat
           /\ \A R \in SUBSET S : Cardinality(R) <= Cardinality(S)
<1>1. IsFiniteSet(AllJobs)
  BY JobsAssumption, FS_Interval DEF AllJobs
<1> QED BY <1>1, FS_Subset, FS_CardinalityType

\* One job more makes a set of jobs larger by at most one.
LEMMA OneJobMore ==
    ASSUME NEW S \in SUBSET AllJobs, NEW R \in SUBSET AllJobs, NEW j \in AllJobs,
           R \subseteq S \cup {j}
    PROVE  Cardinality(R) <= Cardinality(S) + 1
<1>1. Cardinality(S \cup {j}) <= Cardinality(S) + 1
  <2>1. CASE j \in S
    <3>1. S \cup {j} = S
      BY <2>1
    <3> QED BY <3>1, JobSets
  <2>2. CASE j \notin S
    BY <2>2, JobSets, FS_AddElement
  <2> QED BY <2>1, <2>2
<1>2. Cardinality(R) <= Cardinality(S \cup {j}) /\ Cardinality(S \cup {j}) \in Nat
  BY JobSets
<1> QED BY <1>1, <1>2, JobSets

\* Only adopting and writing a receipt can bring one more.
LEMMA ReceiptsMove ==
    ASSUME PairsOK, JobsOK, Stages, Next
    PROVE  \/ Receipts' \subseteq Receipts
           \/ /\ AdoptReceipt \/ WriteReceipt
              /\ job \in AllJobs /\ Receipts' \subseteq Receipts \cup {job}
<1>1. \/ UNCHANGED jobs
      \/ ClearWork \/ MovePair \/ MoveArtifact \/ MoveReceipt \/ RemoveWork \/ AdoptArtifact
      \/ AdoptReceipt \/ WriteArtifact \/ WriteReceipt \/ EmptyDirectory
  BY DEF Next, AtRest, vars, Prepare, Work, Finish, World, StartResume, Goto, StartFresh,
         UncacheArtifact, UncacheReceipt, UnlinkState, RemoveFiles, MakeWork, TakeLock,
         FirstCheckpoint, Checkpoint, StopAtJob, End, ReuseReceipt, Take, AtJob, DiscardReceipt,
         DiscardArtifact, ChargeCached, SaveCharge, ReserveCall, StartCall, Answer, FailCall,
         LoseCost, AcceptJob, Stage, PublishFile, PublishFails, Complete, Published,
         CompletionRefused, Wrap, SaveEnd, RemoveStop, ReleaseLock, DropSession, Heartbeat, Crash,
         Event, LockGoesStale, AskStop, WriteStop, EditFile, Change, ImportBegins, InstallFile,
         InstallReceipt, ImportEndsEarly, store, locks, world, imports, history, session, bounds
<1> USE DEF Receipts
<1>2. CASE UNCHANGED jobs
  BY <1>2
<1>3. CASE ClearWork
  BY <1>3, NoPairs DEF ClearWork
<1>4. CASE MovePair
  BY <1>4, NoPairs DEF MovePair
<1>5. CASE MoveArtifact
  BY <1>5, Writes DEF MoveArtifact, Goto, PairMove
<1>6. CASE MoveReceipt
  BY <1>6, Writes DEF MoveReceipt, Goto, PairMove
<1>7. CASE RemoveWork
  BY <1>7, NoPairs DEF RemoveWork, Goto
<1>8. CASE AdoptArtifact
  BY <1>8, Writes DEF AdoptArtifact, Goto, PairMove
<1>9. CASE AdoptReceipt
  BY <1>9, Writes DEF AdoptReceipt, Goto, Take, PairMove
<1>10. CASE WriteArtifact
  BY <1>10, Writes DEF WriteArtifact, Goto, PairMove
<1>11. CASE WriteReceipt
  BY <1>11, Writes DEF WriteReceipt, Goto, PairMove
<1>12. CASE EmptyDirectory
  BY <1>12, NoPairs DEF EmptyDirectory
<1> QED BY <1>1, <1>2, <1>3, <1>4, <1>5, <1>6, <1>7, <1>8, <1>9, <1>10, <1>11, <1>12

\* Where nothing is owed, charged or received, no calls cover it.
LEMMA ZeroCalls == 0 + 0 = 0 /\ \A n \in Nat : 0 + n + 0 = n /\ 0 <= n
OBVIOUS

\* A reservation or a charge adds a call.
LEMMA MoreCalls ==
    ASSUME RecordsOK, Stages, Next, pc = "run", pc' \in {"reserved", "charged"}
    PROVE  mem'.calls = mem.calls + 1
BY MemMoves, MemHeld, CallsUpdated DEF MemMove, Holding

\* How a step changes what the session owes and is to receive.
LEMMA CountsMove ==
    ASSUME HistoryOK, Next
    PROVE  /\ crashes' \in Nat /\ crashes <= crashes'
           /\ pc = "idle" /\ pc' = "lock" => UNCHANGED <<owed, jobs>>
           /\ pc = "mkdir" /\ pc' = "lock" => owed' = 0 /\ UNCHANGED jobs
           /\ \/ pc' = "idle" \/ (pc \in {"idle", "mkdir"} /\ pc' = "lock")
              \/ pc = "run" /\ pc' \in {"charged", "reserved"} /\ UNCHANGED <<owed, jobs>>
              \/ pc = "reserved" /\ pc' = "calling" /\ owed' = owed + 1 /\ UNCHANGED jobs
              \/ AdoptReceipt /\ owed' = owed + 1
              \/ WriteReceipt /\ UNCHANGED owed
              \/ /\ UNCHANGED owed /\ ~AdoptReceipt /\ ~WriteReceipt
                 /\ (pc' \in Charging \cup {"reserved"} <=> pc \in Charging \cup {"reserved"})
                 /\ (pc' \in Buying => pc \in Buying)
BY DEF Charging, Buying, HistoryOK, Next, AtRest, vars, Prepare, Work, Finish, World, StartResume,
       Goto, StartFresh, ClearWork, MovePair, UncacheArtifact, UncacheReceipt, MoveArtifact,
       MoveReceipt, UnlinkState, RemoveWork, RemoveFiles, MakeWork, TakeLock, FirstCheckpoint,
       Checkpoint, StopAtJob, End, ReuseReceipt, Take, AtJob, DiscardReceipt, DiscardArtifact,
       ChargeCached, SaveCharge, AdoptArtifact, AdoptReceipt, ReserveCall, StartCall, Answer,
       FailCall, LoseCost, WriteArtifact, WriteReceipt, AcceptJob, Stage, PublishFile,
       PublishFails, Complete, Published, CompletionRefused, Wrap, SaveEnd, RemoveStop,
       ReleaseLock, DropSession, Heartbeat, Crash, Event, LockGoesStale, AskStop, WriteStop,
       EditFile, Change, EmptyDirectory, ImportBegins, InstallFile, InstallReceipt,
       ImportEndsEarly, store, locks, world, imports, history, session, bounds

\* The session's accounting goes on covering what it owes and has received.
LEMMA ChargedHolds ==
    ASSUME RecordsOK, FilesOK, FlagsOK, PairsOK, JobsOK, RunsOK, HistoryOK, Stages, Emptied,
           AccountingCovers, Charged, Next
    PROVE  Charged'
<1> SUFFICES ASSUME mem' # None
             PROVE  /\ owed' + Ahead' <= mem'.calls
                    /\ mem'.calls <= owed' + crashes' + Ahead'
                    /\ Cardinality(Receipts') + Ahead' + Coming' <= mem'.calls
  BY DEF Charged
<1>1. owed \in Nat /\ crashes \in Nat /\ crashes' \in Nat /\ crashes <= crashes'
  BY CountsMove DEF HistoryOK
<1>2. Receipts \in SUBSET AllJobs /\ Receipts' \in SUBSET AllJobs
  BY DEF Receipts, AllJobs
<1>3. Cardinality(Receipts) \in Nat /\ Cardinality(Receipts') \in Nat
  BY <1>2, JobSets
<1>4. Receipts' \subseteq Receipts => Cardinality(Receipts') <= Cardinality(Receipts)
  BY <1>2, JobSets
<1>5. CASE /\ pc = "idle" /\ pc' = "lock" /\ AcceptsResume /\ mem'.calls = state.calls
  <2>1. UNCHANGED <<owed, jobs>> /\ Ahead' = 0 /\ Coming' = 0
    BY <1>5, CountsMove DEF Ahead, Coming, Charging, Buying
  <2>2. /\ Cardinality(Receipts) <= state.calls /\ owed <= state.calls
        /\ state.calls <= owed + crashes
    BY <1>1, <1>5 DEF AcceptsResume, AccountingCovers
  <2>3. state.calls \in Nat
    BY <1>5 DEF AcceptsResume, RecordsOK, Records
  <2>4. Receipts' = Receipts
    BY <2>1 DEF Receipts
  <2> QED BY <1>1, <1>3, <1>5, <2>1, <2>2, <2>3, <2>4
<1>6. CASE pc = "mkdir" /\ pc' = "lock" /\ mem'.calls = 0
  <2>1. owed' = 0 /\ Ahead' = 0 /\ Coming' = 0
    BY <1>6, CountsMove DEF Ahead, Coming, Charging, Buying
  <2>2. Receipts' = {}
    BY <1>6, CountsMove, NoPairs DEF Emptied, Receipts
  <2>3. Cardinality(Receipts') = 0
    BY <2>2, FS_EmptySet
  <2> QED BY <1>1, <1>6, <2>1, <2>3, ZeroCalls
<1>7. CASE /\ mem # None
           /\ \/ mem'.calls = mem.calls
              \/ pc = "run" /\ pc' \in {"reserved", "charged"} /\ mem'.calls = mem.calls + 1
  <2>1. mem.calls \in Nat
    BY <1>7 DEF RecordsOK, Records
  <2>2. /\ owed + Ahead <= mem.calls /\ mem.calls <= owed + crashes + Ahead
        /\ Cardinality(Receipts) + Ahead + Coming <= mem.calls
    BY <1>7 DEF Charged
  <2>3. CASE pc = "run" /\ pc' \in {"charged", "reserved"} /\ UNCHANGED <<owed, jobs>>
    <3>1. Ahead = 0 /\ Coming = 0 /\ Ahead' = 1 /\ Coming' = 0 /\ Receipts' = Receipts
      BY <2>3 DEF Ahead, Coming, Charging, Buying, Receipts
    <3>2. mem'.calls = mem.calls + 1
      BY <1>7, <2>3, MoreCalls
    <3> QED BY <1>1, <1>3, <2>1, <2>2, <2>3, <3>1, <3>2
  <2>4. CASE pc = "reserved" /\ pc' = "calling" /\ owed' = owed + 1 /\ UNCHANGED jobs
    <3>1. Ahead = 1 /\ Coming = 0 /\ Ahead' = 0 /\ Coming' = 1 /\ Receipts' = Receipts
      BY <2>4 DEF Ahead, Coming, Charging, Buying, Receipts
    <3> QED BY <1>1, <1>3, <1>7, <2>1, <2>2, <2>4, <3>1
  <2>5. CASE AdoptReceipt /\ owed' = owed + 1
    <3>1. Ahead = 1 /\ Coming = 0 /\ Ahead' = 0 /\ Coming' = 0
      BY <2>5 DEF Ahead, Coming, Charging, Buying, AdoptReceipt, Goto
    <3>2. Cardinality(Receipts') <= Cardinality(Receipts) + 1
      BY <1>2, <1>3, <1>4, ReceiptsMove, OneJobMore
    <3> QED BY <1>1, <1>3, <1>7, <2>1, <2>2, <2>5, <3>1, <3>2 DEF AdoptReceipt, Goto
  <2>6. CASE WriteReceipt /\ UNCHANGED owed
    <3>1. Ahead = 0 /\ Coming = 1 /\ Ahead' = 0 /\ Coming' = 0
      BY <2>6 DEF Ahead, Coming, Charging, Buying, WriteReceipt, Goto
    <3>2. Cardinality(Receipts') <= Cardinality(Receipts) + 1
      BY <1>2, <1>3, <1>4, ReceiptsMove, OneJobMore
    <3> QED BY <1>1, <1>3, <1>7, <2>1, <2>2, <2>6, <3>1, <3>2 DEF WriteReceipt, Goto
  <2>7. CASE /\ UNCHANGED owed /\ ~AdoptReceipt /\ ~WriteReceipt
             /\ (pc' \in Charging \cup {"reserved"} <=> pc \in Charging \cup {"reserved"})
             /\ (pc' \in Buying => pc \in Buying)
    <3>1. Ahead' = Ahead /\ Ahead \in {0, 1} /\ Coming \in {0, 1} /\ Coming' \in {0, Coming}
      BY <2>7 DEF Ahead, Coming
    <3>2. mem'.calls = mem.calls
      BY <1>7, <2>7 DEF Charging
    <3> QED BY <1>1, <1>3, <1>4, <2>1, <2>2, <2>7, <3>1, <3>2, ReceiptsMove
  <2>8. pc' # "idle" /\ pc \notin {"idle", "mkdir"}
    BY <1>7, StagesHold DEF Stages, NoSession, Preparing
  <2> QED BY <2>3, <2>4, <2>5, <2>6, <2>7, <2>8, CountsMove
<1> QED BY <1>5, <1>6, <1>7, MemMoves, MemFields

\* A call starts, and a cached job moves, only from a saved accounting; a call that
\* runs on does so under an accounting saved as unavailable.
LEMMA SavedMove ==
    ASSUME Stages, Next
    PROVE  /\ pc' \in Buying \cup {"adoptArtifact", "adoptReceipt"} =>
                  \/ /\ pc \in Buying \cup {"adoptArtifact", "adoptReceipt"}
                     /\ UNCHANGED <<state, mem>>
                  \/ /\ pc \in Holding /\ pc' # "idle"
                     /\ state' = [mem' EXCEPT !.unavailable = inflight]
           /\ inflight' /\ pc' # "reserved" =>
                  /\ inflight
                  /\ \/ pc # "reserved" /\ UNCHANGED state
                     \/ /\ pc \in Holding /\ pc' # "idle"
                        /\ state' = [mem' EXCEPT !.unavailable = inflight]
BY DEF Stages, Buying, Holding, Next, AtRest, vars, Prepare, Work, Finish, World, StartResume,
       Goto, StartFresh, ClearWork, MovePair, UncacheArtifact, UncacheReceipt, MoveArtifact,
       MoveReceipt, UnlinkState, RemoveWork, RemoveFiles, MakeWork, TakeLock, FirstCheckpoint,
       Checkpoint, StopAtJob, End, ReuseReceipt, Take, AtJob, DiscardReceipt, DiscardArtifact,
       ChargeCached, SaveCharge, AdoptArtifact, AdoptReceipt, ReserveCall, StartCall, Answer,
       FailCall, LoseCost, WriteArtifact, WriteReceipt, AcceptJob, Stage, PublishFile,
       PublishFails, Complete, Published, CompletionRefused, Wrap, SaveEnd, RemoveStop,
       ReleaseLock, DropSession, Heartbeat, Crash, Event, LockGoesStale, AskStop, WriteStop,
       EditFile, Change, EmptyDirectory, ImportBegins, InstallFile, InstallReceipt,
       ImportEndsEarly, store, locks, world, imports, history, session, bounds

\* What a session writes to disk is its record.
LEMMA RecordWritten ==
    ASSUME RecordsOK, FlagsOK, JobsOK, RunsOK, HistoryOK, Stages, Next,
           pc \in Holding, pc' # "idle", state' = [mem' EXCEPT !.unavailable = inflight]
    PROVE  /\ mem' \in Records /\ mem' # None /\ state' \in Records /\ state' # None
           /\ Same(state', mem') /\ state'.deliverables = mem'.deliverables
           /\ state'.status = mem'.status
           /\ state'.calls = mem'.calls /\ state'.unavailable = inflight
<1>1. mem' \in Records /\ mem' # None
  BY MemMoves, MemFields, MarkersAssumption
<1> QED BY <1>1, AvailabilityUpdated, MarkersAssumption DEF FlagsOK

\* Whoever buys or adopts an answer has saved the accounting that covers it.
LEMMA SavedHolds ==
    ASSUME RecordsOK, FlagsOK, JobsOK, RunsOK, HistoryOK, Stages, Saved, Next
    PROVE  Saved'
<1>1. CASE /\ pc \in Holding /\ pc' # "idle"
           /\ state' = [mem' EXCEPT !.unavailable = inflight]
  BY <1>1, RecordWritten, SavedMove DEF Saved
<1>2. CASE ~(/\ pc \in Holding /\ pc' # "idle"
             /\ state' = [mem' EXCEPT !.unavailable = inflight])
  <2>1. (pc \in Buying \cup {"adoptArtifact", "adoptReceipt"})' =>
            (state # None /\ state.calls = mem.calls)'
    BY <1>2, SavedMove DEF Saved
  <2>2. (inflight /\ pc # "reserved")' => (state # None /\ state.unavailable)'
    BY <1>2, SavedMove DEF Saved
  <2> QED BY <2>1, <2>2 DEF Saved, Buying
<1> QED BY <1>1, <1>2

\* What a step does to the saved accounting and to what it has to cover.
LEMMA AccountsMove ==
    ASSUME Emptied, Next
    PROVE  \/ /\ pc \in Holding /\ pc' # "idle" /\ (pc' = "reserved" => pc = "reserved")
              /\ state' = [mem' EXCEPT !.unavailable = inflight]
           \/ state' = None
           \/ UNCHANGED <<state, mem>> /\ (AdoptReceipt \/ WriteReceipt)
           \/ UNCHANGED <<state, owed, jobs>> /\ pc' = "idle" /\ crashes' = crashes + 1
           \/ /\ UNCHANGED <<state, owed>> /\ ~AdoptReceipt /\ ~WriteReceipt
              /\ (pc \in Charging => pc' \in Charging)
BY DEF Emptied, Charging, Holding, Next, AtRest, vars, Prepare, Work, Finish, World, StartResume,
       Goto, StartFresh, ClearWork, MovePair, UncacheArtifact, UncacheReceipt, MoveArtifact,
       MoveReceipt, UnlinkState, RemoveWork, RemoveFiles, MakeWork, TakeLock, FirstCheckpoint,
       Checkpoint, StopAtJob, End, ReuseReceipt, Take, AtJob, DiscardReceipt, DiscardArtifact,
       ChargeCached, SaveCharge, AdoptArtifact, AdoptReceipt, ReserveCall, StartCall, Answer,
       FailCall, LoseCost, WriteArtifact, WriteReceipt, AcceptJob, Stage, PublishFile,
       PublishFails, Complete, Published, CompletionRefused, Wrap, SaveEnd, RemoveStop,
       ReleaseLock, DropSession, Heartbeat, Crash, Event, LockGoesStale, AskStop, WriteStop,
       EditFile, Change, EmptyDirectory, ImportBegins, InstallFile, InstallReceipt,
       ImportEndsEarly, store, locks, world, imports, history, session, bounds

\* What a resume may trust goes on covering what it has to.
LEMMA AccountingCoversHolds ==
    ASSUME RecordsOK, FlagsOK, PairsOK, JobsOK, RunsOK, HistoryOK, Stages, Emptied,
           Charged, Saved, AccountingCovers, Charged', Next
    PROVE  AccountingCovers'
<1> SUFFICES ASSUME state' # None, ~state'.unavailable
             PROVE  /\ Cardinality(Receipts') <= state'.calls
                    /\ owed' <= state'.calls
                    /\ state'.calls <= owed' + crashes' + (IF pc' \in Charging THEN 1 ELSE 0)
  BY DEF AccountingCovers, Charging
<1>1. /\ owed \in Nat /\ owed' \in Nat /\ crashes \in Nat /\ crashes' \in Nat
      /\ crashes <= crashes'
  BY CountsMove, HistoryTyped DEF HistoryOK
<1>2. Receipts \in SUBSET AllJobs /\ Receipts' \in SUBSET AllJobs
  BY DEF Receipts, AllJobs
<1>3. Cardinality(Receipts) \in Nat /\ Cardinality(Receipts') \in Nat
  BY <1>2, JobSets
<1>4. Receipts' \subseteq Receipts => Cardinality(Receipts') <= Cardinality(Receipts)
  BY <1>2, JobSets
<1>5. ASSUME mem' # None, mem' \in Records
      PROVE  /\ mem'.calls \in Nat
             /\ owed' + Ahead' <= mem'.calls /\ mem'.calls <= owed' + crashes' + Ahead'
             /\ Cardinality(Receipts') + Ahead' + Coming' <= mem'.calls
             /\ Ahead' \in {0, 1} /\ Coming' \in {0, 1}
             /\ pc' # "reserved" => Ahead' = IF pc' \in Charging THEN 1 ELSE 0
  BY <1>5 DEF Charged, Records, Ahead, Coming
<1>6. CASE /\ pc \in Holding /\ pc' # "idle" /\ (pc' = "reserved" => pc = "reserved")
           /\ state' = [mem' EXCEPT !.unavailable = inflight]
  <2>1. /\ mem' \in Records /\ mem' # None
        /\ state'.calls = mem'.calls /\ state'.unavailable = inflight
    BY <1>6, RecordWritten
  <2>2. pc' # "reserved"
    BY <1>6, <2>1 DEF Stages
  <2> QED BY <1>1, <1>3, <1>5, <2>1, <2>2
<1>7. CASE UNCHANGED <<state, mem>> /\ (AdoptReceipt \/ WriteReceipt)
  <2>1. state'.calls = mem'.calls /\ pc' \notin Charging \cup {"reserved"}
    BY <1>7 DEF Saved, Buying, Charging, AdoptReceipt, WriteReceipt, Goto
  <2>2. mem' \in Records /\ mem' # None
    BY <1>7, MemHeld DEF Holding, AdoptReceipt, WriteReceipt, Goto
  <2> QED BY <1>1, <1>3, <1>5, <2>1, <2>2
<1>8. CASE state # None /\ UNCHANGED <<state, owed, jobs>> /\ crashes' = crashes + 1
  <2>1. state.calls \in Nat /\ Receipts' = Receipts
    BY <1>8 DEF RecordsOK, Records, Receipts
  <2> QED BY <1>1, <1>3, <1>8, <2>1 DEF AccountingCovers, Charging
<1>9. CASE /\ state # None /\ UNCHANGED <<state, owed>> /\ ~AdoptReceipt /\ ~WriteReceipt
           /\ (pc \in Charging => pc' \in Charging)
  <2>1. state.calls \in Nat
    BY <1>9 DEF RecordsOK, Records
  <2>2. Cardinality(Receipts') <= Cardinality(Receipts)
    BY <1>4, <1>9, ReceiptsMove
  <2> QED BY <1>1, <1>3, <1>9, <2>1, <2>2 DEF AccountingCovers, Charging
<1> QED BY <1>6, <1>7, <1>8, <1>9, AccountsMove

\* The sources and the plugin change only beside the session, which keeps the ones it
\* has.
LEMMA VersionsMove ==
    ASSUME Next
    PROVE  /\ sources' \in {sources, sources + 1} /\ plugin' \in {plugin, plugin + 1}
           /\ UNCHANGED mem \/ UNCHANGED <<sources, plugin>>
BY DEF Next, AtRest, vars, Prepare, Work, Finish, World, StartResume, Goto, StartFresh, ClearWork,
       MovePair, UncacheArtifact, UncacheReceipt, MoveArtifact, MoveReceipt, UnlinkState,
       RemoveWork, RemoveFiles, MakeWork, TakeLock, FirstCheckpoint, Checkpoint, StopAtJob, End,
       ReuseReceipt, Take, AtJob, DiscardReceipt, DiscardArtifact, ChargeCached, SaveCharge,
       AdoptArtifact, AdoptReceipt, ReserveCall, StartCall, Answer, FailCall, LoseCost,
       WriteArtifact, WriteReceipt, AcceptJob, Stage, PublishFile, PublishFails, Complete,
       Published, CompletionRefused, Wrap, SaveEnd, RemoveStop, ReleaseLock, DropSession,
       Heartbeat, Crash, Event, LockGoesStale, AskStop, WriteStop, EditFile, Change,
       EmptyDirectory, ImportBegins, InstallFile, InstallReceipt, ImportEndsEarly, store, locks,
       world, imports, history, session, bounds

\* How a step changes what was accepted and never dropped.
LEMMA KeptMove ==
    ASSUME Next
    PROVE  \/ kept' = {} /\ UNCHANGED <<repeated, crashes>>
           \/ UNCHANGED <<kept, repeated>> /\ Crash
           \/ UNCHANGED <<repeated, crashes>> /\ WriteReceipt
           \/ UNCHANGED <<mem, jobs, cache, bought, crashes>> /\ StartCall
           \/ UNCHANGED <<kept, repeated, crashes>>
BY DEF Next, AtRest, vars, Prepare, Work, Finish, World, StartResume, Goto, StartFresh, ClearWork,
       MovePair, UncacheArtifact, UncacheReceipt, MoveArtifact, MoveReceipt, UnlinkState,
       RemoveWork, RemoveFiles, MakeWork, TakeLock, FirstCheckpoint, Checkpoint, StopAtJob, End,
       ReuseReceipt, Take, AtJob, DiscardReceipt, DiscardArtifact, ChargeCached, SaveCharge,
       AdoptArtifact, AdoptReceipt, ReserveCall, StartCall, Answer, FailCall, LoseCost,
       WriteArtifact, WriteReceipt, AcceptJob, Stage, PublishFile, PublishFails, Complete,
       Published, CompletionRefused, Wrap, SaveEnd, RemoveStop, ReleaseLock, DropSession,
       Heartbeat, Crash, Event, LockGoesStale, AskStop, WriteStop, EditFile, Change,
       EmptyDirectory, ImportBegins, InstallFile, InstallReceipt, ImportEndsEarly, store, locks,
       world, imports, history, session, bounds

\* What the next session asks for is never older than what was asked for.
LEMMA BaseGrows ==
    ASSUME RecordsOK, FlagsOK, JobsOK, RunsOK, HistoryOK, Stages, Versions, Next,
           NEW j \in AllJobs
    PROVE  /\ Base(j) \in Requests /\ Base(j)' \in Requests
           /\ Base(j).job = j /\ Base(j)'.job = j
           /\ Base(j).sources <= Base(j)'.sources /\ Base(j).plugin <= Base(j)'.plugin
<1>1. /\ sources \in Nat /\ sources' \in Nat /\ plugin \in Nat /\ plugin' \in Nat
      /\ sources <= sources' /\ plugin <= plugin'
  BY VersionsMove DEF HistoryOK
<1>2. mem # None => mem.sources \in Nat /\ mem.plugin \in Nat
  BY DEF RecordsOK, Records
<1>3. mem' # None => mem'.sources \in Nat /\ mem'.plugin \in Nat
  BY RecordsTyped DEF RecordsOK, Records
<1>4. CASE mem # None /\ mem' # None /\ Same(mem', mem)
  BY <1>1, <1>2, <1>4 DEF Base, Requests, Same
<1>5. CASE mem' = None
  BY <1>1, <1>2, <1>5 DEF Base, Requests, Versions
<1>6. CASE pc = "idle" /\ mem' # None /\ AcceptsResume /\ Same(mem', state)
  <2>1. mem = None
    BY <1>6 DEF Stages, NoSession
  <2>2. mem'.sources = sources /\ mem'.plugin = plugin
    BY <1>6 DEF AcceptsResume, Same
  <2> QED BY <1>1, <2>1, <2>2, <1>6 DEF Base, Requests
<1>7. CASE pc = "mkdir" /\ mem' # None /\ mem'.sources = sources /\ mem'.plugin = plugin
  <2>1. mem = None
    BY <1>7 DEF Stages, Preparing
  <2> QED BY <1>1, <1>7, <2>1 DEF Base, Requests
<1> QED BY <1>4, <1>5, <1>6, <1>7, MemMoves, MemFields

\* A request kept so far and current after the step was current before it.
LEMMA KeptCurrent ==
    ASSUME RecordsOK, FlagsOK, JobsOK, RunsOK, HistoryOK, Stages, Versions, KeptEarlier,
           Next, NEW j \in AllJobs, Base(j)' \in kept
    PROVE  Base(j)' = Base(j)
<1>1. /\ Base(j)'.job = j
      /\ Base(j)'.sources = Base(j).sources /\ Base(j)'.plugin = Base(j).plugin
  BY BaseGrows DEF KeptEarlier, Requests
<1>2. Base(j) \in Requests /\ Base(j)' \in Requests /\ Base(j).job = j
  BY BaseGrows
<1> QED BY <1>1, <1>2 DEF Requests

\* The job in hand is bought and accepted for the session's own request.
LEMMA WrittenCurrent ==
    ASSUME RecordsOK, JobsOK, Stages, WriteReceipt
    PROVE  /\ job \in AllJobs
           /\ Base(job) = Request(job) /\ Base(job)' = Request(job)
           /\ kept' = kept \cup {Request(job)} /\ UNCHANGED <<mem, job>>
<1>1. job \in AllJobs
  BY JobInHand DEF WriteReceipt, Goto, AtOneJob
<1>2. mem # None /\ UNCHANGED <<mem, job>>
  BY MemHeld DEF WriteReceipt, Goto, session, Holding
<1> QED BY <1>1, <1>2 DEF Base, Request, WriteReceipt

\* Nothing is ever bought for a later request than the current one.
LEMMA KeptEarlierHolds ==
    ASSUME RecordsOK, FlagsOK, JobsOK, RunsOK, HistoryOK, Stages, Versions, KeptEarlier, Next
    PROVE  KeptEarlier'
<1>1. ASSUME NEW q \in kept
      PROVE  q.sources <= Base(q.job)'.sources /\ q.plugin <= Base(q.job)'.plugin
  <2>1. q \in Requests /\ q.job \in AllJobs /\ q.sources \in Nat /\ q.plugin \in Nat
    BY <1>1 DEF HistoryOK, Requests
  <2>2. /\ Base(q.job).sources \in Nat /\ Base(q.job)'.sources \in Nat
        /\ Base(q.job).plugin \in Nat /\ Base(q.job)'.plugin \in Nat
    BY <2>1, BaseGrows DEF Requests
  <2> QED BY <2>1, <2>2, BaseGrows DEF KeptEarlier
<1>2. CASE kept' \subseteq kept
  BY <1>1, <1>2 DEF KeptEarlier
<1>3. CASE WriteReceipt
  <2>1. PICK q \in Requests : Base(q.job)' = q /\ kept' = kept \cup {q}
    BY <1>3, WrittenCurrent, BaseGrows
  <2>2. q.sources <= Base(q.job)'.sources /\ q.plugin <= Base(q.job)'.plugin
    BY <2>1 DEF Requests
  <2> QED BY <1>1, <2>1, <2>2 DEF KeptEarlier
<1>4. StartCall => kept' \subseteq kept
  BY DEF StartCall
<1> QED BY <1>2, <1>3, <1>4, KeptMove

\* The answer a receipt names does not change.
LEMMA AnswerStays ==
    ASSUME PairsOK, RecordsOK, JobsOK, HistoryOK, Stages, Named, Next, NEW j \in AllJobs,
           NEW r \in {jobs[j].receipt, cache[j].receipt}, r # 0
    PROVE  bought'[r] = bought[r]
<1>1. r \in 1..Len(bought)
  BY NamedAt, PairTypes, BoughtGrows, RunBounds
<1> QED BY <1>1, BoughtGrows

\* A pair that is written for a request is there.
LEMMA StoredMove ==
    ASSUME UNCHANGED bought, NEW a, NEW b, NEW c, NEW d, PairMove(a, b, c, d),
           NEW j \in AllJobs, NEW q,
           \/ j # job /\ Stored(j, q)
           \/ j = job /\ a # 0 /\ b # 0 /\ bought[b] = q
           \/ j = job /\ c # 0 /\ d # 0 /\ bought[d] = q
           \/ pc' = "moveReceipt" /\ UNCHANGED job /\ j = job /\ bought[b] = q
           \/ pc' = "adoptReceipt" /\ UNCHANGED job /\ j = job /\ bought[d] = q
    PROVE  Stored(j, q)'
BY DEF PairMove, Stored, Pair

\* An accepted answer to a current request goes on being there, unless the user
\* drops all, or a crash hits the move of its job.
LEMMA StoredHolds ==
    ASSUME PairsOK, JobsOK, RecordsOK, HistoryOK, Stages, InHand, OnePlace, Named, Moved, Next,
           NEW j \in AllJobs, NEW q, Stored(j, q), pc \in Holding => q = Request(j)
    PROVE  Stored(j, q)' \/ kept' = {} \/ (Crash /\ j = job /\ pc \in AtOneJob)
<1>1. \/ UNCHANGED <<jobs, cache, pc, job>>
      \/ UNCHANGED <<jobs, cache>> /\ pc \notin {"moveReceipt", "adoptReceipt"}
      \/ ClearWork \/ MovePair \/ UncacheArtifact \/ UncacheReceipt \/ MoveArtifact \/ MoveReceipt
      \/ RemoveWork \/ DiscardReceipt \/ DiscardArtifact \/ AdoptArtifact \/ AdoptReceipt
      \/ WriteArtifact \/ WriteReceipt \/ EmptyDirectory \/ Crash
  BY DEF Next, AtRest, vars, Prepare, Work, Finish, World, StartResume, Goto, StartFresh,
         UnlinkState, RemoveFiles, MakeWork, TakeLock, FirstCheckpoint, Checkpoint, StopAtJob,
         End, ReuseReceipt, Take, AtJob, ChargeCached, SaveCharge, ReserveCall, StartCall, Answer,
         FailCall, LoseCost, AcceptJob, Stage, PublishFile, PublishFails, Complete, Published,
         CompletionRefused, Wrap, SaveEnd, RemoveStop, ReleaseLock, DropSession, Heartbeat,
         LockGoesStale, AskStop, Event, WriteStop, EditFile, Change, ImportBegins, InstallFile,
         InstallReceipt, ImportEndsEarly, store, locks, world, imports, history, session, bounds
<1>2. CASE UNCHANGED <<jobs, cache, pc, job>>
  BY <1>2, AnswerStays DEF Stored, Pair, InHand
<1>3. CASE UNCHANGED <<jobs, cache>> /\ pc \notin {"moveReceipt", "adoptReceipt"}
  BY <1>3, AnswerStays DEF Stored, Pair
<1>4. CASE ClearWork
  BY <1>4 DEF ClearWork, session, Stored, Pair
<1>5. CASE MovePair
  BY <1>5, NoPairs, JobsAssumption DEF MovePair, history, Stored, Pair, Moved, AllJobs, JobsOK
<1>6. CASE UncacheArtifact
  <2>1. job \in AllJobs
    BY <1>6, Writes DEF PairMove
  <2> QED BY <1>6, <2>1, Writes, StoredMove DEF UncacheArtifact, Goto, session, history, InHand,
             OnePlace, Stored, Pair
<1>7. CASE UncacheReceipt
  <2>1. job \in AllJobs
    BY <1>7, Writes DEF PairMove
  <2> QED BY <1>7, <2>1, Writes, StoredMove DEF UncacheReceipt, Goto, session, history, InHand,
             OnePlace, Stored, Pair
<1>8. CASE MoveArtifact
  <2>1. job \in AllJobs
    BY <1>8, Writes DEF PairMove
  <2> QED BY <1>8, <2>1, Writes, StoredMove DEF MoveArtifact, Goto, session, history, InHand,
             OnePlace, Stored, Pair
<1>9. CASE MoveReceipt
  <2>1. job \in AllJobs
    BY <1>9, Writes DEF PairMove
  <2> QED BY <1>9, <2>1, Writes, StoredMove DEF MoveReceipt, Goto, history, InHand, OnePlace,
             Stored, Pair
<1>10. CASE RemoveWork
  BY <1>10 DEF RemoveWork
<1>11. CASE DiscardReceipt
  <2>1. job \in AllJobs
    BY <1>11, Writes DEF PairMove
  <2> QED BY <1>11, <2>1, Writes, StoredMove DEF DiscardReceipt, AtJob, session, history, InHand,
             Stored, Pair, Fits, Cached, Holding
<1>12. CASE DiscardArtifact
  <2>1. job \in AllJobs
    BY <1>12, Writes DEF PairMove
  <2> QED BY <1>12, <2>1, Writes, StoredMove DEF DiscardArtifact, Goto, session, history, InHand,
             Stored, Pair
<1>13. CASE AdoptArtifact
  <2>1. job \in AllJobs
    BY <1>13, Writes DEF PairMove
  <2> QED BY <1>13, <2>1, Writes, StoredMove DEF AdoptArtifact, Goto, session, history, InHand,
             OnePlace, Stored, Pair
<1>14. CASE AdoptReceipt
  <2>1. job \in AllJobs
    BY <1>14, Writes DEF PairMove
  <2> QED BY <1>14, <2>1, Writes, StoredMove DEF AdoptReceipt, Goto, Take, InHand, OnePlace,
             Stored, Pair
<1>15. CASE WriteArtifact
  <2>1. job \in AllJobs
    BY <1>15, Writes DEF PairMove
  <2> QED BY <1>15, <2>1, Writes, StoredMove DEF WriteArtifact, Goto, session, history, InHand,
             Stored, Pair
<1>16. CASE WriteReceipt
  <2>1. job \in AllJobs
    BY <1>16, Writes DEF PairMove
  <2> QED BY <1>16, <2>1, Writes, StoredMove DEF WriteReceipt, Goto, session, InHand, Stored, Pair
<1>17. CASE EmptyDirectory
  BY <1>17 DEF EmptyDirectory
<1>18. CASE Crash
  <2>1. UNCHANGED <<jobs, cache, bought>>
    BY <1>18 DEF Crash, store, history
  <2> QED BY <1>18, <2>1 DEF Stored, AtOneJob
<1> QED BY <1>1, <1>2, <1>3, <1>4, <1>5, <1>6, <1>7, <1>8, <1>9, <1>10, <1>11, <1>12, <1>13,
       <1>14, <1>15, <1>16, <1>17, <1>18

\* An accepted answer is stored for its request.
LEMMA WrittenStored ==
    ASSUME PairsOK, JobsOK, RecordsOK, HistoryOK, Stages, InHand, Answering, WriteReceipt,
           NEW j, j = job, NEW q, q = Request(job)
    PROVE  Stored(j, q)'
<1>1. job \in AllJobs
  BY JobInHand DEF WriteReceipt, Goto, AtOneJob
<1>2. /\ answer # 0 /\ bought[answer] = q
      /\ jobs[job].artifact = answer
  BY DEF WriteReceipt, Goto, Stages, Answered, Answering, InHand
<1>3. PairMove(answer, answer, cache[job].artifact, cache[job].receipt)
  BY <1>2, Writes
<1>4. UNCHANGED bought
  BY DEF WriteReceipt
<1> QED BY <1>1, <1>2, <1>3, <1>4, StoredMove

\* A job is newly lost only by a crash while it was in hand.
LEMMA LostMove ==
    ASSUME RecordsOK, PairsOK, FlagsOK, JobsOK, RunsOK, HistoryOK, Stages, Versions, InHand,
           OnePlace, Named, Answering, Moved, KeptEarlier, Next,
           kept' \subseteq kept \/ WriteReceipt, NEW j \in Lost'
    PROVE  \/ j \in Lost /\ \E q \in kept' : q = Base(j)
           \/ Crash /\ j = job /\ job \in AllJobs
<1>1. PICK q \in kept' : q = Base(j)' /\ ~Stored(j, q)'
  BY DEF Lost
<1>2. j \in AllJobs /\ q.job = j
  BY <1>1, BaseGrows DEF Lost
<1>3. CASE q \in kept
  <2>1. q = Base(j)
    BY <1>1, <1>2, <1>3, KeptCurrent
  <2>2. CASE ~Stored(j, q)
    BY <1>1, <1>2, <1>3, <2>1, <2>2 DEF Lost
  <2>3. CASE Stored(j, q)
    <3>1. pc \in Holding => q = Request(j)
      BY <2>1, MemHeld DEF Base, Request
    <3> QED BY <1>1, <1>2, <2>3, <3>1, StoredHolds, JobInHand
  <2> QED BY <2>2, <2>3
<1>4. CASE q \notin kept
  <2>1. WriteReceipt
    BY <1>1, <1>4
  <2>2. q = Request(job) /\ UNCHANGED <<job, mem>>
    BY <1>1, <1>4, <2>1, WrittenCurrent
  <2>3. j = job
    BY <1>2, <2>2 DEF Request
  <2> QED BY <1>1, <2>1, <2>2, <2>3, WrittenStored
<1> QED BY <1>3, <1>4

\* A request is lost only by a crash.
LEMMA LostByCrashHolds ==
    ASSUME RecordsOK, PairsOK, FlagsOK, JobsOK, RunsOK, HistoryOK, Stages, Versions, InHand,
           OnePlace, Named, Answering, Moved, KeptEarlier, LostByCrash, Next
    PROVE  LostByCrash'
<1>1. /\ repeated \in Nat /\ crashes \in Nat
      /\ repeated + Cardinality(Lost) <= crashes
  BY DEF HistoryOK, LostByCrash
<1>2. Lost \in SUBSET AllJobs /\ Lost' \in SUBSET AllJobs
  BY DEF Lost, AllJobs
<1>3. Cardinality(Lost) \in Nat /\ Cardinality(Lost') \in Nat
  BY <1>2, JobSets
<1>4. Lost' \subseteq Lost => Cardinality(Lost') <= Cardinality(Lost)
  BY <1>2, JobSets
<1>5. CASE kept' = {} /\ UNCHANGED <<repeated, crashes>>
  <2>1. Lost' \subseteq Lost
    BY <1>5 DEF Lost
  <2> QED BY <1>1, <1>3, <1>4, <1>5, <2>1 DEF LostByCrash
<1>6. CASE UNCHANGED <<kept, repeated>> /\ Crash
  <2>1. crashes' = crashes + 1
    BY <1>6 DEF Crash
  <2>2. CASE job \in AllJobs
    <3>1. Lost' \subseteq Lost \cup {job}
      BY <1>6, LostMove
    <3>2. Cardinality(Lost') <= Cardinality(Lost) + 1
      BY <1>2, <2>2, <3>1, OneJobMore
    <3> QED BY <1>1, <1>3, <1>6, <2>1, <3>2 DEF LostByCrash
  <2>3. CASE job \notin AllJobs
    <3>1. Lost' \subseteq Lost
      BY <1>6, <2>3, LostMove
    <3> QED BY <1>1, <1>3, <1>4, <1>6, <2>1, <3>1 DEF LostByCrash
  <2> QED BY <2>2, <2>3
<1>7. CASE UNCHANGED <<repeated, crashes>> /\ (WriteReceipt \/ UNCHANGED kept)
  <2>1. ~Crash
    BY <1>1, <1>7 DEF Crash
  <2>2. Lost' \subseteq Lost
    BY <1>7, <2>1, LostMove
  <2> QED BY <1>1, <1>3, <1>4, <1>7, <2>2 DEF LostByCrash
<1>8. CASE UNCHANGED <<mem, jobs, cache, bought, crashes>> /\ StartCall
  <2>1. /\ pc = "reserved" /\ pc' = "calling" /\ kept' = kept \ {Request(job)}
        /\ repeated' = repeated + (IF Request(job) \in kept THEN 1 ELSE 0)
    BY <1>8 DEF StartCall, Goto
  <2>2. job \in AllJobs /\ jobs[job].receipt = 0 /\ cache[job].receipt = 0
    BY <2>1, JobInHand DEF AtOneJob, InHand
  <2>3. Base(job) = Request(job)
    BY <2>1, MemHeld DEF Base, Request, Holding
  <2>4. \A j \in Lost' : j \in Lost /\ Base(j) \in kept'
    BY <2>1, LostMove DEF Crash
  <2>5. Lost' \subseteq Lost \ {job}
    BY <2>1, <2>3, <2>4
  <2>6. CASE Request(job) \notin kept
    BY <1>1, <1>3, <1>4, <1>8, <2>1, <2>5, <2>6 DEF LostByCrash
  <2>7. CASE Request(job) \in kept
    <3>1. job \in Lost
      BY <2>1, <2>2, <2>3, <2>7 DEF Lost, Stored, Pair
    <3>2. Cardinality(Lost \ {job}) = Cardinality(Lost) - 1
      BY <1>2, <3>1, JobSets, FS_RemoveElement
    <3>3. Cardinality(Lost') <= Cardinality(Lost \ {job})
      BY <1>2, <2>5, JobSets
    <3> QED BY <1>1, <1>3, <1>8, <2>1, <2>7, <3>2, <3>3 DEF LostByCrash
  <2> QED BY <2>6, <2>7
<1> QED BY <1>5, <1>6, <1>7, <1>8, KeptMove

-----------------------------------------------------------------------------
(***************************************************************************)
(* The strengthened invariant                                              *)
(***************************************************************************)

Types == RecordsOK /\ PairsOK /\ FilesOK /\ JobsOK /\ FlagsOK /\ RunsOK /\ HistoryOK
AtPlaces == Stages /\ Versions /\ InHand /\ Emptied /\ Moved
Answers == PairsIntact /\ OnePlace /\ Named /\ Answering
Reports == ResultsRest /\ RecordRests /\ ReportCurrent
Accounts == Charged /\ Saved /\ AccountingCovers
Repeats == KeptEarlier /\ LostByCrash

IInv == Types /\ AtPlaces /\ Answers /\ Reports /\ Accounts /\ Repeats

\* The groups are the type invariant.
LEMMA TypeGroups == Types <=> TypeOK
BY DEF Types, TypeOK, RecordsOK, PairsOK, FilesOK, JobsOK, FlagsOK, RunsOK, HistoryOK

\* An empty output directory satisfies the strengthened invariant.
LEMMA InitInv == Init => IInv
<1> SUFFICES ASSUME Init PROVE IInv
  OBVIOUS
<1> USE DEF Init, NoSession
<1>1. RecordsOK /\ PairsOK /\ FlagsOK
  BY NoPairs, PlacementsAssumption DEF RecordsOK, PairsOK, FlagsOK
<1>2. FilesOK /\ JobsOK
  BY JobsAssumption, RunBounds DEF FilesOK, JobsOK, NoResults, Results
<1>3. RunsOK /\ HistoryOK
  <2>1. bought \in Seq(Requests) /\ Len(bought) = 0
    OBVIOUS
  <2> QED BY <2>1, RunBounds DEF RunsOK, HistoryOK
<1>4. Stages
  BY JobsAssumption DEF Stages, NoSession, Preparing, Holding, AtOneJob, Answered
<1>5. Versions /\ InHand /\ Emptied /\ Moved
  BY DEF Versions, InHand, Emptied, Moved, Holding
<1>6. Answers
  BY NoPairs DEF Answers, PairsIntact, OnePlace, Named, Answering, Answered
<1>7. Reports
  BY DEF Reports, ResultsRest, RecordRests, ReportCurrent, Holding
<1>8. Accounts
  BY DEF Accounts, Charged, Saved, AccountingCovers, Buying
<1>9. Repeats
  <2>1. Lost = {}
    BY DEF Lost
  <2>2. Cardinality(Lost) = 0
    BY <2>1, FS_EmptySet
  <2> QED BY <2>2 DEF Repeats, KeptEarlier, LostByCrash
<1> QED BY <1>1, <1>2, <1>3, <1>4, <1>5, <1>6, <1>7, <1>8, <1>9 DEF IInv, Types, AtPlaces

\* So does a step that leaves everything as it is.
LEMMA StutterKeeps == ASSUME IInv, UNCHANGED vars PROVE IInv'
<1> USE DEF vars, store, locks, session, imports, world, history, bounds
<1>1. Types'
  BY TypeGroups DEF IInv, TypeOK, Types, RecordsOK, PairsOK, FilesOK, JobsOK, FlagsOK, RunsOK,
                    HistoryOK
<1>2. Stages'
  BY DEF IInv, AtPlaces, Stages, NoSession, Moving
<1>3. Versions' /\ InHand' /\ Emptied' /\ Moved'
  BY DEF IInv, AtPlaces, Versions, InHand, Request, Emptied, Moved, Pair
<1>4. Answers'
  BY DEF IInv, Answers, PairsIntact, OnePlace, Named, Answering, Request
<1>5. Reports'
  BY DEF IInv, Reports, ResultsRest, RecordRests, ReportCurrent, RestsOn, OwnFiles, Current,
         Rests
<1>6. Accounts'
  BY DEF IInv, Accounts, Charged, Saved, AccountingCovers, Receipts, Ahead, Coming
<1>7. Repeats'
  BY DEF IInv, Repeats, KeptEarlier, LostByCrash, Lost, Stored, Pair, Base
<1> QED BY <1>1, <1>2, <1>3, <1>4, <1>5, <1>6, <1>7 DEF IInv, AtPlaces

\* Every step keeps the strengthened invariant.
LEMMA InductiveStep == IInv /\ [Next]_vars => IInv'
<1> SUFFICES ASSUME IInv, [Next]_vars PROVE IInv'
  OBVIOUS
<1>1. CASE UNCHANGED vars
  BY <1>1, StutterKeeps
<1>2. CASE Next
  <2> USE <1>2 DEF IInv, Types, AtPlaces, Answers, Reports, Accounts, Repeats
  <2>1. Types'
    BY RecordsTyped, PairsTyped, FilesTyped, JobsTyped, FlagsTyped, RunsTyped, HistoryTyped
  <2>2. AtPlaces'
    BY StagesHold, VersionsHold, InHandHolds, EmptiedHolds, MovedHolds
  <2>3. Answers'
    BY PairsIntactHolds, OnePlaceHolds, NamedHolds, AnsweringHolds
  <2>4. Reports'
    BY ResultsRestHolds, RecordRestsHolds, ReportCurrentHolds
  <2>5. Accounts'
    BY ChargedHolds, SavedHolds, AccountingCoversHolds
  <2>6. Repeats'
    BY KeptEarlierHolds, LostByCrashHolds
  <2> QED BY <2>1, <2>2, <2>3, <2>4, <2>5, <2>6
<1> QED BY <1>1, <1>2

\* The strengthened invariant holds in every reachable state.
THEOREM Invariance == Spec => []IInv
<1>1. IInv /\ [Next]_vars => IInv'
  BY InductiveStep
<1> QED BY InitInv, <1>1, PTL DEF Spec

\* Every variable keeps its type: a session is at a place its code has, and every
\* artifact, receipt and result is the number of an answer.
THEOREM TypeCorrect == Spec => []TypeOK
<1>1. IInv => TypeOK
  BY TypeGroups DEF IInv
<1> QED BY <1>1, Invariance, PTL

\* No sequence of moves, adoptions, writes and crashes brings a receipt together
\* with an artifact it did not accept (_move_jobs_to_cache, _exchange_one).
THEOREM ReceiptsFit == Spec => []PairsIntact
<1>1. IInv => PairsIntact
  BY DEF IInv, Answers
<1> QED BY <1>1, Invariance, PTL

\* Accounting that a resume trusts covers every call the run issued or adopted and
\* every receipt, for any number of jobs, runs and crashes (reserve_call, checkpoint).
THEOREM ResumeAccounted == Spec => []AccountingCovers
<1>1. IInv => AccountingCovers
  BY DEF IInv, Accounts
<1> QED BY <1>1, Invariance, PTL

\* Each crash costs at most one call that was already answered (the order of writes
\* in _move_jobs_to_cache and in the adoption and acceptance of a job).
THEOREM CrashCost == Spec => []RepeatsPerCrash
<1>1. IInv => RepeatsPerCrash
  <2> SUFFICES ASSUME IInv PROVE RepeatsPerCrash
    OBVIOUS
  <2>1. Cardinality(Lost) \in Nat
    <3>1. Lost \in SUBSET AllJobs
      BY DEF Lost
    <3> QED BY <3>1, JobSets
  <2>2. repeated + Cardinality(Lost) <= crashes /\ repeated \in Nat /\ crashes \in Nat
    BY DEF IInv, Repeats, LostByCrash, Types, HistoryOK
  <2> QED BY <2>1, <2>2 DEF RepeatsPerCrash
<1> QED BY <1>1, Invariance, PTL

\* A recorded report never rests on an answer to another request than that of the
\* sources and the plugin it names (receipt_matches, complete).
THEOREM ReportRests == Spec => []ReportCurrent
<1>1. IInv => ReportCurrent
  BY DEF IInv, Reports
<1> QED BY <1>1, Invariance, PTL

=============================================================================
