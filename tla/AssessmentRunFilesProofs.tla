---------------------- MODULE AssessmentRunFilesProofs ----------------------
(***************************************************************************)
(* Proofs about the files of the output directory: which of them a start,  *)
(* an import, a removal and a publication write, and why a directory may   *)
(* refuse every start.                                                     *)
(***************************************************************************)
EXTENDS AssessmentRunProofs

\* An import runs only where the directory is not the checkout's own, from its
\* staging to its receipt, and what it has installed stays.
ImportRuns ==
    /\ imported \/ importing # None => ~inCheckout
    /\ importing # None => staging
    /\ importing # None => \A f \in importing : files[f] = User => f \in raced
    /\ importing # None => \A f \in Files \ importing :
           files[f] # None /\ (state = None => files[f] \in {Legacy, User})

\* The run on disk recorded a user's file f as its own.
Adopted(f) == state # None /\ state.deliverables # None /\ state.deliverables[f] = User

\* A session that clears an unfinished run found neither files nor an import, and meets
\* only what a user writes meanwhile.
Clearing ==
    pc \in {"clear", "move", "uncacheArtifact", "uncacheReceipt", "moveArtifact", "moveReceipt",
            "unlinkState"} =>
        /\ state # None /\ ~imported /\ importing = None
        /\ ~inCheckout => \A f \in Files : files[f] \in {None, User}

\* A session that replaces a run removes the import's receipt first, and only files
\* that the run or the import owned when it checked them.
Removing ==
    pc \in {"removeWork", "removeFiles"} =>
        /\ importing # None => state = None /\ pending = {}
        /\ imported => "import" \in pending \/ (state = None /\ pending = {})
        /\ "import" \in pending => imported
        /\ \A f \in pending \cap Files :
               files[f] # None /\ (files[f] = User => f \in raced \/ Adopted(f))
        /\ ~inCheckout => \A f \in Files : files[f] \in {None, Legacy, User} \/ f \in pending

\* A session that works has saved its record.
Recording == pc \in (Holding \ {"first"}) \cup {"release", "unlock"} => state # None

\* Without a state the directory holds no report of a run, and unless a process
\* was killed no work of one either.
Stateless ==
    state = None =>
        /\ ~inCheckout => \A f \in Files : files[f] \in {None, Legacy, User}
        /\ crashes = 0 /\ work => pc \in {"mkdir", "lock", "first"}

\* Where record m says complete, the run's files are those it recorded.
Delivered(m) ==
    m.status = "complete" =>
        /\ m.deliverables # None
        /\ \A f \in Files : files[f] \in {None, Legacy, User, m.deliverables[f]}

\* Unless a process was killed, a run is complete only with its files in place
\* or about to be replaced.
CompleteRuns ==
    crashes = 0 =>
        /\ state # None /\ pc \notin {"publish", "ending"} => Delivered(state)
        /\ mem # None /\ pc # "publish" => Delivered(mem)
-----------------------------------------------------------------------------

\* A session that starts over an unfinished run finds no file, import or staging.
LEMMA UnfinishedFound ==
    ASSUME AcceptsUnfinished, FlagsOK
    PROVE  state # None /\ (~inCheckout => Present = {} /\ ~imported /\ ~staging)
BY FilesAssumption DEF AcceptsUnfinished, Leftovers, Own, Present, FlagsOK

\* A session that replaces a run finds only what it owns.
LEMMA ReplacingFound ==
    ASSUME RecordsOK, FlagsOK, NEW rebuild \in BOOLEAN, AcceptsReplacing(rebuild)
    PROVE  /\ \A f \in Files \cap (Owned \ Own) :
                  files[f] # None /\ (files[f] = User => Adopted(f))
           /\ "import" \in Owned \ Own => imported
           /\ ~inCheckout =>
                  /\ ~staging
                  /\ imported => "import" \in Owned \ Own
                  /\ \A f \in Files : files[f] = None \/ f \in Owned \ Own
<1>1. \A f \in Unchanged : f \in Files /\ files[f] # None /\ (files[f] = User => Adopted(f))
  BY MarkersAssumption DEF Unchanged, Recorded, RecordsOK, Records, Contents, Adopted
<1>2. Files \cap (Own \cup {"import", "staging"}) = {}
  BY FilesAssumption DEF Own
<1>3. ~inCheckout => Leftovers = Owned
  BY DEF AcceptsReplacing
<1>4. ~inCheckout =>
          /\ \A f \in Files : files[f] # None => f \in Leftovers
          /\ imported => "import" \in Leftovers
          /\ staging => "staging" \in Leftovers
  BY DEF Leftovers, Present, FlagsOK
<1>5. "staging" \notin Owned /\ "import" \notin Own
  BY <1>1, <1>2 DEF Owned, Own
<1>6. \A f \in Files \cap Owned : f \in Unchanged
  BY <1>2 DEF Owned
<1>7. "import" \in Owned => imported
  BY FilesAssumption DEF Owned, Leftovers, Present, Own, Recorded
<1> QED BY <1>1, <1>2, <1>3, <1>4, <1>5, <1>6, <1>7

\* A step keeps the record on disk, removes it, or writes the session's.
LEMMA StateKept ==
    ASSUME RecordsOK, FlagsOK, JobsOK, RunsOK, HistoryOK, Stages, Next
    PROVE  \/ UNCHANGED state
           \/ state' = None /\ pc \in {"unlinkState", "removeFiles", "idle"}
           \/ pc \in Holding /\ pc' # "idle" /\ state' # None
BY StateMoves, RecordWritten DEF StateMove

\* The first checkpoint comes before all else.
LEMMA RecordingMove ==
    ASSUME Next
    PROVE  pc' \in (Holding \ {"first"}) \cup {"release", "unlock"} =>
               \/ pc \in (Holding \ {"first"}) \cup {"release", "unlock"}
               \/ pc = "first" /\ state' = [mem' EXCEPT !.unavailable = inflight]
BY DEF Holding, Next, AtRest, vars, Prepare, Work, Finish, World, StartResume, Goto, StartFresh,
       ClearWork, MovePair, UncacheArtifact, UncacheReceipt, MoveArtifact, MoveReceipt,
       UnlinkState, RemoveWork, RemoveFiles, MakeWork, TakeLock, FirstCheckpoint, Checkpoint,
       StopAtJob, End, ReuseReceipt, Take, AtJob, DiscardReceipt, DiscardArtifact, ChargeCached,
       SaveCharge, AdoptArtifact, AdoptReceipt, ReserveCall, StartCall, Answer, FailCall,
       LoseCost, WriteArtifact, WriteReceipt, AcceptJob, Stage, PublishFile, PublishFails,
       Complete, Published, CompletionRefused, Wrap, SaveEnd, RemoveStop, ReleaseLock,
       DropSession, Heartbeat, Crash, Event, LockGoesStale, AskStop, WriteStop, EditFile, Change,
       EmptyDirectory, ImportBegins, InstallFile, InstallReceipt, ImportEndsEarly, store, locks,
       world, imports, history, session, bounds

\* A session that works goes on having a record on disk.
LEMMA RecordingHolds ==
    ASSUME RecordsOK, FlagsOK, JobsOK, RunsOK, HistoryOK, Stages, Recording, Next
    PROVE  Recording'
<1>1. CASE pc = "first" /\ pc' # "idle" /\ state' = [mem' EXCEPT !.unavailable = inflight]
  BY <1>1, RecordWritten DEF Recording, Holding
<1>2. CASE pc \in (Holding \ {"first"}) \cup {"release", "unlock"}
  BY <1>2, StateKept DEF Recording, Holding
<1> QED BY <1>1, <1>2, RecordingMove DEF Recording, Holding

\* What an import under way has installed stays.
LEMMA ImportRunsHolds ==
    ASSUME RecordsOK, FlagsOK, JobsOK, RunsOK, HistoryOK, Stages, FilesOK, ImportRuns, Clearing,
           Removing, Recording, Next
    PROVE  ImportRuns'
<1>1. \/ UNCHANGED <<imported, importing, staging, inCheckout, files, state, raced>>
      \/ UNCHANGED <<imported, importing, staging, inCheckout, files, raced>> /\ pc \in Holding
      \/ StartFresh \/ RemoveFiles \/ PublishFile \/ EditFile \/ EmptyDirectory \/ ImportBegins \/ InstallFile
      \/ InstallReceipt \/ ImportEndsEarly \/ UnlinkState
  BY DEF Holding, Next, AtRest, vars, Prepare, Work, Finish, World, StartResume, Goto,
         ClearWork, MovePair, UncacheArtifact, UncacheReceipt, MoveArtifact, MoveReceipt,
         RemoveWork, MakeWork, TakeLock, FirstCheckpoint, Checkpoint, StopAtJob, End,
         ReuseReceipt, Take, AtJob, DiscardReceipt, DiscardArtifact, ChargeCached, SaveCharge,
         AdoptArtifact, AdoptReceipt, ReserveCall, StartCall, Answer, FailCall, LoseCost,
         WriteArtifact, WriteReceipt, AcceptJob, Stage, PublishFails, Complete, Published,
         CompletionRefused, Wrap, SaveEnd, RemoveStop, ReleaseLock, DropSession, Heartbeat, Crash,
         Event, LockGoesStale, AskStop, WriteStop, Change, store, locks, world, imports, history,
         session, bounds
<1> USE MarkersAssumption DEF ImportRuns
<1>2. CASE UNCHANGED <<imported, importing, staging, inCheckout, files, state, raced>>
  BY <1>2
<1>3. CASE UNCHANGED <<imported, importing, staging, inCheckout, files, raced>> /\ pc \in Holding
  BY <1>3, StateKept DEF Holding
<1>4. CASE RemoveFiles
  BY <1>4 DEF RemoveFiles, locks, Removing, FilesOK, history
<1>5. CASE PublishFile
  BY <1>5 DEF PublishFile, locks, world, imports, history, Recording, Holding, JobsOK, FilesOK
<1>6. CASE EditFile
  BY <1>6 DEF EditFile, Event, Checked, locks, world, imports, FilesOK
<1>7. CASE EmptyDirectory
  BY <1>7 DEF EmptyDirectory
<1>8. CASE ImportBegins
  BY <1>8 DEF ImportBegins, Event, store, locks, AcceptsImport, Present
<1>9. CASE InstallFile
  BY <1>9 DEF InstallFile, locks, history, FilesOK
<1>10. CASE InstallReceipt
  BY <1>10 DEF InstallReceipt, Event, store, locks
<1>11. CASE ImportEndsEarly
  BY <1>11 DEF ImportEndsEarly, Event, store, locks
<1>12. CASE UnlinkState
  BY <1>12 DEF UnlinkState, Goto, store, locks, world, imports, Clearing
<1>13. CASE StartFresh
  <2>1. \A rebuild \in BOOLEAN : AcceptsReplacing(rebuild) /\ importing # None => FALSE
    BY ReplacingFound
  <2>2. importing # None => pending' = {}
    BY <1>13, <2>1 DEF StartFresh
  <2> QED BY <1>13, <2>2 DEF StartFresh, store, locks, world, imports
<1> QED BY <1>1, <1>2, <1>3, <1>4, <1>5, <1>6, <1>7, <1>8, <1>9, <1>10, <1>11, <1>12, <1>13

\* No file or import turns up where an unfinished run is cleared.
LEMMA ClearingHolds ==
    ASSUME FilesOK, FlagsOK, Clearing, ImportRuns, Next
    PROVE  Clearing'
<1>1. \/ UNCHANGED <<imported, importing, inCheckout, files, state, pc>>
      \/ pc' \notin {"clear", "move", "uncacheArtifact", "uncacheReceipt", "moveArtifact",
                   "moveReceipt", "unlinkState"}
      \/ /\ UNCHANGED <<imported, importing, inCheckout, files, state>>
         /\ pc \in {"clear", "move", "uncacheArtifact", "uncacheReceipt", "moveArtifact",
                    "moveReceipt"}
      \/ StartFresh \/ EditFile \/ EmptyDirectory \/ ImportBegins \/ InstallFile \/ InstallReceipt
      \/ ImportEndsEarly \/ PublishFile \/ RemoveFiles
  BY DEF Holding, Next, AtRest, vars, Prepare, Work, Finish, World, StartResume, Goto, ClearWork,
     MovePair, UncacheArtifact, UncacheReceipt, MoveArtifact, MoveReceipt, UnlinkState,
     RemoveWork, MakeWork, TakeLock, FirstCheckpoint, Checkpoint, StopAtJob, End, ReuseReceipt,
     Take, AtJob, DiscardReceipt, DiscardArtifact, ChargeCached, SaveCharge, AdoptArtifact,
     AdoptReceipt, ReserveCall, StartCall, Answer, FailCall, LoseCost, WriteArtifact,
     WriteReceipt, AcceptJob, Stage, PublishFails, Complete, Published, CompletionRefused, Wrap,
     SaveEnd, RemoveStop, ReleaseLock, DropSession, Heartbeat, Crash, Event, LockGoesStale,
     AskStop, WriteStop, Change, store, locks, world, imports, history, session, bounds
<1> USE MarkersAssumption DEF Clearing
<1>2. CASE UNCHANGED <<imported, importing, inCheckout, files, state, pc>>
  BY <1>2 DEF Present
<1>3. CASE \/ pc' \notin {"clear", "move", "uncacheArtifact", "uncacheReceipt", "moveArtifact",
                        "moveReceipt", "unlinkState"}
           \/ /\ UNCHANGED <<imported, importing, inCheckout, files, state>>
              /\ pc \in {"clear", "move", "uncacheArtifact", "uncacheReceipt", "moveArtifact",
                         "moveReceipt"}
  BY <1>3 DEF Present
<1>4. CASE StartFresh
  BY <1>4, UnfinishedFound DEF StartFresh, store, locks, world, imports, ImportRuns, Present
<1>5. CASE EditFile
  BY <1>5 DEF EditFile, Event, locks, world, imports, FilesOK
<1>6. CASE EmptyDirectory
  BY <1>6 DEF EmptyDirectory
<1>7. CASE ImportBegins
  BY <1>7 DEF ImportBegins, Event, store, locks, AcceptsImport, Present
<1>8. CASE InstallFile
  BY <1>8 DEF InstallFile, locks, Present
<1>9. CASE InstallReceipt
  BY <1>9 DEF InstallReceipt, Event, store, locks
<1>10. CASE ImportEndsEarly
  BY <1>10 DEF ImportEndsEarly, Event, store, locks
<1>11. CASE PublishFile
  BY <1>11 DEF PublishFile, locks, world, imports
<1>12. CASE RemoveFiles
  BY <1>12 DEF RemoveFiles, locks
<1> QED BY <1>1, <1>2, <1>3, <1>4, <1>5, <1>6, <1>7, <1>8, <1>9, <1>10, <1>11, <1>12

\* A replaced run goes on losing only what it owns, the receipt of its import first.
LEMMA RemovingHolds ==
    ASSUME RecordsOK, FilesOK, FlagsOK, Removing, ImportRuns, Next
    PROVE  Removing'
<1>1. \/ UNCHANGED <<imported, importing, inCheckout, files, state, pending, pc, raced>>
      \/ pc' \notin {"removeWork", "removeFiles"}
      \/ /\ UNCHANGED <<imported, importing, inCheckout, files, state, pending, raced>>
         /\ pc \in {"removeWork", "removeFiles"}
      \/ StartFresh \/ RemoveFiles \/ EditFile \/ EmptyDirectory \/ ImportBegins \/ InstallFile
      \/ InstallReceipt \/ ImportEndsEarly
  BY DEF Holding, Next, AtRest, vars, Prepare, Work, Finish, World, StartResume, Goto, ClearWork,
     MovePair, UncacheArtifact, UncacheReceipt, MoveArtifact, MoveReceipt, UnlinkState,
     RemoveWork, MakeWork, TakeLock, FirstCheckpoint, Checkpoint, StopAtJob, End, ReuseReceipt,
     Take, AtJob, DiscardReceipt, DiscardArtifact, ChargeCached, SaveCharge, AdoptArtifact,
     AdoptReceipt, ReserveCall, StartCall, Answer, FailCall, LoseCost, WriteArtifact,
     WriteReceipt, AcceptJob, Stage, PublishFile, PublishFails, Complete, Published,
     CompletionRefused, Wrap, SaveEnd, RemoveStop, ReleaseLock, DropSession, Heartbeat, Crash,
     Event, LockGoesStale, AskStop, WriteStop, Change, store, locks, world, imports, history,
     session, bounds
<1> USE MarkersAssumption DEF Removing, Adopted
<1>2. CASE UNCHANGED <<imported, importing, inCheckout, files, state, pending, pc, raced>>
  BY <1>2
<1>3. CASE \/ pc' \notin {"removeWork", "removeFiles"}
           \/ /\ UNCHANGED <<imported, importing, inCheckout, files, state, pending, raced>>
              /\ pc \in {"removeWork", "removeFiles"}
  BY <1>3
<1>4. CASE StartFresh
  BY <1>4, ReplacingFound DEF StartFresh, store, locks, world, imports, ImportRuns
<1>5. CASE RemoveFiles
  <2>1. \/ /\ "import" \in pending /\ ~imported' /\ pending' = pending \ {"import"}
           /\ UNCHANGED <<state, files>>
        \/ /\ "import" \notin pending /\ UNCHANGED <<state, imported>>
           /\ \E f \in pending : files' = [files EXCEPT ![f] = None] /\ pending' = pending \ {f}
        \/ pc' \notin {"removeWork", "removeFiles"}
    BY <1>5 DEF RemoveFiles
  <2>2. UNCHANGED <<importing, inCheckout, raced>> /\ pc = "removeFiles"
    BY <1>5 DEF RemoveFiles, locks, history
  <2> QED BY <2>1, <2>2, FilesAssumption DEF FilesOK
<1>6. CASE EditFile
  BY <1>6 DEF EditFile, Event, Checked, locks, session, world, imports, FilesOK
<1>7. CASE EmptyDirectory
  BY <1>7 DEF EmptyDirectory, session
<1>8. CASE ImportBegins
  BY <1>8 DEF ImportBegins, Event, store, locks, session, AcceptsImport, Present, FilesOK
<1>9. CASE InstallFile
  BY <1>9 DEF InstallFile, locks, session, history, FilesOK
<1>10. CASE InstallReceipt
  BY <1>10 DEF InstallReceipt, Event, store, locks, session, history
<1>11. CASE ImportEndsEarly
  BY <1>11 DEF ImportEndsEarly, Event, store, locks, session, history
<1> QED BY <1>1, <1>2, <1>3, <1>4, <1>5, <1>6, <1>7, <1>8, <1>9, <1>10, <1>11

\* The receipt of an import goes on vouching for a whole report.
LEMMA ImportWholeHolds ==
    ASSUME RecordsOK, FlagsOK, JobsOK, RunsOK, HistoryOK, Stages, FilesOK, ImportRuns, Clearing,
           Removing, Recording, ImportWhole, Next
    PROVE  ImportWhole'
<1>1. \/ UNCHANGED <<imported, files, state>>
      \/ UNCHANGED <<imported, files>> /\ pc \in Holding
      \/ RemoveFiles \/ PublishFile \/ EditFile \/ EmptyDirectory \/ InstallFile \/ InstallReceipt
      \/ UnlinkState
  BY DEF Holding, Next, AtRest, vars, Prepare, Work, Finish, World, StartResume, Goto, StartFresh,
         ClearWork, MovePair, UncacheArtifact, UncacheReceipt, MoveArtifact, MoveReceipt,
         RemoveWork, MakeWork, TakeLock, FirstCheckpoint, Checkpoint, StopAtJob, End,
         ReuseReceipt, Take, AtJob, DiscardReceipt, DiscardArtifact, ChargeCached, SaveCharge,
         AdoptArtifact, AdoptReceipt, ReserveCall, StartCall, Answer, FailCall, LoseCost,
         WriteArtifact, WriteReceipt, AcceptJob, Stage, PublishFails, Complete, Published,
         CompletionRefused, Wrap, SaveEnd, RemoveStop, ReleaseLock, DropSession, Heartbeat, Crash,
         Event, LockGoesStale, AskStop, WriteStop, Change, ImportBegins, ImportEndsEarly, store,
         locks, world, imports, history, session, bounds
<1> USE MarkersAssumption DEF ImportWhole
<1>2. CASE UNCHANGED <<imported, files, state>>
  BY <1>2
<1>3. CASE UNCHANGED <<imported, files>> /\ pc \in Holding
  BY <1>3, StateKept DEF Holding
<1>4. CASE RemoveFiles
  BY <1>4 DEF RemoveFiles, Removing, FilesOK
<1>5. CASE PublishFile
  BY <1>5 DEF PublishFile, world, imports, Recording, Holding, JobsOK, FilesOK
<1>6. CASE EditFile
  BY <1>6 DEF EditFile, Event, world, imports, FilesOK
<1>7. CASE EmptyDirectory
  BY <1>7 DEF EmptyDirectory
<1>8. CASE InstallFile
  BY <1>8 DEF InstallFile, FilesOK
<1>9. CASE InstallReceipt
  BY <1>9 DEF InstallReceipt, Event, store, ImportRuns
<1>10. CASE UnlinkState
  BY <1>10 DEF UnlinkState, Goto, store, world, imports, Clearing
<1> QED BY <1>1, <1>2, <1>3, <1>4, <1>5, <1>6, <1>7, <1>8, <1>9, <1>10

\* Without a state no report of a run is left.
LEMMA StatelessFiles ==
    ASSUME RecordsOK, FlagsOK, JobsOK, RunsOK, HistoryOK, Stages, FilesOK, Clearing, Removing,
           Recording, Stateless, Next
    PROVE  (state = None /\ ~inCheckout => \A f \in Files : files[f] \in {None, Legacy, User})'
<1>1. \/ UNCHANGED <<inCheckout, files, state>>
      \/ UNCHANGED <<inCheckout, files>> /\ pc \in Holding
      \/ RemoveFiles \/ PublishFile \/ EditFile \/ EmptyDirectory \/ InstallFile \/ UnlinkState
  BY DEF Holding, Next, AtRest, vars, Prepare, Work, Finish, World, StartResume, Goto, StartFresh,
         ClearWork, MovePair, UncacheArtifact, UncacheReceipt, MoveArtifact, MoveReceipt,
         RemoveWork, MakeWork, TakeLock, FirstCheckpoint, Checkpoint, StopAtJob, End,
         ReuseReceipt, Take, AtJob, DiscardReceipt, DiscardArtifact, ChargeCached, SaveCharge,
         AdoptArtifact, AdoptReceipt, ReserveCall, StartCall, Answer, FailCall, LoseCost,
         WriteArtifact, WriteReceipt, AcceptJob, Stage, PublishFails, Complete, Published,
         CompletionRefused, Wrap, SaveEnd, RemoveStop, ReleaseLock, DropSession, Heartbeat, Crash,
         Event, LockGoesStale, AskStop, WriteStop, Change, ImportBegins, InstallReceipt,
         ImportEndsEarly, store, locks, world, imports, history, session, bounds
<1> USE MarkersAssumption DEF Stateless
<1>2. CASE UNCHANGED <<inCheckout, files, state>>
  BY <1>2
<1>3. CASE UNCHANGED <<inCheckout, files>> /\ pc \in Holding
  BY <1>3, StateKept DEF Holding
<1>4. CASE RemoveFiles
  BY <1>4 DEF RemoveFiles, locks, Removing, FilesOK
<1>5. CASE PublishFile
  BY <1>5 DEF PublishFile, locks, Recording, Holding, JobsOK, FilesOK
<1>6. CASE EditFile
  BY <1>6 DEF EditFile, Event, locks, FilesOK
<1>7. CASE EmptyDirectory
  BY <1>7 DEF EmptyDirectory
<1>8. CASE InstallFile
  BY <1>8 DEF InstallFile, locks, FilesOK
<1>9. CASE UnlinkState
  BY <1>9 DEF UnlinkState, Goto, store, locks, Clearing, Present
<1> QED BY <1>1, <1>2, <1>3, <1>4, <1>5, <1>6, <1>7, <1>8, <1>9

\* Work without a state lies only on the way from a new directory to its first
\* checkpoint.
LEMMA WorkMove ==
    ASSUME Next
    PROVE  \/ state' # None \/ crashes' = crashes + 1 \/ ~work'
           \/ pc' \in {"mkdir", "lock", "first"}
           \/ /\ state = None /\ work /\ UNCHANGED crashes
              /\ pc \notin {"mkdir", "lock"}
              /\ pc = "first" =>
                     \/ pc' = "first"
                     \/ pc' # "idle" /\ state' = [mem' EXCEPT !.unavailable = inflight]
           \/ state # None /\ pc \in Holding /\ pc' # "idle"
BY DEF Holding, AcceptsResume, Next, AtRest, vars, Prepare, Work, Finish, World, StartResume,
       Goto, StartFresh, ClearWork, MovePair, UncacheArtifact, UncacheReceipt, MoveArtifact,
       MoveReceipt, UnlinkState, RemoveWork, RemoveFiles, MakeWork, TakeLock, FirstCheckpoint,
       Checkpoint, StopAtJob, End, ReuseReceipt, Take, AtJob, DiscardReceipt, DiscardArtifact,
       ChargeCached, SaveCharge, AdoptArtifact, AdoptReceipt, ReserveCall, StartCall, Answer,
       FailCall, LoseCost, WriteArtifact, WriteReceipt, AcceptJob, Stage, PublishFile,
       PublishFails, Complete, Published, CompletionRefused, Wrap, SaveEnd, RemoveStop,
       ReleaseLock, DropSession, Heartbeat, Crash, Event, LockGoesStale, AskStop, WriteStop,
       EditFile, Change, EmptyDirectory, ImportBegins, InstallFile, InstallReceipt,
       ImportEndsEarly, store, locks, world, imports, history, session, bounds

\* Nor is there work of a run, unless a process was killed.
LEMMA StatelessHolds ==
    ASSUME RecordsOK, FilesOK, FlagsOK, JobsOK, RunsOK, HistoryOK, Stages, Clearing,
           Removing, Recording, Stateless, Next
    PROVE  Stateless'
<1>1. ASSUME state' = None, crashes' = 0, work'
      PROVE  pc' \in {"mkdir", "lock", "first"}
  <2>1. crashes \in Nat
    BY DEF HistoryOK
  <2>2. CASE state = None /\ work /\ UNCHANGED crashes /\ pc = "first"
    BY <1>1, <2>2, WorkMove, RecordWritten DEF Holding
  <2>3. CASE state # None /\ pc \in Holding /\ pc' # "idle"
    BY <1>1, <2>3, StateKept DEF Holding
  <2> QED BY <1>1, <2>1, <2>2, <2>3, WorkMove DEF Stateless
<1> QED BY <1>1, StatelessFiles DEF Stateless

\* Publication ends with a demoted or with a complete run.
LEMMA PublishMove ==
    ASSUME Next
    PROVE  /\ pc = "publish" => pc' \in {"publish", "ending"} \/ mem' = None \/ Complete
           /\ pc = "idle" /\ pc' = "lock" => StartResume
           /\ pc \in {"publish", "ending"} /\ pc' \notin {"publish", "ending"} =>
                  \/ crashes' = crashes + 1
                  \/ /\ pc \in Holding /\ pc' # "idle"
                     /\ state' = [mem' EXCEPT !.unavailable = inflight]
BY DEF Holding, Next, AtRest, vars, Prepare, Work, Finish, World, StartResume, Goto, StartFresh,
       ClearWork, MovePair, UncacheArtifact, UncacheReceipt, MoveArtifact, MoveReceipt,
       UnlinkState, RemoveWork, RemoveFiles, MakeWork, TakeLock, FirstCheckpoint, Checkpoint,
       StopAtJob, End, ReuseReceipt, Take, AtJob, DiscardReceipt, DiscardArtifact, ChargeCached,
       SaveCharge, AdoptArtifact, AdoptReceipt, ReserveCall, StartCall, Answer, FailCall,
       LoseCost, WriteArtifact, WriteReceipt, AcceptJob, Stage, PublishFile, PublishFails,
       Complete, Published, CompletionRefused, Wrap, SaveEnd, RemoveStop, ReleaseLock,
       DropSession, Heartbeat, Crash, Event, LockGoesStale, AskStop, WriteStop, EditFile, Change,
       EmptyDirectory, ImportBegins, InstallFile, InstallReceipt, ImportEndsEarly, store, locks,
       world, imports, history, session, bounds

\* Only publication brings new content of a run into a file.
LEMMA FilesMove ==
    ASSUME FilesOK, NEW f \in Files, Next
    PROVE  \/ files'[f] \in {files[f], None, Legacy, User}
           \/ pc = "publish" /\ pc' = "publish"
<1>1. \/ UNCHANGED files
      \/ RemoveFiles \/ PublishFile \/ EditFile \/ EmptyDirectory \/ InstallFile
  BY DEF Next, AtRest, vars, Prepare, Work, Finish, World, StartResume, Goto, StartFresh,
         ClearWork, MovePair, UncacheArtifact, UncacheReceipt, MoveArtifact, MoveReceipt,
         UnlinkState, RemoveWork, MakeWork, TakeLock, FirstCheckpoint, Checkpoint, StopAtJob, End,
         ReuseReceipt, Take, AtJob, DiscardReceipt, DiscardArtifact, ChargeCached, SaveCharge,
         AdoptArtifact, AdoptReceipt, ReserveCall, StartCall, Answer, FailCall, LoseCost,
         WriteArtifact, WriteReceipt, AcceptJob, Stage, PublishFails, Complete, Published,
         CompletionRefused, Wrap, SaveEnd, RemoveStop, ReleaseLock, DropSession, Heartbeat, Crash,
         Event, LockGoesStale, AskStop, WriteStop, Change, ImportBegins, InstallReceipt,
         ImportEndsEarly, store, locks, world, imports, history, session, bounds
<1> USE MarkersAssumption DEF FilesOK
<1>2. CASE UNCHANGED files
  BY <1>2
<1>3. CASE RemoveFiles
  BY <1>3 DEF RemoveFiles
<1>4. CASE PublishFile
  BY <1>4 DEF PublishFile
<1>5. CASE EditFile
  BY <1>5 DEF EditFile, Event
<1>6. CASE EmptyDirectory
  BY <1>6 DEF EmptyDirectory
<1>7. CASE InstallFile
  BY <1>7 DEF InstallFile
<1> QED BY <1>1, <1>2, <1>3, <1>4, <1>5, <1>6, <1>7

\* A session's record becomes complete only by a completion.
LEMMA StatusMove ==
    ASSUME RecordsOK, FlagsOK, JobsOK, RunsOK, HistoryOK, Stages, Next,
           mem' # None, mem'.status = "complete"
    PROVE  \/ /\ mem # None /\ mem.status = "complete"
              /\ mem'.deliverables = mem.deliverables
              /\ pc = "publish" => pc' = "publish"
           \/ /\ pc = "idle" /\ pc' = "lock" /\ state # None /\ state.status = "complete"
              /\ mem'.deliverables = state.deliverables
           \/ Complete
<1>1. CASE UNCHANGED mem /\ (pc' \in {"ending", "lock", "reserved", "charged"} => pc' = pc)
  BY <1>1, PublishMove
<1>2. CASE pc = "idle" /\ pc' = "lock"
  <2>1. AcceptsResume /\ state \in Records /\ state # None
    BY <1>2, PublishMove DEF StartResume, AcceptsResume, RecordsOK
  <2>2. CASE state.status = "complete"
    BY <1>2, <2>1, <2>2, MemMoves, MemFields DEF Stages, NoSession
  <2>3. CASE state.status # "complete"
    <3>1. mem' = [state EXCEPT !.status = "running"]
      <4>1. (IF state.status = "complete" THEN state.status ELSE "running") = "running"
        BY <2>3
      <4> QED BY <1>2, <4>1, PublishMove DEF StartResume
    <3> QED BY <2>1, <3>1, StatusUpdated DEF Statuses
  <2> QED BY <2>2, <2>3
<1>3. CASE pc = "mkdir" /\ mem' = [id |-> starts, status |-> "running", calls |-> 0,
                                   unavailable |-> FALSE, sources |-> sources,
                                   plugin |-> plugin, deliverables |-> None]
  BY <1>3
<1>4. CASE pc' # pc /\ pc' = "ending"
  BY <1>4, MemMoves, MemFields
<1>5. CASE /\ pc = "run" /\ pc' \in {"reserved", "charged"}
           /\ mem' = [mem EXCEPT !.calls = @ + 1]
  BY <1>5, MemHeld, CallsUpdated DEF Holding
<1>6. CASE pc = "publish" /\ pc' = "wrap"
  BY <1>6, PublishMove
<1> QED BY <1>1, <1>2, <1>3, <1>4, <1>5, <1>6, MemMoves DEF MemMove

\* Unless a process is killed, a complete run goes on having its files.
LEMMA CompleteRunsHolds ==
    ASSUME RecordsOK, FilesOK, FlagsOK, JobsOK, RunsOK, HistoryOK, Stages, CompleteRuns, Next
    PROVE  CompleteRuns'
<1> SUFFICES ASSUME crashes' = 0
             PROVE  (/\ state # None /\ pc \notin {"publish", "ending"} => Delivered(state)
                     /\ mem # None /\ pc # "publish" => Delivered(mem))'
  BY DEF CompleteRuns, Delivered
<1>1. crashes = 0 /\ crashes' # crashes + 1
  BY CountsMove DEF HistoryOK
<1>2. ASSUME NEW m, NEW d, \A f \in Files : files[f] \in {None, Legacy, User, d[f]},
             ~(pc = "publish" /\ pc' = "publish")
      PROVE  \A f \in Files : files'[f] \in {None, Legacy, User, d[f]}
  BY <1>2, FilesMove
<1>3. (mem # None /\ pc # "publish" => Delivered(mem))'
  <2> SUFFICES ASSUME mem' # None, pc' # "publish", mem'.status = "complete"
               PROVE  /\ mem'.deliverables # None
                      /\ \A f \in Files : files'[f] \in {None, Legacy, User, mem'.deliverables[f]}
    BY DEF Delivered
  <2>1. CASE /\ mem # None /\ mem.status = "complete" /\ pc # "publish"
             /\ mem'.deliverables = mem.deliverables
    BY <1>1, <1>2, <2>1 DEF CompleteRuns, Delivered
  <2>2. CASE /\ pc = "idle" /\ state # None /\ state.status = "complete"
             /\ mem'.deliverables = state.deliverables
    BY <1>1, <1>2, <2>2 DEF CompleteRuns, Delivered
  <2>3. CASE Complete
    <3>1. files \in [Files -> Contents]
      BY <2>3, AllMoved DEF Complete, Published
    <3>2. mem \in Records
      BY <2>3, MemHeld DEF Complete, Published, Holding
    <3>3. mem'.deliverables = files /\ files' = files
      BY <2>3, <3>1, <3>2, CompletionUpdated DEF Complete, store
    <3> QED BY <3>1, <3>3, MarkersAssumption
  <2> QED BY <2>1, <2>2, <2>3, StatusMove
<1>4. (state # None /\ pc \notin {"publish", "ending"} => Delivered(state))'
  <2> SUFFICES ASSUME state' # None, pc' \notin {"publish", "ending"},
                      state'.status = "complete"
               PROVE  /\ state'.deliverables # None
                      /\ \A f \in Files : files'[f] \in {None, Legacy, User, state'.deliverables[f]}
    BY DEF Delivered
  <2>1. CASE UNCHANGED state /\ pc \notin {"publish", "ending"}
    BY <1>1, <1>2, <2>1 DEF CompleteRuns, Delivered
  <2>2. CASE /\ pc \in Holding /\ pc' # "idle"
             /\ state' = [mem' EXCEPT !.unavailable = inflight]
    <3>1. /\ mem' # None /\ mem'.status = "complete"
          /\ state'.deliverables = mem'.deliverables
      BY <2>2, RecordWritten
    <3> QED BY <1>3, <3>1 DEF Delivered
  <2> QED BY <1>1, <2>1, <2>2, StateMoves, PublishMove DEF StateMove
<1> QED BY <1>3, <1>4

-----------------------------------------------------------------------------
(***************************************************************************)
(* The strengthened invariant for the files                                *)
(***************************************************************************)

FilesInv ==
    /\ ImportRuns /\ Clearing /\ Removing /\ Recording
    /\ ImportWhole /\ Stateless /\ CompleteRuns

\* An empty output directory satisfies it.
LEMMA FilesInit == Init => FilesInv
<1> SUFFICES ASSUME Init PROVE FilesInv
  OBVIOUS
<1> USE DEF Init, NoSession
<1>1. ImportRuns /\ Clearing /\ Removing /\ Recording
  BY DEF ImportRuns, Clearing, Removing, Recording, Holding
<1>2. ImportWhole /\ Stateless /\ CompleteRuns
  BY DEF ImportWhole, Stateless, CompleteRuns
<1> QED BY <1>1, <1>2 DEF FilesInv

\* Every step keeps it.
LEMMA FilesStep == IInv /\ FilesInv /\ [Next]_vars => FilesInv'
<1> SUFFICES ASSUME IInv, FilesInv, [Next]_vars PROVE FilesInv'
  OBVIOUS
<1>1. CASE UNCHANGED vars
  <2> USE <1>1 DEF FilesInv, vars, store, locks, session, imports, world, history, bounds
  <2>1. ImportRuns' /\ Clearing' /\ Removing' /\ Recording'
    BY DEF ImportRuns, Clearing, Removing, Recording, Adopted
  <2>2. ImportWhole' /\ Stateless' /\ CompleteRuns'
    BY DEF ImportWhole, Stateless, CompleteRuns, Delivered
  <2> QED BY <2>1, <2>2
<1>2. CASE Next
  <2> USE <1>2 DEF IInv, Types, AtPlaces, FilesInv
  <2>1. ImportRuns' /\ Clearing' /\ Removing' /\ Recording'
    BY ImportRunsHolds, ClearingHolds, RemovingHolds, RecordingHolds
  <2>2. ImportWhole' /\ Stateless' /\ CompleteRuns'
    BY ImportWholeHolds, StatelessHolds, CompleteRunsHolds
  <2> QED BY <2>1, <2>2
<1> QED BY <1>1, <1>2

\* It holds in every reachable state.
THEOREM FilesInvariance == Spec => [](IInv /\ FilesInv)
<1>1. IInv /\ FilesInv /\ [Next]_vars => FilesInv'
  BY FilesStep
<1>2. Init => FilesInv
  BY FilesInit
<1> QED BY Invariance, <1>1, <1>2, PTL DEF Spec

\* The receipt of an import vouches for a whole report, wherever an import or a
\* removal was interrupted (import_legacy, _remove_earlier_run).
THEOREM ImportsWhole == Spec => []ImportWhole
<1>1. FilesInv => ImportWhole
  BY DEF FilesInv
<1> QED BY <1>1, FilesInvariance, PTL

\* Beside publication and the user, nothing erases what a user wrote unless it was written
\* after the check on which a removal or an import acts, or recorded by a completing run as
\* its own (_remove_earlier_run, import_legacy, complete).
THEOREM UserFilesStay == Spec => UserFilesKept
<1>1. ASSUME IInv, FilesInv, [Next]_vars, NEW f \in Files, files[f] = User, files'[f] # User
      PROVE  \/ pc = "publish" /\ f \in pending
             \/ pc = "idle" /\ ~Startable /\ importing = None
             \/ f \in raced
             \/ Adopted(f)
  <2>1. \/ UNCHANGED files
        \/ PublishFile \/ EmptyDirectory
        \/ RemoveFiles \/ EditFile \/ InstallFile
    BY <1>1 DEF Next, AtRest, vars, Prepare, Work, Finish, World, StartResume, Goto, StartFresh,
           ClearWork, MovePair, UncacheArtifact, UncacheReceipt, MoveArtifact, MoveReceipt,
           UnlinkState, RemoveWork, MakeWork, TakeLock, FirstCheckpoint, Checkpoint, StopAtJob,
           End, ReuseReceipt, Take, AtJob, DiscardReceipt, DiscardArtifact, ChargeCached,
           SaveCharge, AdoptArtifact, AdoptReceipt, ReserveCall, StartCall, Answer, FailCall,
           LoseCost, WriteArtifact, WriteReceipt, AcceptJob, Stage, PublishFails, Complete,
           Published, CompletionRefused, Wrap, SaveEnd, RemoveStop, ReleaseLock, DropSession,
           Heartbeat, Crash, Event, LockGoesStale, AskStop, WriteStop, Change, ImportBegins,
           InstallReceipt, ImportEndsEarly, store, locks, world, imports, history, session, bounds
  <2>2. CASE PublishFile \/ EmptyDirectory
    BY <1>1, <2>2 DEF PublishFile, EmptyDirectory, IInv, Types, FilesOK
  <2>3. CASE EditFile
    BY <1>1, <2>3 DEF EditFile, IInv, Types, FilesOK
  <2>4. CASE InstallFile
    BY <1>1, <2>4, MarkersAssumption DEF InstallFile, IInv, Types, FilesOK, FilesInv, ImportRuns
  <2>5. CASE RemoveFiles
    BY <1>1, <2>5 DEF RemoveFiles, IInv, Types, FilesOK, FilesInv, Removing
  <2> QED BY <1>1, <2>1, <2>2, <2>3, <2>4, <2>5
<1>2. IInv /\ FilesInv /\ [Next]_vars =>
          [\A f \in Files : files[f] = User /\ files'[f] # User =>
               \/ pc = "publish" /\ f \in pending
               \/ pc = "idle" /\ ~Startable /\ importing = None
               \/ f \in raced
               \/ state # None /\ state.deliverables # None /\ state.deliverables[f] = User]_files
  BY <1>1 DEF Adopted
<1> QED BY <1>2, FilesInvariance, PTL DEF Spec, UserFilesKept

\* A directory without a state whose files are no user's, that no process was killed in
\* and no import left half way, admits a run or a replacement of its import.
LEMMA StatelessStarts ==
    ASSUME IInv, FilesInv, pc = "idle", ~fresh, importing = None, state = None,
           crashes = 0, stop = 0, ~staging,
           \A f \in Files : files[f] # User /\ (files[f] = Legacy => imported)
    PROVE  Startable
<1> USE DEF IInv, Types, FilesInv
<1>1. ~work
  BY DEF Stateless, FlagsOK
<1>2. CASE imported
  <2>1. ~inCheckout /\ \A f \in Files : files[f] = Legacy
    BY <1>2 DEF ImportRuns, ImportWhole
  <2>2. Leftovers = Owned
    BY <1>1, <2>1 DEF Leftovers, Owned, Unchanged, Present
  <2> QED BY <1>2, <2>1, <2>2 DEF Startable, AcceptsReplacing, AcceptsUnfinished
<1>3. CASE ~imported
  <2>1. ~inCheckout => Present = {}
    BY <1>3 DEF Stateless, Present
  <2>2. Leftovers = {}
    BY <1>1, <1>3, <2>1, FilesAssumption DEF Leftovers, Own, Recorded, Present
  <2> QED BY <2>2 DEF Startable, AcceptsEmpty
<1> QED BY <1>2, <1>3 DEF FlagsOK

\* One with a state whose files are its run's admits a new run or a rebuild.
LEMMA RecordedStarts ==
    ASSUME IInv, FilesInv, pc = "idle", ~fresh, importing = None, state # None,
           crashes = 0, stop = 0, ~staging,
           \A f \in Files : files[f] \notin {User, Legacy},
           state.status # "complete" => Present = {}
    PROVE  Startable
<1> USE DEF IInv, Types, FilesInv
<1>1. CASE AcceptsUnfinished \/ inCheckout
  BY <1>1 DEF Startable, AcceptsReplacing
<1>2. CASE ~AcceptsUnfinished /\ ~inCheckout
  <2>1. Present \subseteq Unchanged
    <3>1. CASE state.status # "complete"
      BY <3>1
    <3>2. CASE state.status = "complete"
      BY <3>2 DEF CompleteRuns, Delivered, Unchanged, Recorded, Present
    <3> QED BY <3>1, <3>2
  <2>2. Leftovers \subseteq Own \cup {"import"} \cup Unchanged
    BY <1>2, <2>1 DEF Leftovers, Own
  <2>3. AcceptsReplacing(TRUE)
    BY <1>2, <2>2 DEF AcceptsReplacing, Owned
  <2> QED BY <2>3 DEF Startable
<1> QED BY <1>1, <1>2 DEF FlagsOK

\* A directory refuses every start only for one of the five reasons (_open,
\* _discard_unfinished_run, _classify_owned).
THEOREM StuckOnlyFor == Spec => []StuckForAReason
<1>1. IInv /\ FilesInv => StuckForAReason
  <2> SUFFICES ASSUME IInv, FilesInv, pc = "idle", ~fresh, importing = None, crashes = 0,
                      stop = 0, ~staging, \A f \in Files : files[f] # User,
                      ~(state # None /\ state.status # "complete" /\ Present # {}),
                      ~(\E f \in Files : files[f] = Legacy /\ (~imported \/ state # None))
               PROVE  Startable
    <3>1. IInv => crashes \in Nat
      BY DEF IInv, Types, HistoryOK
    <3> QED BY <3>1 DEF StuckForAReason
  <2>1. CASE state = None
    BY <2>1, StatelessStarts
  <2>2. CASE state # None
    BY <2>2, RecordedStarts
  <2> QED BY <2>1, <2>2
<1> QED BY <1>1, FilesInvariance, PTL

=============================================================================
