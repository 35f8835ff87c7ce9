------------------------ MODULE AcceptScriptProofs ------------------------
(***************************************************************************)
(* Proofs about the lock of a source file and the runs that take it.  The  *)
(* lock is argued about by itself (SourceLock), for any number of          *)
(* processes; that the accept script's runs use it in no other way then    *)
(* carries the result over.                                                *)
(***************************************************************************)
EXTENDS AcceptScript, TLAPS

Owning == {"write", "inside", "leave", "unlink"}

(* Whoever has got past the creation of the lock owns the file that is there. *)
OwnersHaveIt ==
    \A p \in alive : pc[p] \in Owning =>
        /\ lock # Nobody
        /\ lock.of = p
        /\ pc[p] # "write" => lock.written

(* Whoever is about to remove a lock judged the one that is there, and its   *)
(* owner is gone.                                                            *)
SweepersAreRight ==
    \A p \in alive : pc[p] = "sweep" =>
        /\ lock # Nobody
        /\ lock.of \notin alive
        /\ p \in judged[lock.of]

(* A lock that nobody has written for too long is a dead process's, or it can *)
(* be read and nobody is left who looked when it could not.                   *)
OldIsSafe ==
    lock # Nobody /\ lock.old /\ lock.of \in alive =>
        lock.written /\ \A p \in alive : pc[p] # "stat"

LockInv ==
    /\ LockTypeOK
    /\ LockKept => OwnersHaveIt /\ SweepersAreRight /\ OldIsSafe

-----------------------------------------------------------------------------
(* The lock keeps its type. *)
LEMMA LockTyped ==
    ASSUME LockTypeOK, [LockNext]_lockVars
    PROVE  LockTypeOK'
<1> USE LockAssumption DEF LockTypeOK, Locks, LockFiles, Places
<1>1. CASE UNCHANGED lockVars
      BY <1>1 DEF lockVars
<1>2. ASSUME NEW p \in Processes,
             Enter(p) \/ Collide(p) \/ GiveUp(p) \/ Finish(p) \/ Leave(p)
      PROVE  LockTypeOK'
      BY <1>2 DEF Enter, Collide, GiveUp, Finish, Leave, At, Goes
<1>3. ASSUME NEW p \in Processes, Look(p) \/ Stat(p)
      PROVE  LockTypeOK'
      BY <1>3 DEF Look, Stat, Judges, Readable, At, Goes
<1>4. ASSUME NEW p \in Processes, Sweep(p) \/ Create(p) \/ WriteLock(p) \/ Release(p)
      PROVE  LockTypeOK'
  <2>1. \A w \in BOOLEAN : [of |-> p, written |-> w, old |-> FALSE] \in LockFiles
        BY DEF LockFiles
  <2>2. lock' \in Locks
        BY <1>4, <2>1 DEF Sweep, Create, WriteLock, Release
  <2> QED
      BY <1>4, <2>2 DEF Sweep, Create, WriteLock, Release, At, Goes
<1>5. ASSUME NEW p \in Processes, Die(p)
      PROVE  LockTypeOK'
      BY <1>5 DEF Die, Goes
<1>6. CASE Age
      BY <1>6 DEF Age
<1> QED
    BY <1>1, <1>2, <1>3, <1>4, <1>5, <1>6 DEF LockNext, Acquiring

(* What spoils the lock is never forgotten. *)
LEMMA SpoiltStaysSpoilt ==
    ASSUME LockTypeOK, [LockNext]_lockVars, LockKept'
    PROVE  LockKept
<1> USE DEF LockKept, JudgedTwice
<1>1. ASSUME NEW p \in Processes, Look(p) \/ Stat(p)
      PROVE  LockKept
      BY <1>1 DEF Look, Stat, Judges, Readable, At, Goes, LockTypeOK, Locks, LockFiles
<1>2. CASE Age
      BY <1>2 DEF Age
<1>3. ASSUME UNCHANGED <<judged, stalled>>
      PROVE  LockKept
      BY <1>3
<1> QED
    BY <1>1, <1>2, <1>3 DEF LockNext, Acquiring, Enter, Sweep, Create, Collide,
       GiveUp, WriteLock, Finish, Leave, Release, Die, lockVars

LEMMA LockStep ==
    ASSUME LockInv, [LockNext]_lockVars
    PROVE  LockInv'
<1>1. LockTypeOK'
      BY LockTyped DEF LockInv
<1>2. SUFFICES ASSUME LockKept'
               PROVE  (OwnersHaveIt /\ SweepersAreRight /\ OldIsSafe)'
      BY <1>1 DEF LockInv
<1>3. LockKept
      BY <1>2, SpoiltStaysSpoilt DEF LockInv
<1>4. LockTypeOK /\ OwnersHaveIt /\ SweepersAreRight /\ OldIsSafe
      BY <1>3 DEF LockInv
<1> USE <1>1, <1>4 DEF OwnersHaveIt, SweepersAreRight, OldIsSafe, Owning
<1>5. CASE UNCHANGED lockVars
      BY <1>5 DEF lockVars
<1>6. ASSUME NEW p \in Processes,
             Enter(p) \/ Collide(p) \/ GiveUp(p) \/ Finish(p) \/ Leave(p)
      PROVE  (OwnersHaveIt /\ SweepersAreRight /\ OldIsSafe)'
      BY <1>6 DEF Enter, Collide, GiveUp, Finish, Leave, At, Goes, LockTypeOK
<1>7. ASSUME NEW p \in Processes, Look(p) \/ Stat(p)
      PROVE  (OwnersHaveIt /\ SweepersAreRight /\ OldIsSafe)'
      BY <1>7 DEF Look, Stat, Judges, Readable, At, Goes, LockTypeOK, Locks, LockFiles
<1>8. ASSUME NEW p \in Processes, Sweep(p)
      PROVE  (OwnersHaveIt /\ SweepersAreRight /\ OldIsSafe)'
  <2>1. At(p, "sweep") /\ p \in judged[lock.of] /\ lock.of \notin alive
        /\ lock \in LockFiles
        BY <1>8 DEF Sweep, At, LockTypeOK, Locks
  <2>2. \A q \in alive : q # p => pc[q] # "sweep"
        BY <2>1, <1>3 DEF LockKept, JudgedTwice, LockFiles
  <2>3. \A q \in alive : pc[q] \notin Owning
        BY <2>1
  <2> QED
      BY <1>8, <2>1, <2>2, <2>3 DEF Sweep, At, Goes, LockTypeOK
<1>9. ASSUME NEW p \in Processes, Create(p)
      PROVE  (OwnersHaveIt /\ SweepersAreRight /\ OldIsSafe)'
  <2>1. p \in alive /\ pc' = [pc EXCEPT ![p] = "write"] /\ UNCHANGED <<alive, judged>>
        BY <1>9 DEF Create, At, Goes
  <2>2. lock = Nobody
        BY <1>9 DEF Create
  <2>3. lock' # Nobody /\ lock'.of = p /\ ~lock'.old
    <3>1. lock' = [of |-> p, written |-> FALSE, old |-> FALSE]
          BY <1>9 DEF Create
    <3>2. lock' \in LockFiles
          BY <3>1 DEF LockFiles
    <3> QED
        BY <3>1, <3>2, LockAssumption
  <2>4. \A q \in alive : pc[q] \notin Owning /\ pc[q] # "sweep"
        BY <2>2
  <2> QED
      BY <2>1, <2>3, <2>4 DEF LockTypeOK
<1>10. ASSUME NEW p \in Processes, WriteLock(p) \/ Release(p)
       PROVE  (OwnersHaveIt /\ SweepersAreRight /\ OldIsSafe)'
  <2>1. p \in alive /\ pc[p] \in Owning /\ UNCHANGED <<alive, judged>>
        BY <1>10 DEF WriteLock, Release, At, Goes
  <2>2. lock # Nobody /\ lock.of = p
        BY <2>1
  <2>3. \A q \in alive : q # p => pc[q] \notin Owning
        BY <2>2
  <2>4. \A q \in alive : pc[q] # "sweep"
        BY <2>1, <2>2
  <2>5. CASE WriteLock(p)
    <3>1. lock' # Nobody /\ lock'.of = p /\ lock'.written /\ ~lock'.old
      <4>1. lock' = [of |-> p, written |-> TRUE, old |-> FALSE]
            BY <2>2, <2>5 DEF WriteLock
      <4>2. lock' \in LockFiles
            BY <4>1 DEF LockFiles
      <4> QED
          BY <4>1, <4>2, LockAssumption
    <3>2. pc' = [pc EXCEPT ![p] = "inside"]
          BY <2>5 DEF WriteLock, Goes
    <3> QED
        BY <2>1, <2>3, <2>4, <3>1, <3>2 DEF LockTypeOK
  <2>6. CASE Release(p)
        BY <2>1, <2>3, <2>4, <2>6 DEF Release, Goes, LockTypeOK
  <2> QED
      BY <1>10, <2>5, <2>6
<1>11. ASSUME NEW p \in Processes, Die(p)
       PROVE  (OwnersHaveIt /\ SweepersAreRight /\ OldIsSafe)'
       BY <1>11 DEF Die, Goes, LockTypeOK
<1>12. CASE Age
  <2>1. lock \in LockFiles
        BY <1>12 DEF Age, LockTypeOK, Locks
  <2>2. lock' = [lock EXCEPT !.old = TRUE] /\ UNCHANGED <<alive, pc, judged>>
        BY <1>12 DEF Age
  <2>3. lock.of \in alive => lock.written /\ \A p \in alive : pc[p] # "stat"
        BY <1>12, <1>2 DEF Age, Outruns, At, LockKept, LockTypeOK
  <2>4. lock'.of = lock.of /\ lock'.written = lock.written /\ lock' # Nobody
        BY <2>1, <2>2, LockAssumption DEF LockFiles
  <2> QED
      BY <2>1, <2>2, <2>3, <2>4
<1> QED
    BY <1>5, <1>6, <1>7, <1>8, <1>9, <1>10, <1>11, <1>12 DEF LockNext, Acquiring

LEMMA LockStarts == LockInit => LockInv
BY LockAssumption DEF LockInit, LockInv, LockTypeOK, Locks, LockFiles, Places, OwnersHaveIt,
   SweepersAreRight, OldIsSafe, Owning

LEMMA InvGivesOneWriter == LockInv => OneWriter
BY DEF LockInv, OneWriter, OwnersHaveIt, Inside, Owning

(* Nobody works on the source beside another, for any number of processes     *)
(* that come, wait, die and give the lock back in any order and hold it for   *)
(* any time, as long as no lock is judged stale twice and no minute goes by   *)
(* over a living process's lock that it has not written yet, or that another  *)
(* looked at before it was written and has still to ask the age of            *)
(* (withSourceLockSync).                                                      *)
THEOREM LockExcludes == LockSpec => []OneWriter
<1>1. LockSpec => []LockInv
      BY LockStarts, LockStep, PTL DEF LockSpec
<1> QED
    BY <1>1, InvGivesOneWriter, PTL

-----------------------------------------------------------------------------
(* A step of a run is a step of the lock, or leaves it as it is. *)
LEMMA RunsAreLockSteps == [Next]_vars => [LockNext]_lockVars
<1> SUFFICES ASSUME [Next]_vars
             PROVE  [LockNext]_lockVars
    OBVIOUS
<1>1. CASE UNCHANGED vars
      BY <1>1 DEF vars, lockVars
<1>2. ASSUME NEW p \in Processes, Find(p) \/ Locking(p) \/ Refused(p)
      PROVE  [LockNext]_lockVars
      BY <1>2 DEF Find, Locking, Refused, LockNext
<1>3. ASSUME NEW p \in Processes, Leaving(p) \/ Ends(p)
      PROVE  [LockNext]_lockVars
      BY <1>3 DEF Leaving, Ends, LockNext
<1>4. ASSUME NEW p \in Processes,
             \/ \E j \in Jobs : Start(p, j)
             \/ ReadMarked(p) \/ ReadComponent(p) \/ DropComponent(p)
             \/ Truncate(p) \/ Fill(p) \/ Unmount(p) \/ Emit(p)
      PROVE  UNCHANGED lockVars
      BY <1>4 DEF Start, ReadMarked, ReadComponent, DropComponent, Truncate,
         Fill, Unmount, Emit, Inlined
<1>5. CASE LockAges
      BY <1>5 DEF LockAges, LockNext
<1>6. CASE Snapshot \/ Commit \/ RollBack
      BY <1>6 DEF Snapshot, Commit, RollBack
<1> QED
    BY <1>1, <1>2, <1>3, <1>4, <1>5, <1>6 DEF Next, Run

(* The runs of the accept script use the lock as it is meant to be used: what *)
(* holds of the lock alone holds of them (acceptCli).                         *)
THEOREM RunsTakeTheLock == Spec => LockSpec
<1>1. Init => LockInit
      BY DEF Init
<1> QED
    BY <1>1, RunsAreLockSteps, PTL DEF Spec, LockSpec

(* One run of the accept script works on a source file at a time, for any      *)
(* processes, sessions, variants and faults (live-accept.mjs, source-lock.mjs).*)
THEOREM OneWriterHolds == Spec => []OneWriter
BY RunsTakeTheLock, LockExcludes, PTL
-----------------------------------------------------------------------------
(* What the runs keep true of the source, and of the readings of it that are *)
(* about to be written back.                                                 *)

Phases == {"idle", "find", "lock", "write", "fill", "unmount",
           "applied", "unhandled", "told", "done"}

Writing(p) == at[p] \in {"write", "fill"}
Working(p) == at[p] \in {"write", "fill", "unmount"}

Shape ==
    /\ source \in Sources
    /\ components \subseteq Sessions /\ manifests \subseteq components
    /\ receipts \in [Sessions -> Decisions \union {Nobody}]
    /\ job \in [Processes -> Jobs \union {Nobody}]
    /\ at \in [Processes -> Phases]
    /\ view \in [Processes -> Sources]
    /\ kept \in Sources \union {Nobody}
    /\ faults \in 0..MaxFaults
    /\ undone \subseteq Sessions /\ halfway \subseteq components
    /\ \A p \in Processes :
        /\ at[p] \notin {"idle", "told"} => job[p] \in Jobs
        /\ Working(p) => p \in alive /\ pc[p] = "inside"
        /\ Writing(p) /\ view[p] = Torn => job[p].id \in components
        /\ Working(p) /\ job[p].id \in components => job[p].decision # "discard"
        /\ at[p] = "unmount" => job[p].id \in components
        /\ pc[p] \notin {"outside", "look", "stat", "sweep", "open"} =>
              at[p] \in {"lock", "write", "fill", "unmount", "applied", "unhandled"}
        /\ pc[p] \in {"look", "stat", "sweep", "open"} => at[p] = "lock"

Outcome(d) == IF d = "discard" THEN "original" ELSE d

(* A text shows what receipts say, and what was applied and has no receipt    *)
(* yet; a component whose preview is still there is still to be put in.       *)
Told(text) ==
    \A s \in Sessions \ (undone \union components) :
        receipts[s] # Nobody => text[s] = Outcome(receipts[s])

Done(text) ==
    \A p \in Processes :
        Applies(p) /\ job[p].id \notin undone \union components
        => text[job[p].id] = Outcome(job[p].decision)

Mounted(text) ==
    \A s \in components \ (undone \union halfway) :
        s \in manifests /\ (\A p \in Processes : at[p] = "unmount" => job[p].id # s)
        => text[s] = "open"

Single(text) ==
    \A s \in Sessions \ undone : text[s] = "doubled" => s \in halfway

Faithful(text) == Told(text) /\ Done(text) /\ Mounted(text) /\ Single(text)

(* What a run is about to decide is still undecided. *)
Due(p) == IF job[p].id \in components THEN job[p].id \in manifests
                                      ELSE view[p][job[p].id] = "open"

Reading(p) == (view[p] # Torn => Faithful(view[p])) /\ Due(p)

Kept ==
    /\ source # Torn => Faithful(source)
    /\ \A p \in Processes : Writing(p) => Reading(p)
    /\ \A p \in Processes : at[p] = "unmount" => job[p].id \in manifests
    /\ \A p \in Processes :
        Applies(p) /\ job[p].id \in components /\ job[p].decision # "discard"
        => job[p].id \notin manifests \/ job[p].id \in halfway
    /\ \A p, q \in Processes :
        p # q /\ Applies(p) /\ Applies(q) /\ job[p].id = job[q].id
        => \/ job[p].id \in undone \union halfway
           \/ job[p].id \in components /\ "discard" \in {job[p].decision, job[q].decision}

RunInv == Shape /\ (LockKept => Kept)

-----------------------------------------------------------------------------
LEMMA ShapeStarts == Init => Shape
BY ScriptAssumption DEF LockInit,  Init, Shape, Sources, States, Phases, Working, Writing, Decisions

(* A run's first steps, its steps that only move it on, and its end. *)
LEMMA ShapeBegins ==
    ASSUME Shape, NEW p \in Processes, LockTypeOK,
           (\E j \in Jobs : Start(p, j)) \/ Find(p) \/ Refused(p) \/ Emit(p)
    PROVE  Shape'
<1> USE DEF Shape, Working, Writing, Phases, Becomes, Tells, LockTypeOK
<1>1. ASSUME NEW j \in Jobs, Start(p, j)
      PROVE  Shape'
      BY <1>1 DEF Start, ScriptAt, lockVars
<1>2. CASE Find(p)
      BY <1>2 DEF Find, ScriptAt, Enter, At, Goes, lockVars
<1>3. CASE Refused(p)
      BY <1>3 DEF Refused, GiveUp, At, Goes
<1>4. CASE Emit(p)
      BY <1>4 DEF Emit, At, lockVars, Jobs
<1> QED
    BY <1>1, <1>2, <1>3, <1>4

LEMMA ShapeLocks ==
    ASSUME Shape, NEW p \in Processes, LockTypeOK, Locking(p) \/ Leaving(p)
    PROVE  Shape'
<1> USE DEF Shape, Working, Writing, LockTypeOK, scriptVars
<1>1. ASSUME Look(p) \/ Stat(p) \/ Sweep(p) \/ Create(p) \/ Collide(p) \/ WriteLock(p),
             UNCHANGED scriptVars
      PROVE  Shape'
      BY <1>1 DEF Look, Stat, Judges, Sweep, Create, Collide, WriteLock, At, Goes
<1>2. CASE Leaving(p)
      BY <1>2 DEF Leaving, Finish, Leave, Release, At, Goes
<1> QED
    BY <1>1, <1>2 DEF Locking, Acquiring

LEMMA FaultsAreCounted ==
    ASSUME faults \in 0..MaxFaults, Fault \/ UNCHANGED faults
    PROVE  faults' \in 0..MaxFaults
BY ScriptAssumption DEF Fault

LEMMA ShapeReads ==
    ASSUME Shape, NEW p \in Processes, LockTypeOK,
           ReadMarked(p) \/ ReadComponent(p) \/ DropComponent(p)
    PROVE  Shape'
<1> USE DEF Shape, Working, Writing, Phases, Becomes, LockTypeOK, Inlined, At, lockVars
<1>1. CASE ReadMarked(p)
      BY <1>1 DEF ReadMarked, Reads, Marked
<1>2. CASE ReadComponent(p)
      BY <1>2 DEF ReadComponent, Reads
<1>3. CASE DropComponent(p)
  <2>1. faults' \in 0..MaxFaults
        BY <1>3, FaultsAreCounted DEF DropComponent, Removes
  <2>2. manifests' \subseteq manifests
        BY <1>3 DEF DropComponent, Removes
  <2> QED
      BY <1>3, <2>1, <2>2 DEF DropComponent
<1> QED
    BY <1>1, <1>2, <1>3

LEMMA DecidedIsAState ==
    ASSUME NEW j \in Jobs, NEW before, j.id \in components => j.decision # "discard"
    PROVE  Decided(before, j) \in States
BY DEF Decided, States, Jobs, Decisions

LEMMA ShapeWrites ==
    ASSUME Shape, NEW p \in Processes, LockTypeOK,
           Truncate(p) \/ Fill(p) \/ Unmount(p)
    PROVE  Shape'
<1> USE DEF Shape, Working, Writing, Phases, Becomes, LockTypeOK, Inlined, At, lockVars
<1>1. CASE Truncate(p)
      BY <1>1 DEF Truncate, Sources
<1>2. CASE Fill(p)
  <2>1. job[p] \in Jobs
        BY <1>2 DEF Fill
  <2>2. Decided(view[p][job[p].id], job[p]) \in States
        BY <2>1, <1>2, DecidedIsAState DEF Fill
  <2>3. source' \in Sources
    <3>1. CASE view[p] = Torn
          BY <1>2, <3>1 DEF Fill, Sources
    <3>2. CASE view[p] # Torn
          BY <1>2, <2>1, <2>2, <3>2 DEF Fill, Sources
    <3> QED
        BY <3>1, <3>2
  <2> QED
      BY <1>2, <2>1, <2>3 DEF Fill, Sources
<1>3. CASE Unmount(p)
  <2>1. faults' \in 0..MaxFaults
        BY <1>3, FaultsAreCounted DEF Unmount, Removes
  <2>2. manifests' \subseteq manifests /\ halfway' \subseteq components
        BY <1>3 DEF Unmount, Removes
  <2> QED
      BY <1>3, <2>1, <2>2 DEF Unmount
<1> QED
    BY <1>1, <1>2, <1>3

LEMMA ShapeFails ==
    ASSUME Shape, LockTypeOK,
           (\E p \in Processes : Ends(p)) \/ LockAges \/ Snapshot \/ Commit \/ RollBack
    PROVE  Shape'
<1> USE DEF Shape, Working, Writing, Phases, Becomes, Tells, LockTypeOK, lockVars
<1>1. ASSUME NEW p \in Processes, Ends(p)
      PROVE  Shape'
  <2>1. faults' \in 0..MaxFaults
        BY <1>1, FaultsAreCounted DEF Ends
  <2>2. halfway' \subseteq components'
        BY <1>1 DEF Ends
  <2> QED
      BY <1>1, <2>1, <2>2 DEF Ends, Die, Goes, Sources
<1>2. CASE LockAges
  <2>1. faults' \in 0..MaxFaults
        BY <1>2, FaultsAreCounted DEF LockAges
  <2> QED
      BY <1>2, <2>1 DEF LockAges, Age
<1>3. CASE Snapshot \/ Commit
  <2>1. faults' \in 0..MaxFaults
        BY <1>3, FaultsAreCounted DEF Snapshot, Commit
  <2> QED
      BY <1>3, <2>1 DEF Snapshot, Commit
<1>4. CASE RollBack
      BY <1>4 DEF RollBack
<1> QED
    BY <1>1, <1>2, <1>3, <1>4

LEMMA ShapeStep ==
    ASSUME Shape, LockTypeOK, [Next]_vars
    PROVE  Shape'
<1>1. CASE UNCHANGED vars
      BY <1>1 DEF vars, lockVars, scriptVars, Shape, Working, Writing
<1> QED
    BY <1>1, ShapeBegins, ShapeLocks, ShapeReads, ShapeWrites, ShapeFails
       DEF Next, Run
-----------------------------------------------------------------------------
(* A text that is faithful stays so while nothing more is claimed of it. *)
LEMMA FaithfulStays ==
    ASSUME Shape, NEW text, Faithful(text), components' = components,
           undone \subseteq undone', halfway \subseteq halfway',
           manifests' \subseteq manifests,
           \A s \in Sessions \ (undone \union components) : receipts'[s] = receipts[s],
           \A q \in Processes : Applies(q)' => Applies(q) /\ job'[q] = job[q],
           \A q \in Processes : at[q] = "unmount" =>
               \/ at'[q] = "unmount" /\ job'[q] = job[q]
               \/ job[q].id \in halfway' \/ job[q].id \notin manifests'
    PROVE  Faithful(text)'
<1>1. Told(text)'
      BY DEF Faithful, Told
<1>2. Done(text)'
      BY DEF Faithful, Done, Applies
<1>3. Mounted(text)'
      BY DEF Faithful, Mounted
<1>4. Single(text)'
      BY DEF Faithful, Single
<1> QED
    BY <1>1, <1>2, <1>3, <1>4 DEF Faithful

(* A step that neither claims anything nor touches the file. *)
LEMMA KeptUndisturbed ==
    ASSUME Shape, Kept,
           UNCHANGED <<source, manifests, receipts, components, undone, halfway>>,
           \A q \in Processes : Applies(q)' => Applies(q) /\ job'[q] = job[q],
           \A q \in Processes : Writing(q)' =>
               Writing(q) /\ job'[q] = job[q] /\ view'[q] = view[q],
           \A q \in Processes : at[q] = "unmount" \/ at'[q] = "unmount" =>
               at'[q] = at[q] /\ job'[q] = job[q]
    PROVE  Kept'
<1>1. \A text : Faithful(text) => Faithful(text)'
      BY FaithfulStays
<1>2. (source # Torn => Faithful(source))'
      BY <1>1 DEF Kept
<1>3. (\A p \in Processes : Writing(p) => Reading(p))'
      BY <1>1 DEF Kept, Reading, Due
<1> QED
    BY <1>2, <1>3 DEF Kept, Applies
-----------------------------------------------------------------------------
(* The steps of the runs, one by one. *)

LEMMA KeptBegins ==
    ASSUME Shape, Kept, NEW p \in Processes,
           \/ \E j \in Jobs : Start(p, j)
           \/ Find(p) \/ Locking(p) \/ Refused(p) \/ Leaving(p)
    PROVE  Kept'
<1> USE KeptUndisturbed DEF Shape, Writing, Working, Phases, Applies, Becomes, Tells
<1>1. ASSUME NEW j \in Jobs, Start(p, j)
      PROVE  Kept'
      BY <1>1 DEF Start, ScriptAt
<1>2. CASE Find(p)
      BY <1>2 DEF Find, ScriptAt
<1>3. CASE Locking(p) \/ Leaving(p)
      BY <1>3 DEF Locking, Leaving, scriptVars
<1>4. CASE Refused(p)
      BY <1>4 DEF Refused, GiveUp, At
<1> QED
    BY <1>1, <1>2, <1>3, <1>4

LEMMA KeptReads ==
    ASSUME Shape, Kept, NEW p \in Processes,
           ReadMarked(p) \/ ReadComponent(p)
    PROVE  Kept'
<1> USE DEF Shape, Writing, Working, Phases, Applies, Becomes, Inlined, Reads
<1>1. CASE at'[p] # "write"
      BY <1>1, KeptUndisturbed DEF ReadMarked, ReadComponent
<1>2. CASE at'[p] = "write"
  <2>1. /\ at' = [at EXCEPT ![p] = "write"] /\ at[p] = "lock"
        /\ view' = [view EXCEPT ![p] = source]
        /\ UNCHANGED <<source, manifests, receipts, job, components, undone, halfway>>
        BY <1>2 DEF ReadMarked, ReadComponent, Marked
  <2>2. Due(p)'
        BY <1>2, <2>1 DEF ReadMarked, ReadComponent, Marked, Due
  <2>3. \A text : Faithful(text) => Faithful(text)'
        BY <2>1, FaithfulStays
  <2>4. (source # Torn => Faithful(source))' /\ Reading(p)'
        BY <2>1, <2>2, <2>3 DEF Kept, Reading
  <2>5. \A q \in Processes : q # p /\ Writing(q)' => Reading(q)'
        BY <2>1, <2>3 DEF Kept, Reading, Due
  <2> QED
      BY <2>1, <2>4, <2>5 DEF Kept
<1> QED
    BY <1>1, <1>2

(* Nobody else is at work beside a run that holds the lock. *)
LEMMA AloneAtWork ==
    ASSUME Shape, OneWriter, LockKept, NEW p \in Processes, At(p, "inside")
    PROVE  \A q \in Processes : Working(q) => q = p
BY DEF Shape, OneWriter, Inside, At

LEMMA KeptDrops ==
    ASSUME Shape, Kept, OneWriter, LockKept, NEW p \in Processes,
           DropComponent(p)
    PROVE  Kept'
<1> USE DEF Shape, Writing, Working, Phases, Applies, Becomes
<1>1. /\ at' = [at EXCEPT ![p] = "applied"] /\ at[p] = "lock"
      /\ manifests' \in {manifests, manifests \ {job[p].id}}
      /\ job[p].decision = "discard" /\ job[p].id \in components
      /\ UNCHANGED <<source, receipts, job, view, components, undone, halfway>>
      BY DEF DropComponent, Removes
<1>2. \A q \in Processes : ~Working(q)
      BY <1>1, AloneAtWork DEF DropComponent, Inlined
<1>3. \A q \in Processes : ~Working(q)'
      BY <1>1, <1>2
<1>4. source # Torn => Faithful(source)'
      BY <1>1, <1>2 DEF Kept, Faithful, Told, Done, Mounted, Single
<1> QED
    BY <1>1, <1>3, <1>4 DEF Kept

LEMMA KeptTruncates ==
    ASSUME Shape, Kept, OneWriter, LockKept, NEW p \in Processes,
           Truncate(p)
    PROVE  Kept'
<1> USE DEF Shape, Writing, Working, Phases, Applies, Becomes
<1>1. /\ at' = [at EXCEPT ![p] = "fill"] /\ at[p] = "write" /\ source' = Torn
      /\ UNCHANGED <<manifests, receipts, job, view, components, undone, halfway>>
      BY DEF Truncate
<1>2. \A text : Faithful(text) => Faithful(text)'
      BY <1>1, FaithfulStays
<1>3. (\A q \in Processes : Writing(q) => Reading(q))'
      BY <1>1, <1>2 DEF Kept, Reading, Due
<1> QED
    BY <1>1, <1>3 DEF Kept

LEMMA KeptUnmounts ==
    ASSUME Shape, Kept, OneWriter, LockKept, NEW p \in Processes,
           Unmount(p)
    PROVE  Kept'
<1> USE DEF Shape, Writing, Working, Phases, Applies, Becomes
<1>1. /\ at' = [at EXCEPT ![p] = "applied"] /\ at[p] = "unmount"
      /\ \/ manifests' = manifests \ {job[p].id} /\ halfway' = halfway
         \/ manifests' = manifests /\ halfway' = halfway \union {job[p].id}
      /\ job[p].id \in components
      /\ UNCHANGED <<source, receipts, job, view, components, undone>>
      BY DEF Unmount, Removes, Kept
<1>2. \A q \in Processes : Working(q) => q = p
      BY AloneAtWork DEF Unmount, Inlined
<1>3. \A q \in Processes : ~Working(q)'
      BY <1>1, <1>2
<1>4. source # Torn => Faithful(source)'
      BY <1>1, <1>2 DEF Kept, Faithful, Told, Done, Mounted, Single
<1>5. \A q \in Processes : q # p /\ Applies(q) /\ job[q].id = job[p].id =>
          \/ job[p].id \in halfway
          \/ "discard" \in {job[p].decision, job[q].decision}
      BY <1>1 DEF Kept
<1> QED
    BY <1>1, <1>3, <1>4, <1>5 DEF Kept

LEMMA KeptEmits ==
    ASSUME Shape, Kept, NEW p \in Processes, Emit(p)
    PROVE  Kept'
<1> USE DEF Shape, Writing, Working, Phases, Applies, Becomes, Tells
<1>1. CASE at[p] = "unhandled"
      BY <1>1, KeptUndisturbed DEF Emit
<1>2. CASE at[p] = "applied"
  <2>1. /\ at' = [at EXCEPT ![p] = "done"]
        /\ receipts' = [receipts EXCEPT ![job[p].id] = job[p].decision]
        /\ job[p] \in Jobs
        /\ UNCHANGED <<source, manifests, job, view, components, undone, halfway>>
        BY <1>2 DEF Emit
  <2>2. \A text : Faithful(text) => Faithful(text)'
        BY <1>2, <2>1 DEF Faithful, Told, Done, Mounted, Single, Jobs
  <2>3. (source # Torn => Faithful(source))'
        BY <2>1, <2>2 DEF Kept
  <2>4. (\A q \in Processes : Writing(q) => Reading(q))'
        BY <1>2, <2>1, <2>2 DEF Kept, Reading, Due
  <2> QED
      BY <1>2, <2>1, <2>3, <2>4 DEF Kept
<1> QED
    BY <1>1, <1>2 DEF Emit

LEMMA KeptFails ==
    ASSUME Shape, Kept,
           (\E p \in Processes : Ends(p)) \/ LockAges \/ Snapshot \/ Commit
    PROVE  Kept'
<1> USE DEF Shape, Writing, Working, Phases, Applies, Becomes, Tells
<1>1. ASSUME NEW p \in Processes, Ends(p)
      PROVE  Kept'
  <2>1. /\ at' = [at EXCEPT ![p] = "told"] /\ job' = [job EXCEPT ![p] = Nobody]
        /\ view' = [view EXCEPT ![p] = Torn]
        /\ halfway' = IF at[p] = "unmount" THEN halfway \union {job[p].id} ELSE halfway
        /\ UNCHANGED <<source, manifests, receipts, components, undone>>
        BY <1>1 DEF Ends
  <2>2. \A text : Faithful(text) => Faithful(text)'
        BY <2>1, FaithfulStays
  <2>3. (source # Torn => Faithful(source))'
        BY <2>1, <2>2 DEF Kept
  <2>4. (\A q \in Processes : Writing(q) => Reading(q))'
        BY <2>1, <2>2 DEF Kept, Reading, Due
  <2> QED
      BY <2>1, <2>3, <2>4 DEF Kept
<1>2. CASE LockAges \/ Snapshot \/ Commit
      BY <1>2, KeptUndisturbed DEF LockAges, Snapshot, Commit
<1> QED
    BY <1>1, <1>2
(* The write itself: the text that was read, with one more decision in it. *)
LEMMA KeptFills ==
    ASSUME Shape, Kept, OneWriter, LockKept, NEW p \in Processes,
           Fill(p)
    PROVE  Kept'
<1> USE DEF Shape, Writing, Working, Phases, Applies, Becomes
<1> DEFINE id == job[p].id
           then == IF id \in components THEN "unmount" ELSE "applied"
<1>1. /\ at' = [at EXCEPT ![p] = then] /\ at[p] = "fill"
      /\ view' = [view EXCEPT ![p] = Torn]
      /\ UNCHANGED <<manifests, receipts, job, components, undone, halfway>>
      BY DEF Fill
<1>2. job[p] \in Jobs /\ id \in Sessions /\ job[p].decision \in Decisions
      BY <1>1 DEF Jobs
<1>4. \A q \in Processes : Working(q) => q = p
      BY AloneAtWork DEF Fill, Inlined
<1>5. \A q \in Processes : ~Writing(q)'
      BY <1>1, <1>4
<1>6. Reading(p)
      BY <1>1 DEF Kept
<1>torn. CASE view[p] = Torn
  <2>1. id \in components /\ source' = Torn
        BY <1>1, <1>torn DEF Fill
  <2>2. id \in manifests
        BY <1>6, <2>1 DEF Reading, Due
  <2> QED
      BY <1>1, <1>5, <2>1, <2>2 DEF Kept
<1> SUFFICES ASSUME view[p] # Torn PROVE Kept'
    BY <1>torn
<1>2a. view[p] \in [Sessions -> States]
       BY DEF Sources
<1>3. source' = [view[p] EXCEPT ![id] = Decided(view[p][id], job[p])]
      BY <1>1 DEF Fill
<1>6a. Faithful(view[p]) /\ Due(p)
       BY <1>6 DEF Reading
<1>7. \A d \in Decisions : Outcome(d) \notin {"open", "doubled"}
      BY ScriptAssumption DEF Decisions, Outcome
<1>8. CASE id \notin components
  <2>1. view[p][id] = "open" /\ source'[id] = Outcome(job[p].decision)
        BY <1>2, <1>2a, <1>3, <1>6a, <1>8 DEF Due, Decided, Outcome
  <2>2. \A s \in Sessions : s # id => source'[s] = view[p][s]
        BY <1>2, <1>2a, <1>3
  <2>3. id \in undone \/ receipts[id] = Nobody
        BY <1>2, <1>2a, <1>6a, <1>7, <1>8, <2>1 DEF Faithful, Told
  <2>4. \A q \in Processes : Applies(q) /\ job[q].id = id => id \in undone
    <3>1. \A q \in Processes : Applies(q) => job[q].decision \in Decisions
          BY DEF Jobs
    <3> QED
        BY <1>6a, <1>7, <1>8, <2>1, <3>1 DEF Faithful, Done
  <2>5. Told(source)'
        BY <1>1, <1>6a, <1>8, <2>2, <2>3 DEF Faithful, Told
  <2>6. Done(source)'
    <3>1. \A q \in Processes : Applies(q)' => job[q].id \in Sessions
          BY <1>1, <1>2, <1>2a, <1>8 DEF Jobs
    <3> QED
        BY <1>1, <1>6a, <1>8, <2>1, <2>2, <2>4, <3>1 DEF Faithful, Done
  <2>7. Mounted(source)'
        BY <1>1, <1>6a, <1>8, <2>2 DEF Faithful, Mounted
  <2>8. Single(source)'
        BY <1>1, <1>2, <1>2a, <1>6a, <1>7, <2>1, <2>2 DEF Faithful, Single
  <2>9. (\A q, r \in Processes :
            q # r /\ Applies(q) /\ Applies(r) /\ job[q].id = job[r].id
            => \/ job[q].id \in undone \union halfway
               \/ job[q].id \in components /\ "discard" \in {job[q].decision, job[r].decision})'
        BY <1>1, <1>8, <2>4 DEF Kept
  <2>10. (\A q \in Processes : at[q] = "unmount" => job[q].id \in manifests)'
         BY <1>1, <1>8 DEF Kept
  <2>11. (\A q \in Processes :
             Applies(q) /\ job[q].id \in components /\ job[q].decision # "discard"
             => job[q].id \notin manifests \/ job[q].id \in halfway)'
         BY <1>1, <1>8 DEF Kept
  <2> QED
      BY <1>5, <2>5, <2>6, <2>7, <2>8, <2>9, <2>10, <2>11 DEF Kept, Faithful
<1>9. CASE id \in components
  <2>1. id \in manifests
        BY <1>6a, <1>9 DEF Due
  <2>2. \A s \in Sessions : s # id => source'[s] = view[p][s]
        BY <1>2, <1>2a, <1>3
  <2>3. Told(source)' /\ Done(source)'
    <3>1. \A q \in Processes : Applies(q) => job[q].id \in Sessions
          BY DEF Jobs
    <3> QED
        BY <1>1, <1>6a, <1>9, <2>2, <3>1 DEF Faithful, Told, Done
  <2>4. Mounted(source)'
        BY <1>1, <1>6a, <1>9, <2>2 DEF Faithful, Mounted
  <2>5. id \in undone \union halfway \/ source'[id] # "doubled"
    <3>1. \A q \in Processes : at[q] # "unmount"
          BY <1>1, <1>4
    <3>2. id \in undone \union halfway \/ view[p][id] = "open"
          BY <1>6a, <1>9, <2>1, <3>1 DEF Faithful, Mounted
    <3>3. job[p].decision # "doubled"
          BY <1>2, <1>2a, ScriptAssumption DEF Decisions
    <3> QED
        BY <1>2, <1>2a, <1>3, <1>9, <3>2, <3>3 DEF Decided
  <2>6. Single(source)'
        BY <1>1, <1>6a, <2>2, <2>5 DEF Faithful, Single
  <2> QED
      BY <1>1, <1>5, <1>9, <2>1, <2>3, <2>4, <2>6 DEF Kept, Faithful
<1> QED
    BY <1>8, <1>9

(* A rollback owns up to every session it changes. *)
LEMMA KeptRollsBack ==
    ASSUME Shape, Kept, RollBack
    PROVE  Kept'
<1> USE DEF Shape, Writing, Working, Phases, Applies
<1>1. /\ source' = kept
      /\ undone' = undone \union
            {s \in Sessions : kept = Torn \/ source = Torn \/ kept[s] # source[s]}
      /\ UNCHANGED <<manifests, receipts, job, at, view, components, halfway>>
      BY DEF RollBack
<1>2. \A text : Faithful(text) => Faithful(text)'
      BY <1>1, FaithfulStays
<1>3. (\A q \in Processes : Writing(q) => Reading(q))'
      BY <1>1, <1>2 DEF Kept, Reading, Due
<1>4. (source # Torn => Faithful(source))'
  <2>1. CASE source = Torn
    <3>1. Sessions \ undone' = {}
          BY <1>1, <2>1
    <3>2. \A q \in Processes : Applies(q) => job[q].id \in undone'
          BY <3>1 DEF Jobs
    <3> QED
        BY <1>1, <3>1, <3>2 DEF Faithful, Told, Done, Mounted, Single
  <2>2. CASE source # Torn
    <3>1. Faithful(source)
          BY <2>2 DEF Kept
    <3>2. \A s \in Sessions \ undone' : kept[s] = source[s]
          BY <1>1
    <3>3. Told(source)' /\ Mounted(source)' /\ Single(source)'
          BY <1>1, <3>1, <3>2 DEF Faithful, Told, Mounted, Single
    <3>4. \A q \in Processes : Applies(q) => job[q].id \in Sessions
          BY DEF Jobs
    <3>5. Done(source)'
          BY <1>1, <3>1, <3>2, <3>4 DEF Faithful, Done
    <3> QED
        BY <3>3, <3>5 DEF Faithful
  <2> QED
      BY <2>1, <2>2
<1> QED
    BY <1>1, <1>3, <1>4 DEF Kept

-----------------------------------------------------------------------------
Inv == LockInv /\ RunInv

LEMMA InvStarts == Init => Inv
<1> SUFFICES ASSUME Init PROVE Inv
    OBVIOUS
<1>1. Shape
      BY ShapeStarts
<1>2. Kept
      BY ScriptAssumption DEF Init, Kept, Writing, Applies, Faithful, Told, Done, Mounted, Single
<1> QED
    BY <1>1, <1>2, LockStarts DEF Inv, RunInv, Init

LEMMA InvStep == Inv /\ [Next]_vars => Inv'
<1> SUFFICES ASSUME Inv, [Next]_vars PROVE Inv'
    OBVIOUS
<1>1. LockInv' /\ Shape'
      BY LockStep, RunsAreLockSteps, ShapeStep DEF Inv, RunInv, LockInv
<1>2. ASSUME LockKept'
      PROVE  Kept'
  <2>1. LockKept
        BY <1>2, SpoiltStaysSpoilt, RunsAreLockSteps DEF Inv, LockInv
  <2>2. Shape /\ Kept /\ OneWriter
        BY <2>1, InvGivesOneWriter DEF Inv, RunInv
  <2>3. CASE UNCHANGED vars
        BY <2>2, <2>3, KeptUndisturbed DEF vars, scriptVars, Applies, Writing
  <2> QED
      BY <2>1, <2>2, <2>3, KeptBegins, KeptReads, KeptDrops, KeptTruncates, KeptFills,
         KeptUnmounts, KeptEmits, KeptFails, KeptRollsBack DEF Next, Run
<1> QED
    BY <1>1, <1>2 DEF Inv, RunInv

LEMMA InvHolds == Spec => []Inv
BY InvStarts, InvStep, PTL DEF Spec

(* What a receipt says of a session is what the file shows, for any number of *)
(* runs, sessions and faults: no run writes back a text it read before        *)
(* another's write (handleAccept, handleDiscard, emitResult).                 *)
THEOREM ReceiptsHoldHolds == Spec => []ReceiptsHold
<1>1. Inv => ReceiptsHold
      BY DEF Inv, RunInv, Kept, Faithful, Told, Outcome, ReceiptsHold
<1> QED
    BY <1>1, InvHolds, PTL

(* A component is put in twice only after a run that had written the source   *)
(* left its preview there, ended before it could remove it or going on when   *)
(* it could not (inlineSvelteComponentAccept, removeSvelteComponentSession).  *)
THEOREM DoubledWhenLeftBehindHolds == Spec => []DoubledWhenLeftBehind
<1>1. Inv => DoubledWhenLeftBehind
      BY DEF Inv, RunInv, Kept, Faithful, Single, DoubledWhenLeftBehind
<1> QED
    BY <1>1, InvHolds, PTL

(* No session is applied by two runs, whatever each of them saw before it     *)
(* waited for the lock (acceptCli).                                           *)
THEOREM AppliedOnceHolds == Spec => []AppliedOnce
<1>1. Inv => AppliedOnce
      BY DEF Inv, RunInv, Kept, AppliedOnce
<1> QED
    BY <1>1, InvHolds, PTL

(* Every variable keeps its type, and whoever holds the lock is in its        *)
(* critical section or about to say what came of it.                          *)
THEOREM TypeCorrect == Spec => []TypeOK
<1>1. Inv => TypeOK
      BY DEF Inv, LockInv, RunInv, Shape, Phases, TypeOK
<1> QED
    BY <1>1, InvHolds, PTL
=============================================================================
