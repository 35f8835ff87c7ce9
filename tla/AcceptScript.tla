--------------------------- MODULE AcceptScript ---------------------------
(***************************************************************************)
(* The runs of live mode's accept script on one source file               *)
(* (live-accept.mjs, live/svelte-component.mjs) and the one other writer   *)
(* that rewrites that file: the rollback of a manual edit                *)
(* (live/manual-apply.mjs), which does not take the lock.                   *)
(*                                                                         *)
(* A run is a process: it looks for a receipt of its session, looks for    *)
(* the session in the source, takes the lock, reads the source again,      *)
(* writes it back changed, gives the lock back and writes its receipt.     *)
(* fs.writeFileSync empties the file before it fills it.  The poller ends a *)
(* run after thirty seconds wherever it is, and an agent may start another.*)
(*                                                                         *)
(* The source is one place per session: "open" while the session is         *)
(* undecided, "original" or a variant once it is decided, "doubled" when an *)
(* accepted component has been put in twice.  A session whose preview       *)
(* mounts component modules leaves the source alone until it is accepted,   *)
(* and is known by its manifest.  Its preview is one thing here: where a    *)
(* removal fails part way, a run that has found the manifest before finds   *)
(* the module there or gone, as after one that failed or succeeded.         *)
(***************************************************************************)
EXTENDS SourceLock, Naturals, FiniteSets

CONSTANTS Sessions, Variants,
          Torn,          \* the source while its text is gone: emptied and not
                         \* filled, or filled from what was read of that
          MaxFaults      \* bound: runs that die, minutes that outrun a living
                         \* run's lock, removals that fail, and manual edits

ASSUME ScriptAssumption ==
    /\ "discard" \notin Variants
    /\ {"open", "original", "doubled"} \intersect Variants = {}
    /\ MaxFaults \in Nat

VARIABLES
    source,     \* the file
    manifests,  \* component sessions whose preview is still there
    receipts,   \* session -> what its receipt says: an accepted variant,
                \* "discard", or Nobody
    job,        \* process -> the session and the decision it carries out
    at,         \* process -> where it is in acceptCli
    view,       \* process -> the source as it has read it
    kept,       \* the copy a rollback would restore, or Nobody
    faults,     \* bound: what has happened of these so far
    components, \* the sessions that mount component modules
    undone,     \* history: sessions a rollback has put back
    halfway     \* history: accepted components whose preview was left behind

scriptVars == <<source, manifests, receipts, job, at, view, kept, faults,
                components, undone, halfway>>
vars == <<lockVars, scriptVars>>

Decisions == Variants \union {"discard"}
Jobs == [id : Sessions, decision : Decisions]
States == {"open", "original", "doubled"} \union Variants
Sources == [Sessions -> States] \union {Torn}

TypeOK ==
    /\ LockTypeOK
    /\ source \in Sources
    /\ manifests \subseteq components /\ components \subseteq Sessions
    /\ receipts \in [Sessions -> Decisions \union {Nobody}]
    /\ \A p \in Processes :
        /\ job[p] \in Jobs \union {Nobody}
        /\ at[p] \in {"idle", "find", "lock", "write", "fill", "unmount",
                      "applied", "unhandled", "told", "done"}
        /\ view[p] \in Sources
        /\ pc[p] \in {"write", "inside", "leave", "unlink"} =>
              at[p] \in {"lock", "write", "fill", "unmount", "applied", "unhandled"}
    /\ kept \in Sources \union {Nobody}
    /\ faults \in 0..MaxFaults
    /\ undone \subseteq Sessions /\ halfway \subseteq components

Init ==
    /\ LockInit
    /\ source = [s \in Sessions |-> "open"]
    /\ components \in SUBSET Sessions /\ manifests = components
    /\ receipts = [s \in Sessions |-> Nobody]
    /\ job = [p \in Processes |-> Nobody]
    /\ at = [p \in Processes |-> "idle"]
    /\ view = [p \in Processes |-> Torn]
    /\ kept = Nobody /\ faults = 0
    /\ undone = {} /\ halfway = {}

ScriptAt(p, place) == p \in alive /\ at[p] = place

Becomes(p, place) == at' = [at EXCEPT ![p] = place]

(* The poller is told that this run has applied nothing. *)
Tells(p) == Becomes(p, "told") /\ job' = [job EXCEPT ![p] = Nobody]

-----------------------------------------------------------------------------
(* Before the lock. *)

(* A receipt of the same decision answers for it, one of another refuses it: *)
(* either way nothing is done.                                               *)
Start(p, j) ==
    /\ ScriptAt(p, "idle")
    /\ IF receipts[j.id] = Nobody
       THEN Becomes(p, "find") /\ job' = [job EXCEPT ![p] = j]
       ELSE Tells(p)
    /\ UNCHANGED <<lockVars, source, manifests, receipts, view, kept, faults,
                   components, undone, halfway>>

(* The session's markers in a reading of the source. *)
Marked(text, id) == text # Torn /\ text[id] = "open" /\ id \notin components

(* Mutant form: a run that has found nothing goes on after saying so. *)
FindAnyway(p) ==
    /\ ScriptAt(p, "find") /\ Enter(p)
    /\ IF Marked(source, job[p].id) \/ job[p].id \in manifests
       THEN Becomes(p, "lock") /\ UNCHANGED job ELSE Tells(p)
    /\ UNCHANGED <<source, manifests, receipts, view, kept, faults, components,
                   undone, halfway>>

(* findSessionFile, and failing that the manifest of a component session. *)
Find(p) ==
    /\ ScriptAt(p, "find")
    /\ IF Marked(source, job[p].id) \/ job[p].id \in manifests
       THEN Becomes(p, "lock") /\ Enter(p) /\ UNCHANGED job
       ELSE Tells(p) /\ UNCHANGED lockVars
    /\ UNCHANGED <<source, manifests, receipts, view, kept, faults, components,
                   undone, halfway>>

Locking(p) == Acquiring(p) /\ UNCHANGED scriptVars

Refused(p) ==
    /\ GiveUp(p) /\ Tells(p)
    /\ UNCHANGED <<source, manifests, receipts, view, kept, faults, components,
                   undone, halfway>>

-----------------------------------------------------------------------------
(* Under the lock. *)

Inlined(p) == At(p, "inside") /\ UNCHANGED lockVars

(* The session is still to be decided in what p reads now, or it is not. *)
Reads(p, due) ==
    /\ Becomes(p, IF due THEN "write" ELSE "unhandled")
    /\ view' = IF due THEN [view EXCEPT ![p] = source] ELSE view

(* Mutant form: markers that are gone are as good as applied. *)
ReadMarkedGone(p) ==
    /\ Inlined(p) /\ at[p] = "lock" /\ job[p].id \notin components
    /\ IF Marked(source, job[p].id)
       THEN Reads(p, TRUE) ELSE Becomes(p, "applied") /\ UNCHANGED view
    /\ UNCHANGED <<source, manifests, receipts, job, kept, faults, components,
                   undone, halfway>>

(* A session of markers: they must still be there. *)
ReadMarked(p) ==
    /\ Inlined(p) /\ at[p] = "lock" /\ job[p].id \notin components
    /\ Reads(p, Marked(source, job[p].id))
    /\ UNCHANGED <<source, manifests, receipts, job, kept, faults,
                   components, undone, halfway>>

(* Mutant form: the manifest found before the lock is as good as the module. *)
ReadComponentAnyway(p) ==
    /\ Inlined(p) /\ at[p] = "lock" /\ job[p].id \in components
    /\ job[p].decision # "discard"
    /\ Reads(p, source # Torn)
    /\ UNCHANGED <<source, manifests, receipts, job, kept, faults,
                   components, undone, halfway>>

(* An accepted component: its module must still be there, and the lines it   *)
(* replaces.  An emptied file still has a line to be inserted at.             *)
ReadComponent(p) ==
    /\ Inlined(p) /\ at[p] = "lock" /\ job[p].id \in components
    /\ job[p].decision # "discard"
    /\ \E insert \in BOOLEAN :
         Reads(p, job[p].id \in manifests /\ (source # Torn \/ insert))
    /\ UNCHANGED <<source, manifests, receipts, job, kept, faults,
                   components, undone, halfway>>

Fault == faults < MaxFaults /\ faults' = faults + 1

(* removeSvelteComponentSession; when the removal fails, the run goes on as  *)
(* if it had not.                                                            *)
Removes(p) ==
    \/ manifests' = manifests \ {job[p].id} /\ UNCHANGED faults
    \/ job[p].id \in manifests /\ UNCHANGED manifests /\ Fault

(* A discarded component: its modules go, if they have not gone before. *)
DropComponent(p) ==
    /\ Inlined(p) /\ at[p] = "lock" /\ job[p].id \in components
    /\ job[p].decision = "discard"
    /\ Removes(p)
    /\ Becomes(p, "applied")
    /\ UNCHANGED <<source, receipts, job, view, kept, components, undone, halfway>>

Truncate(p) ==
    /\ Inlined(p) /\ at[p] = "write"
    /\ source' = Torn
    /\ Becomes(p, "fill")
    /\ UNCHANGED <<manifests, receipts, job, view, kept, faults,
                   components, undone, halfway>>

Decided(before, j) ==
    IF j.id \in components
    THEN IF before = "open" THEN j.decision ELSE "doubled"
    ELSE IF j.decision = "discard" THEN "original" ELSE j.decision

Fill(p) ==
    /\ Inlined(p) /\ at[p] = "fill"
    /\ source' = IF view[p] = Torn THEN Torn
                 ELSE [view[p] EXCEPT ![job[p].id] = Decided(@, job[p])]
    /\ Becomes(p, IF job[p].id \in components THEN "unmount" ELSE "applied")
    /\ view' = [view EXCEPT ![p] = Torn]
    /\ UNCHANGED <<manifests, receipts, job, kept, faults, components, undone,
                   halfway>>

Unmount(p) ==
    /\ Inlined(p) /\ at[p] = "unmount"
    /\ Removes(p)
    /\ halfway' = IF job[p].id \in manifests' THEN halfway \union {job[p].id} ELSE halfway
    /\ Becomes(p, "applied")
    /\ UNCHANGED <<source, receipts, job, view, kept, components, undone>>

(* The critical section is over, and the lock is given back. *)
Leaving(p) ==
    /\ \/ Finish(p) /\ at[p] \in {"applied", "unhandled"}
       \/ Leave(p) \/ Release(p)
    /\ UNCHANGED scriptVars

(* Mutant form: a receipt for whatever the run came to. *)
EmitAnyway(p) ==
    /\ At(p, "outside") /\ at[p] \in {"applied", "unhandled"}
    /\ receipts' = [receipts EXCEPT ![job[p].id] = job[p].decision]
    /\ IF at[p] = "applied" THEN Becomes(p, "done") /\ UNCHANGED job ELSE Tells(p)
    /\ UNCHANGED <<lockVars, source, manifests, view, kept, faults, components,
                   undone, halfway>>

(* emitResult: the receipt is written when the lock has been given back. *)
Emit(p) ==
    /\ At(p, "outside")
    /\ \/ /\ at[p] = "applied"
          /\ receipts' = [receipts EXCEPT ![job[p].id] = job[p].decision]
          /\ Becomes(p, "done") /\ UNCHANGED job
       \/ at[p] = "unhandled" /\ Tells(p) /\ UNCHANGED receipts
    /\ UNCHANGED <<lockVars, source, manifests, view, kept, faults, components,
                   undone, halfway>>

-----------------------------------------------------------------------------
(* What goes wrong, and the writer without a lock. *)

Ends(p) ==
    /\ Fault /\ at[p] \notin {"idle", "told", "done"}
    /\ Die(p) /\ Tells(p) /\ view' = [view EXCEPT ![p] = Torn]
    /\ halfway' = IF at[p] = "unmount" THEN halfway \union {job[p].id} ELSE halfway
    /\ UNCHANGED <<source, manifests, receipts, kept, components, undone>>

LockAges ==
    /\ Age
    /\ IF Outruns THEN Fault ELSE UNCHANGED faults
    /\ UNCHANGED <<source, manifests, receipts, job, at, view, kept, components,
                   undone, halfway>>

(* writeManualApplyTransaction, when the apply of a manual edit begins. *)
Snapshot ==
    /\ Fault /\ kept = Nobody
    /\ kept' = source
    /\ UNCHANGED <<lockVars, source, manifests, receipts, job, at, view, components,
                   undone, halfway>>

(* clearManualApplyTransaction *)
Commit ==
    /\ kept # Nobody /\ kept' = Nobody
    /\ UNCHANGED <<lockVars, source, manifests, receipts, job, at, view,
                   faults, components, undone, halfway>>

(* rollbackManualApplyTransaction writes the whole file back. *)
RollBack ==
    /\ kept # Nobody /\ kept' = Nobody
    /\ source' = kept
    /\ undone' = undone \union
                   {s \in Sessions : kept = Torn \/ source = Torn \/ kept[s] # source[s]}
    /\ UNCHANGED <<lockVars, manifests, receipts, job, at, view, faults,
                   components, halfway>>

Run(p) ==
    \/ \E j \in Jobs : Start(p, j)
    \/ Find(p) \/ Locking(p) \/ Refused(p)
    \/ ReadMarked(p) \/ ReadComponent(p) \/ DropComponent(p)
    \/ Truncate(p) \/ Fill(p) \/ Unmount(p) \/ Leaving(p) \/ Emit(p)

Next ==
    \/ \E p \in Processes : Run(p) \/ Ends(p)
    \/ LockAges \/ Snapshot \/ Commit \/ RollBack

Spec == Init /\ [][Next]_vars

-----------------------------------------------------------------------------
(* What a receipt says of a session is what the source shows: the writes of  *)
(* two runs never take each other back.  Aside from a rollback that has put  *)
(* the session back, and from the lock having failed.                        *)
ReceiptsHold ==
    LockKept /\ source # Torn =>
        \A s \in Sessions \ (undone \union components) :
            receipts[s] # Nobody =>
                source[s] = IF receipts[s] = "discard" THEN "original" ELSE receipts[s]

(* A component is put into the source once, however often its acceptance is  *)
(* run again, unless a run left the component's preview behind: it died      *)
(* after it had written the source, or could not remove the preview and went *)
(* on as if it had.                                                          *)
DoubledWhenLeftBehind ==
    LockKept /\ source # Torn =>
        \A s \in Sessions \ undone : source[s] = "doubled" => s \in halfway

(* Two runs of one session never both apply their decision, discards of      *)
(* components, a preview left behind and a lock that failed aside: the       *)
(* second finds the markers, or the module, gone, whatever it saw before it  *)
(* waited for the lock.                                                      *)
Applies(p) == at[p] \in {"applied", "done"}

AppliedOnce ==
    LockKept =>
        \A p, q \in Processes :
            p # q /\ Applies(p) /\ Applies(q) /\ job[p].id = job[q].id
            => \/ job[p].id \in undone \union halfway
               \/ job[p].id \in components /\ "discard" \in {job[p].decision, job[q].decision}
=============================================================================
