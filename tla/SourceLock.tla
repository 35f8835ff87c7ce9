---------------------------- MODULE SourceLock ----------------------------
(***************************************************************************)
(* The lock file that keeps two writers out of one source file: live mode's *)
(* withSourceLockSync (live/source-lock.mjs).  Each process is one run of a *)
(* script and takes the lock at most once, so the token of an acquisition   *)
(* is the process itself.  One step is one call on the file system.         *)
(*                                                                          *)
(* A lock file is created empty and written afterwards; until then nobody   *)
(* can read whose it is.  A process may die at any step and leave its lock  *)
(* behind: a lock is stale when its process is gone, or when a look could   *)
(* not read it and the stat after it finds a file that nobody has written   *)
(* for UNREADABLE_LOCK_STALE_MS.  Process numbers are not reused.           *)
(***************************************************************************)
CONSTANTS Processes,
          Nobody        \* no lock, and nobody's lock

LockFiles == [of : Processes, written : BOOLEAN, old : BOOLEAN]

ASSUME LockAssumption == Nobody \notin Processes /\ Nobody \notin LockFiles

VARIABLES
    lock,     \* the lock file: Nobody, or whose it is, whether it is written
              \* and whether its mtime is more than a minute ago
    alive,    \* processes that have not died
    pc,       \* process -> where it is in withSourceLockSync
    judged,   \* history: process -> who judged its lock stale
    stalled   \* history: a minute passed a living process's lock while it was
              \* empty, or while somebody paused between his look and his stat

lockVars == <<lock, alive, pc, judged, stalled>>

Places == {"outside", "look", "stat", "sweep", "open", "write", "inside",
           "leave", "unlink"}

Locks == {Nobody} \union LockFiles

LockTypeOK ==
    /\ lock \in Locks
    /\ alive \subseteq Processes
    /\ pc \in [Processes -> Places]
    /\ judged \in [Processes -> SUBSET Processes]
    /\ stalled \in BOOLEAN

LockInit ==
    /\ lock = Nobody
    /\ alive = Processes
    /\ pc = [p \in Processes |-> "outside"]
    /\ judged = [p \in Processes |-> {}]
    /\ stalled = FALSE

At(p, place) == p \in alive /\ pc[p] = place

Goes(p, place) == pc' = [pc EXCEPT ![p] = place]

Readable == lock # Nobody /\ lock.written

(* What p found is stale, and p is going to remove it. *)
Judges(p) ==
    /\ Goes(p, "sweep")
    /\ judged' = [judged EXCEPT ![lock.of] = @ \union {p}]

Enter(p) ==
    /\ At(p, "outside")
    /\ Goes(p, "look")
    /\ UNCHANGED <<lock, alive, judged, stalled>>

(* Mutant form: a lock somebody else holds is always stale. *)
LookAtNobody(p) ==
    /\ At(p, "look")
    /\ \/ ~Readable /\ Goes(p, "stat") /\ UNCHANGED judged
       \/ Readable /\ Judges(p)
    /\ UNCHANGED <<lock, alive, stalled>>

(* clearStaleLock: a lock that can be read is judged by its process alone. *)
Look(p) ==
    /\ At(p, "look")
    /\ \/ ~Readable /\ Goes(p, "stat") /\ UNCHANGED judged
       \/ Readable /\ lock.of \in alive /\ Goes(p, "open") /\ UNCHANGED judged
       \/ Readable /\ lock.of \notin alive /\ Judges(p)
    /\ UNCHANGED <<lock, alive, stalled>>

(* The file that is there by now, which may have been written since the look. *)
Stat(p) ==
    /\ At(p, "stat")
    /\ \/ lock # Nobody /\ lock.old /\ Judges(p)
       \/ /\ lock # Nobody => ~lock.old
          /\ Goes(p, "open") /\ UNCHANGED judged
    /\ UNCHANGED <<lock, alive, stalled>>

(* fs.unlinkSync removes whatever is there by now. *)
Sweep(p) ==
    /\ At(p, "sweep")
    /\ lock' = Nobody /\ Goes(p, "open")
    /\ UNCHANGED <<alive, judged, stalled>>

(* The file is created if it is not there. *)
Create(p) ==
    /\ At(p, "open") /\ lock = Nobody
    /\ lock' = [of |-> p, written |-> FALSE, old |-> FALSE]
    /\ Goes(p, "write")
    /\ UNCHANGED <<alive, judged, stalled>>

(* It is there: another round until the deadline. *)
Collide(p) ==
    /\ At(p, "open") /\ lock # Nobody
    /\ Goes(p, "look")
    /\ UNCHANGED <<lock, alive, judged, stalled>>

GiveUp(p) ==
    /\ At(p, "open") /\ lock # Nobody
    /\ Goes(p, "outside")
    /\ UNCHANGED <<lock, alive, judged, stalled>>

(* The record goes into the file p has created, even one that is no longer  *)
(* to be found under its name.                                              *)
WriteLock(p) ==
    /\ At(p, "write")
    /\ lock' = IF lock # Nobody /\ lock.of = p
               THEN [of |-> p, written |-> TRUE, old |-> FALSE] ELSE lock
    /\ Goes(p, "inside")
    /\ UNCHANGED <<alive, judged, stalled>>

Finish(p) ==
    /\ At(p, "inside")
    /\ Goes(p, "leave")
    /\ UNCHANGED <<lock, alive, judged, stalled>>

(* releaseOwnLock: not when it is known to be another's. *)
Leave(p) ==
    /\ At(p, "leave")
    /\ Goes(p, IF Readable /\ lock.of # p THEN "outside" ELSE "unlink")
    /\ UNCHANGED <<lock, alive, judged, stalled>>

Release(p) ==
    /\ At(p, "unlink")
    /\ lock' = Nobody /\ Goes(p, "outside")
    /\ UNCHANGED <<alive, judged, stalled>>

Die(p) ==
    /\ p \in alive
    /\ alive' = alive \ {p} /\ Goes(p, "outside")
    /\ UNCHANGED <<lock, judged, stalled>>

(* A minute without a write goes by.  It can cost a living process its lock  *)
(* if the lock is still empty, or if somebody has looked before it was        *)
(* written and has yet to ask for its age.                                    *)
Outruns == lock.of \in alive /\ (lock.written => \E p \in Processes : At(p, "stat"))

Age ==
    /\ lock # Nobody /\ ~lock.old
    /\ lock' = [lock EXCEPT !.old = TRUE]
    /\ stalled' = (stalled \/ Outruns)
    /\ UNCHANGED <<alive, pc, judged>>

Acquiring(p) ==
    \/ Look(p) \/ Stat(p) \/ Sweep(p) \/ Create(p) \/ Collide(p) \/ WriteLock(p)

LockNext ==
    \/ \E p \in Processes :
        \/ Enter(p) \/ Acquiring(p) \/ GiveUp(p)
        \/ Finish(p) \/ Leave(p) \/ Release(p) \/ Die(p)
    \/ Age

LockSpec == LockInit /\ [][LockNext]_lockVars

-----------------------------------------------------------------------------
Inside(p) == p \in alive /\ pc[p] \in {"inside", "leave", "unlink"}

(* Two processes have judged one lock stale. *)
JudgedTwice ==
    \E d \in Processes : \E p, q \in judged[d] : p # q

LockKept == ~stalled /\ ~JudgedTwice

(* "Unlinking here would end their critical section and admit a third        *)
(* writer": two processes work on the source at the same time only after a   *)
(* lock was judged stale by two processes, the second of which then removes  *)
(* whatever the first has put there, or after a minute went by over the lock *)
(* of a living process: before it was written, or while another paused        *)
(* between its look and its stat.                                             *)
OneWriter ==
    LockKept => \A p, q \in Processes : Inside(p) /\ Inside(q) => p = q
=============================================================================
