---------------------------- MODULE ChangeMarker ----------------------------
(***************************************************************************)
(* The one object in Cloud Storage through which the instances of the API  *)
(* tell each other what they wrote (internal/changes).                     *)
(*                                                                         *)
(* News is a set of writes: merging two Changes is their union, and        *)
(* "everything" is every write.  What an instance still answers from       *)
(* before a write is kept as the set of writes it owes a drop: it grows    *)
(* when somebody else commits and shrinks when forget runs.  The entries   *)
(* of the object are a function of their sequence numbers; those below     *)
(* "first" are the ones keepEntries has dropped, which nobody reads.       *)
(***************************************************************************)
EXTENDS Integers, FiniteSets

CONSTANTS
    Instances,    \* instances of the API
    Writers,      \* requests that write the catalogue, one write each
    Home,         \* Writers -> the instance each is sent to
    KeepEntries,  \* keepEntries
    MaxFaults,    \* bound on the answers lost and the times the object is broken
    MaxStarts     \* bound on the times an instance starts

ASSUME MarkerAssumption ==
    /\ Home \in [Writers -> Instances]
    /\ Writers \cap Instances = {}
    /\ KeepEntries \in Nat \ {0}
    /\ MaxFaults \in Nat /\ MaxStarts \in Nat

Everything == Writers
Tellers == Writers \cup Instances  \* a Publish or, by the instance, a flush

VARIABLES
    object,     \* the object: generation, run, first and last entry, entries
    generation, \* the last generation Cloud Storage has given out
    clock,      \* time, moved on by the starts of instances
    starts,     \* instances started
    faults,     \* answers lost
    breaks,     \* times the object was removed or corrupted
    self,       \* instance -> Marker.self, 0 while it is down
    started,    \* instance -> Marker.started
    seen,       \* instance -> Marker.seen, .run and .seq
    known,      \* instance -> posted, when it last read the object
    pending,    \* instance -> Marker.pending, {} for nil
    at,         \* instance -> where its Check is
    news,       \* instance -> what its look found
    tpc,        \* teller -> where its write loop is
    base,       \* teller -> the object it read, and the time it stamps
    carry,      \* teller -> the news it is telling
    owes,       \* instance -> the writes it may answer from before
    posted,     \* the writes some version of the object has told
    due,        \* instance -> posted, when its look began
    lost        \* writes whose instance went down before telling them

objectVars == <<object, generation, posted>>
lifeVars == <<clock, starts, self, started, lost>>
tellVars == <<tpc, base, carry>>
seenVars == <<seen, known>>
lookVars == <<seenVars, at, news, due>>
vars == <<objectVars, lifeVars, faults, breaks, pending, tellVars, lookVars, owes>>

Absent == [gen |-> 0, run |-> 0, first |-> 1, seq |-> 0, entry |-> [n \in {} |-> {}]]
Unseen == [gen |-> 0, run |-> 0, seq |-> -1]
NoBase == [object |-> Absent, at |-> 0]

Up(i) == self[i] # 0
HomeOf(t) == IF t \in Writers THEN Home[t] ELSE t

Init ==
    /\ object = Absent /\ generation = 0 /\ posted = {}
    /\ clock = 0 /\ starts = 0 /\ faults = 0 /\ breaks = 0
    /\ self = [i \in Instances |-> 0] /\ started = [i \in Instances |-> 0]
    /\ seen = [i \in Instances |-> Unseen] /\ known = [i \in Instances |-> {}]
    /\ pending = [i \in Instances |-> {}]
    /\ at = [i \in Instances |-> "idle"] /\ news = [i \in Instances |-> {}]
    /\ tpc = [t \in Tellers |-> "idle"] /\ base = [t \in Tellers |-> NoBase]
    /\ carry = [t \in Tellers |-> {}]
    /\ owes = [i \in Instances |-> {}]
    /\ due = [i \in Instances |-> {}]
    /\ lost = {}

-----------------------------------------------------------------------------
(* Writing the object.                                                      *)

\* The object with one entry more, over the version that was read; run names
\* the new object when there was none to add to.
Appended(read, stamp, by, told, run) ==
    LET seq == read.seq + 1
    IN  [gen   |-> run,
         run   |-> IF read.run = 0 THEN run ELSE read.run,
         first |-> IF seq - read.first >= KeepEntries THEN seq - KeepEntries + 1
                   ELSE read.first,
         seq   |-> seq,
         entry |-> [n \in 1 .. seq |->
                      IF n = seq THEN [at |-> stamp, by |-> by, news |-> told]
                      ELSE read.entry[n]]]

TPc(t, label) == tpc' = [tpc EXCEPT ![t] = label]

\* keep that replaces what is pending.
KeepOver(t) ==
    /\ pending' = [pending EXCEPT ![HomeOf(t)] = carry[t]]
    /\ TPc(t, IF t \in Writers THEN "done" ELSE "idle")
    /\ base' = [base EXCEPT ![t] = NoBase]
    /\ carry' = [carry EXCEPT ![t] = {}]

\* keep, and the end of this telling.
Keep(t) ==
    /\ pending' = [pending EXCEPT ![HomeOf(t)] = @ \cup carry[t]]
    /\ TPc(t, IF t \in Writers THEN "done" ELSE "idle")
    /\ base' = [base EXCEPT ![t] = NoBase]
    /\ carry' = [carry EXCEPT ![t] = {}]

\* A write commits, and forget drops it in its own instance.
Commit(w) ==
    /\ Up(Home[w]) /\ tpc[w] = "idle"
    /\ at[Home[w]] \notin {"stop", "stopping"}
    /\ owes' = [i \in Instances |->
                  IF Up(i) /\ i # Home[w] THEN owes[i] \cup {w} ELSE owes[i]]
    /\ carry' = [carry EXCEPT ![w] = {w}]
    /\ TPc(w, "publish")
    /\ UNCHANGED <<objectVars, lifeVars, faults, breaks, pending, base, lookVars>>

\* Publish takes along what an earlier write could not tell.
Publish(w) ==
    /\ tpc[w] = "publish"
    /\ carry' = [carry EXCEPT ![w] = @ \cup pending[Home[w]]]
    /\ pending' = [pending EXCEPT ![Home[w]] = {}]
    /\ TPc(w, "read")
    /\ UNCHANGED <<objectVars, lifeVars, faults, breaks, base, lookVars, owes>>

\* write reads the object and stamps its entry.
ReadToWrite(t) ==
    /\ tpc[t] = "read"
    /\ base' = [base EXCEPT ![t] = [object |-> object, at |-> clock]]
    /\ TPc(t, "write")
    /\ UNCHANGED <<objectVars, lifeVars, faults, breaks, pending, carry, lookVars, owes>>

\* The store takes the write, on whatever generation.
Take(t) ==
    /\ object' = Appended(base[t].object, base[t].at, self[HomeOf(t)], carry[t],
                          generation + 1)
    /\ generation' = generation + 1
    /\ posted' = posted \cup carry[t]

WriteUnconditionally(t) ==
    /\ tpc[t] = "write"
    /\ Take(t)
    /\ TPc(t, IF t \in Writers THEN "done" ELSE "idle")
    /\ base' = [base EXCEPT ![t] = NoBase]
    /\ carry' = [carry EXCEPT ![t] = {}]
    /\ UNCHANGED <<lifeVars, faults, breaks, pending, lookVars, owes>>

Write(t) ==
    /\ tpc[t] = "write"
    /\ object.gen = base[t].object.gen
    /\ Take(t)
    /\ TPc(t, IF t \in Writers THEN "done" ELSE "idle")
    /\ base' = [base EXCEPT ![t] = NoBase]
    /\ carry' = [carry EXCEPT ![t] = {}]
    /\ UNCHANGED <<lifeVars, faults, breaks, pending, lookVars, owes>>

\* The store takes the write and its answer is lost: tried again, or kept.
WriteUnanswered(t) ==
    /\ tpc[t] = "write" /\ faults + breaks < MaxFaults
    /\ object.gen = base[t].object.gen
    /\ faults' = faults + 1
    /\ Take(t)
    /\ \/ TPc(t, "read") /\ base' = [base EXCEPT ![t] = NoBase]
          /\ UNCHANGED <<carry, pending>>
       \/ Keep(t)
    /\ UNCHANGED <<lifeVars, breaks, lookVars, owes>>

\* Somebody wrote in between (ErrConflict).
Conflict(t) ==
    /\ tpc[t] = "write"
    /\ object.gen # base[t].object.gen
    /\ TPc(t, "read")
    /\ base' = [base EXCEPT ![t] = NoBase]
    /\ UNCHANGED <<objectVars, lifeVars, faults, breaks, pending, carry, lookVars, owes>>

\* The store cannot be read or written, or stays busy until writeTimeout.
GiveUp(t) ==
    /\ tpc[t] \in {"read", "write"}
    /\ Keep(t)
    /\ UNCHANGED <<objectVars, lifeVars, faults, breaks, lookVars, owes>>

-----------------------------------------------------------------------------
(* Looking at the object: Check.                                            *)

At(i, label) == at' = [at EXCEPT ![i] = label]

\* What by other instances the entries numbered in N say.
TakeFrom(i, held, N) ==
    UNION {held.entry[n].news : n \in {n \in N : held.entry[n].by # self[i]}}

Kept(held) == held.first .. held.seq

\* The entries stamped after this instance started, or strictly after.
UnreadStrictly(i, held) ==
    IF seen[i].seq >= 0 THEN {n \in Kept(held) : n > seen[i].seq}
    ELSE {n \in Kept(held) : held.entry[n].at > started[i]}

\* The entries after this instance's last look; on its first look, those
\* stamped after it started.
Unread(i, held) ==
    IF seen[i].seq >= 0 THEN {n \in Kept(held) : n > seen[i].seq}
    ELSE {n \in Kept(held) : held.entry[n].at >= started[i]}

\* CannotTell, without what keepEntries dropped.
CannotTellRestart(i, held) ==
    /\ seen[i].seq >= 0
    /\ \/ held.run # seen[i].run /\ seen[i].seq > 0
       \/ held.seq < seen[i].seq

\* CannotTell, without the names the object was started under.
CannotTellTrim(i, held) ==
    \/ /\ seen[i].seq >= 0
       /\ \/ held.seq < seen[i].seq
          \/ held.first > seen[i].seq + 1 /\ held.seq # seen[i].seq
    \/ /\ seen[i].seq = -1
       /\ held.first \in Unread(i, held) /\ held.first > 1

\* Entries this instance never saw have been dropped from the object, or the
\* object was started again.
CannotTell(i, held) ==
    \/ /\ seen[i].seq >= 0
       /\ \/ held.run # seen[i].run /\ seen[i].seq > 0
          \/ held.seq < seen[i].seq
          \/ held.first > seen[i].seq + 1 /\ held.seq # seen[i].seq
    \/ /\ seen[i].seq = -1
       /\ held.first \in Unread(i, held) /\ held.first > 1

since(i, held) ==
    IF CannotTell(i, held) THEN Everything ELSE TakeFrom(i, held, Unread(i, held))

\* The metadata read: nothing to do while the generation has not moved.
Look(i) ==
    /\ Up(i) /\ at[i] = "idle"
    /\ due' = [due EXCEPT ![i] = posted]
    /\ At(i, IF object.gen = seen[i].gen THEN "flush" ELSE "read")
    /\ UNCHANGED <<objectVars, lifeVars, faults, breaks, pending, tellVars, seenVars, news, owes>>

\* The object is there to be read.
ReadEntries(i) ==
    /\ at[i] = "read"
    /\ object.run # 0
    /\ news' = [news EXCEPT ![i] = since(i, object)]
    /\ seen' = [seen EXCEPT ![i] = [gen |-> object.gen, run |-> object.run, seq |-> object.seq]]
    /\ known' = [known EXCEPT ![i] = posted]
    /\ At(i, "flush")
    /\ UNCHANGED <<objectVars, lifeVars, faults, breaks, pending, tellVars, due, owes>>

\* It was removed.
ReadNothing(i) ==
    /\ at[i] = "read"
    /\ object.gen = 0
    /\ news' = [news EXCEPT ![i] = IF seen[i].seq > 0 THEN Everything ELSE {}]
    /\ seen' = [seen EXCEPT ![i].gen = 0, ![i].seq = 0]
    /\ known' = [known EXCEPT ![i] = posted]
    /\ At(i, "flush")
    /\ UNCHANGED <<objectVars, lifeVars, faults, breaks, pending, tellVars, due, owes>>

\* It cannot be parsed.
ReadBroken(i) ==
    /\ at[i] = "read"
    /\ object.gen # 0 /\ object.run = 0
    /\ news' = [news EXCEPT ![i] = Everything]
    /\ seen' = [seen EXCEPT ![i].gen = object.gen]
    /\ known' = [known EXCEPT ![i] = posted]
    /\ At(i, "flush")
    /\ UNCHANGED <<objectVars, lifeVars, faults, breaks, pending, tellVars, due, owes>>

\* The store does not answer the look: skipped, and nothing is due from it.
LookFails(i) ==
    /\ Up(i) /\ at[i] \in {"idle", "read"}
    /\ due' = [due EXCEPT ![i] = {}]
    /\ At(i, "flush")
    /\ UNCHANGED <<objectVars, lifeVars, faults, breaks, pending, tellVars, seenVars, news, owes>>

\* A look that leaves what could not be told to the next write.
FlushAsItStops(i) ==
    /\ \/ at[i] = "flush" /\ At(i, "flushing") /\ UNCHANGED <<pending, tpc, carry>>
       \/ /\ at[i] = "stop" /\ At(i, "stopping")
          /\ carry' = [carry EXCEPT ![i] = pending[i]]
          /\ pending' = [pending EXCEPT ![i] = {}]
          /\ TPc(i, IF pending[i] = {} THEN "idle" ELSE "read")
    /\ UNCHANGED <<objectVars, lifeVars, faults, breaks, base, seenVars, news, due, owes>>

\* flush, in the rest of the look or as the process stops.
Flush(i) ==
    /\ \/ at[i] = "flush" /\ At(i, "flushing")
       \/ at[i] = "stop" /\ At(i, "stopping")
    /\ carry' = [carry EXCEPT ![i] = pending[i]]
    /\ pending' = [pending EXCEPT ![i] = {}]
    /\ TPc(i, IF pending[i] = {} THEN "idle" ELSE "read")
    /\ UNCHANGED <<objectVars, lifeVars, faults, breaks, base, seenVars, news, due, owes>>

\* forget drops what the news names, and the reader is answered.
Forget(i) ==
    /\ at[i] = "flushing" /\ tpc[i] = "idle"
    /\ owes' = [owes EXCEPT ![i] = @ \ news[i]]
    /\ news' = [news EXCEPT ![i] = {}]
    /\ At(i, "answer")
    /\ UNCHANGED <<objectVars, lifeVars, faults, breaks, pending, tellVars, seenVars, due>>

AnswerReader(i) ==
    /\ at[i] = "answer"
    /\ due' = [due EXCEPT ![i] = {}]
    /\ At(i, "idle")
    /\ UNCHANGED <<objectVars, lifeVars, faults, breaks, pending, tellVars, seenVars, news, owes>>

-----------------------------------------------------------------------------
(* Instances come and go.                                                   *)

\* The marker is made before the catalogue is read.
Start(i) ==
    /\ ~Up(i) /\ starts < MaxStarts
    /\ starts' = starts + 1
    /\ self' = [self EXCEPT ![i] = starts + 1]
    /\ \E later \in {0, 1} :
        /\ clock' = clock + later
        /\ started' = [started EXCEPT ![i] = clock + later]
    /\ UNCHANGED <<objectVars, lost, faults, breaks, pending, tellVars, lookVars, owes>>

\* Told to stop: the last request has been answered, and flush is next.
Stop(i) ==
    /\ Up(i) /\ at[i] = "idle"
    /\ \A w \in Writers : Home[w] = i => tpc[w] \in {"idle", "done"}
    /\ At(i, "stop")
    /\ UNCHANGED <<objectVars, lifeVars, faults, breaks, pending, tellVars, seenVars, news, due, owes>>

\* The process is gone, with what it had not told.
Gone(i) ==
    /\ self' = [self EXCEPT ![i] = 0]
    /\ lost' = lost \cup pending[i]
                    \cup UNION {carry[t] : t \in {t \in Tellers : HomeOf(t) = i}}
    /\ pending' = [pending EXCEPT ![i] = {}]
    /\ tpc' = [t \in Tellers |->
                 IF HomeOf(t) # i THEN tpc[t]
                 ELSE IF t \in Writers /\ tpc[t] # "idle" THEN "done" ELSE "idle"]
    /\ base' = [t \in Tellers |-> IF HomeOf(t) = i THEN NoBase ELSE base[t]]
    /\ carry' = [t \in Tellers |-> IF HomeOf(t) = i THEN {} ELSE carry[t]]
    /\ seen' = [seen EXCEPT ![i] = Unseen] /\ known' = [known EXCEPT ![i] = {}]
    /\ news' = [news EXCEPT ![i] = {}] /\ due' = [due EXCEPT ![i] = {}]
    /\ owes' = [owes EXCEPT ![i] = {}]
    /\ At(i, "idle")
    /\ UNCHANGED <<objectVars, clock, starts, started, faults, breaks>>

Exit(i) == at[i] = "stopping" /\ tpc[i] = "idle" /\ Gone(i)

\* Killed, or out of the time it had to stop.
Crash(i) == Up(i) /\ Gone(i)

\* Somebody removes the object, or leaves something else in its place.
Break ==
    /\ faults + breaks < MaxFaults /\ object.gen # 0
    /\ breaks' = breaks + 1
    /\ \/ object' = Absent /\ UNCHANGED generation
       \/ object' = [Absent EXCEPT !.gen = generation + 1] /\ generation' = generation + 1
    /\ UNCHANGED <<posted, lifeVars, faults, pending, tellVars, lookVars, owes>>

-----------------------------------------------------------------------------
Tell(t) ==
    \/ ReadToWrite(t) \/ Write(t) \/ WriteUnanswered(t) \/ Conflict(t) \/ GiveUp(t)

Check(i) ==
    \/ Look(i) \/ ReadEntries(i) \/ ReadNothing(i) \/ ReadBroken(i) \/ LookFails(i)
    \/ Flush(i) \/ Forget(i) \/ AnswerReader(i)

Next ==
    \/ \E w \in Writers : Commit(w) \/ Publish(w)
    \/ \E t \in Tellers : Tell(t)
    \/ \E i \in Instances : Check(i) \/ Start(i) \/ Stop(i) \/ Exit(i) \/ Crash(i)
    \/ Break

Spec == Init /\ [][Next]_vars

\* Requests that began run on, readers keep arriving at an instance that is up,
\* and Cloud Storage, however often it fails, answers again and again.
Fairness ==
    /\ \A w \in Writers : WF_vars(Publish(w))
    /\ \A t \in Tellers : SF_vars(ReadToWrite(t)) /\ WF_vars(Conflict(t)) /\ SF_vars(Write(t))
    /\ \A i \in Instances :
        /\ SF_vars(Look(i)) /\ SF_vars(ReadEntries(i))
        /\ WF_vars(Flush(i)) /\ WF_vars(Forget(i)) /\ WF_vars(AnswerReader(i))
        /\ WF_vars(Exit(i))

FairSpec == Spec /\ Fairness

-----------------------------------------------------------------------------
TypeOK ==
    /\ object.gen \in 0 .. generation /\ object.first \in 1 .. object.seq + 1
    /\ object.seq < object.first + KeepEntries
    /\ DOMAIN object.entry = 1 .. object.seq
    /\ \A n \in 1 .. object.seq :
         object.entry[n] \in [at : 0 .. clock, by : 1 .. starts, news : SUBSET Writers]
    /\ self \in [Instances -> 0 .. starts] /\ started \in [Instances -> 0 .. clock]
    /\ seen \in [Instances -> [gen : 0 .. generation, run : 0 .. generation, seq : Int]]
    /\ pending \in [Instances -> SUBSET Writers]
    /\ at \in [Instances -> {"idle", "read", "flush", "flushing", "answer", "stop", "stopping"}]
    /\ news \in [Instances -> SUBSET Writers]
    /\ tpc \in [Tellers -> {"idle", "publish", "read", "write", "done"}]
    /\ carry \in [Tellers -> SUBSET Writers]
    /\ owes \in [Instances -> SUBSET Writers]
    /\ posted \subseteq Writers /\ lost \subseteq Writers
    /\ due \in [Instances -> SUBSET Writers] /\ known \in [Instances -> SUBSET Writers]

\* A reader whose look succeeded is answered by an instance that has dropped
\* what every write told before the look changed (changes.go, Check, look and
\* since: "when it cannot tell ... the answer is everything").
LooksCatchUp ==
    \A i \in Instances : at[i] = "answer" => owes[i] \cap due[i] = {}

\* So it is while nobody removes the object or leaves something else in its
\* place, however many entries are trimmed and whenever an instance starts.
UnbrokenLooksCatchUp == breaks = 0 => LooksCatchUp

\* An instance that has followed a marker loses nothing told after it last read
\* the object when that is then removed, corrupted or started again: its next
\* look that succeeds hands it to forget (changes.go, look and since).
FollowersLoseNothing ==
    [][\A i \in Instances :
         at[i] = "read" /\ at'[i] = "flush" /\ seen[i].seq > 0 =>
             (owes[i] \cap due'[i]) \ known[i] \subseteq news'[i]]_vars

\* Told news is never dropped on the floor: a write is in the object, kept to
\* be told, being told, or gone with a process that went down (changes.go,
\* Publish, keep and flush).  Everything has its type besides: the object holds
\* KeepEntries entries at most, and each of them whole.
NewsKept ==
    /\ TypeOK
    /\ \A w \in Writers : tpc[w] = "done" =>
         w \in posted \cup lost \cup pending[Home[w]] \cup UNION {carry[t] : t \in Tellers}

\* Nobody's entry is overwritten: an object replaces another only by adding one
\* entry to what it holds (changes.go, write; the conditional Write of gcs.go).
EntriesOnlyAdded ==
    [][object.run # 0 /\ object'.run # 0 /\ object' # object =>
         /\ object'.run = object.run
         /\ object'.seq = object.seq + 1
         /\ \A n \in object'.first .. object.seq : object'.entry[n] = object.entry[n]]_vars

\* What a write told reaches every instance that stays up, or that instance
\* goes down (changes.go, Check).
NewsArrives ==
    \A i \in Instances, w \in Writers :
        w \in owes[i] /\ w \in posted ~> w \notin owes[i]

\* News that could not be told is told by a later look or write, unless the
\* process goes down first (changes.go, flush and Publish).
KeptNewsIsTold ==
    \A w \in Writers : w \in pending[Home[w]] ~> w \in posted \cup lost

=============================================================================
