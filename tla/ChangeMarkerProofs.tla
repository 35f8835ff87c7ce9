-------------------------- MODULE ChangeMarkerProofs --------------------------
(***************************************************************************)
(* No news is lost between the instances, for every number of instances,   *)
(* writes, faults and starts.                                              *)
(***************************************************************************)
EXTENDS ChangeMarker, TLAPS

(***************************************************************************)
(* The inductive invariant                                                 *)
(***************************************************************************)
\* A version of the object as it can be with g generations given out, at time
\* c and with s instances started: whole, trimmed to KeepEntries, and its
\* entries stamped in the order they were added.  One is no object at all.
Version(o, g, c, s) ==
    /\ o.gen \in 0 .. g /\ o.run \in 0 .. g /\ o.seq \in Nat
    /\ o.first \in 1 .. o.seq + 1 /\ o.seq < o.first + KeepEntries
    /\ o.seq > 0 => o.first <= o.seq
    /\ DOMAIN o.entry = 1 .. o.seq
    /\ \A n \in 1 .. o.seq :
         o.entry[n] \in [at : 0 .. c, by : 1 .. s, news : SUBSET Writers]
    /\ \A m, n \in 1 .. o.seq : m <= n => o.entry[m].at <= o.entry[n].at
    /\ o.run = 0 <=> o.seq = 0
    /\ o.gen = 0 => o = Absent

\* The object, and what the tellers have read of it: what they add is stamped
\* no earlier than what they have read, and a generation is one version only.
Versions ==
    /\ generation \in Nat /\ clock \in Nat /\ starts \in Nat
    /\ Version(object, generation, clock, starts)
    /\ DOMAIN base = Tellers
    /\ \A t \in Tellers :
         LET read == base[t] IN
         /\ Version(read.object, generation, clock, starts) /\ read.at \in 0 .. clock
         /\ \A n \in 1 .. read.object.seq : read.object.entry[n].at <= read.at
         /\ read.object.gen = object.gen => read.object = object

\* Instances under their names, no two of them the same.
Names ==
    /\ self \in [Instances -> 0 .. starts] /\ started \in [Instances -> 0 .. clock]
    /\ \A i, j \in Instances : Up(i) /\ self[i] = self[j] => i = j

Looks == seen \in [Instances -> [gen : 0 .. generation, run : 0 .. generation, seq : Int]]

Sets ==
    /\ pending \in [Instances -> SUBSET Writers] /\ news \in [Instances -> SUBSET Writers]
    /\ carry \in [Tellers -> SUBSET Writers] /\ owes \in [Instances -> SUBSET Writers]
    /\ posted \subseteq Writers /\ lost \subseteq Writers
    /\ due \in [Instances -> SUBSET Writers] /\ known \in [Instances -> SUBSET Writers]

Labels ==
    /\ at \in [Instances -> {"idle", "read", "flush", "flushing", "answer", "stop", "stopping"}]
    /\ tpc \in [Tellers -> {"idle", "publish", "read", "write", "done"}]

Types == Names /\ Looks /\ Sets /\ Labels /\ breaks \in Nat

\* News is told by the instance that wrote it, by a request or a look of its
\* own at a time, and not before it is committed.
Telling ==
    /\ \A t \in Tellers : tpc[t] \in {"publish", "read", "write"} => Up(HomeOf(t))
    /\ \A t \in Tellers : tpc[t] \in {"idle", "done"} => carry[t] = {}
    /\ \A w \in Writers : tpc[w] \in {"publish", "read", "write"} => w \in carry[w]
    /\ \A t \in Tellers : \A w \in carry[t] : Home[w] = HomeOf(t) /\ tpc[w] # "idle"
    /\ \A i \in Instances : \A w \in pending[i] : Home[w] = i /\ tpc[w] # "idle"
    /\ \A w \in posted : tpc[w] # "idle"
    /\ \A i \in Instances :
         /\ tpc[i] \in {"idle", "read", "write"}
         /\ at[i] \notin {"flushing", "stopping"} => tpc[i] = "idle"
         /\ at[i] # "idle" => Up(i)

\* A write is in the object, gone, kept, or being told.
Held(w) ==
    \/ w \in posted \/ w \in lost \/ w \in pending[Home[w]]
    \/ \E t \in Tellers : w \in carry[t]

\* Nothing told has been forgotten.
Remembered == \A w \in Writers : tpc[w] = "done" => Held(w)

\* What the entries of the object say was told, and not by the instance it is news to.
Entries ==
    \A n \in 1 .. object.seq : \A w \in object.entry[n].news :
        /\ w \in posted
        /\ \A i \in Instances : Up(i) /\ object.entry[n].by = self[i] => Home[w] = i

\* What an instance knows and is due was told; what a look found is dropped
\* before it answers.
Looking ==
    \A i \in Instances :
        /\ ~Up(i) => owes[i] = {}
        /\ known[i] \subseteq posted /\ due[i] \subseteq posted
        /\ at[i] \notin {"flush", "flushing"} => news[i] = {}

\* What an instance has not dropped is news to it, committed after it started.
Owing ==
    \A i \in Instances : \A w \in owes[i] :
        /\ Home[w] # i
        /\ \A n \in 1 .. object.seq :
             w \in object.entry[n].news => started[i] <= object.entry[n].at
        /\ \A t \in Tellers :
             tpc[t] = "write" /\ w \in carry[t] => started[i] <= base[t].at

\* Told in an entry of the object that follows the n-th.
ToldAfter(n, w) == \E m \in 1 .. object.seq : n < m /\ w \in object.entry[m].news

\* An instance that has read this object before finds in it what was told since.
Following ==
    \A i \in Instances : seen[i].seq > 0 /\ seen[i].run = object.run /\ object.run # 0 =>
        /\ seen[i].seq <= object.seq
        /\ \A w \in posted \ known[i] : ToldAfter(seen[i].seq, w)

\* An object nobody breaks has told everything.
Whole ==
    /\ object.run = 0 => object.gen = 0
    /\ \A w \in posted : ToldAfter(0, w)

\* An instance follows the object nobody breaks, or has yet to look.
Caught(i) ==
    /\ \/ seen[i] = Unseen /\ known[i] = {}
       \/ seen[i].seq > 0 /\ seen[i].gen # 0 /\ seen[i].run = object.run /\ object.run # 0
    /\ seen[i].gen = object.gen => posted \subseteq known[i]
    /\ at[i] = "read" => object.gen # 0
    /\ at[i] \in {"flush", "flushing", "answer"} => due[i] \subseteq known[i]
    /\ owes[i] \cap known[i] \subseteq news[i]

Unbroken == breaks = 0 => Whole /\ \A i \in Instances : Caught(i)

Base == Versions /\ Types /\ Telling /\ Remembered
Inv == Base /\ Entries /\ Looking /\ Owing /\ Following /\ Unbroken

-----------------------------------------------------------------------------
(***************************************************************************)
(* Versions of the object                                                  *)
(***************************************************************************)
LEMMA HomeType ==
    \A t \in Tellers : HomeOf(t) \in Instances
BY MarkerAssumption DEF HomeOf, Tellers

\* A version stays one as time goes by and generations are given out.
LEMMA VersionAges ==
    ASSUME NEW o, NEW g \in Nat, NEW c \in Nat, NEW s \in Nat,
           NEW g2 \in Nat, NEW c2 \in Nat, NEW s2 \in Nat,
           g <= g2, c <= c2, s <= s2, Version(o, g, c, s)
    PROVE  Version(o, g2, c2, s2)
<1>1. \A n \in 1 .. o.seq :
         o.entry[n] \in [at : 0 .. c2, by : 1 .. s2, news : SUBSET Writers]
  <2>1. SUFFICES ASSUME NEW n \in 1 .. o.seq
                 PROVE  o.entry[n] \in [at : 0 .. c2, by : 1 .. s2, news : SUBSET Writers]
    OBVIOUS
  <2>2. o.entry[n] \in [at : 0 .. c, by : 1 .. s, news : SUBSET Writers]
    BY DEF Version
  <2>3. 0 .. c \subseteq 0 .. c2 /\ 1 .. s \subseteq 1 .. s2
    OBVIOUS
  <2>. QED BY <2>2, <2>3
<1>. QED BY <1>1 DEF Version

\* No object, and one that cannot be read, are versions.
LEMMA NothingIsVersion ==
    ASSUME NEW g \in Nat, NEW c \in Nat, NEW s \in Nat
    PROVE  /\ Version(Absent, g, c, s)
           /\ g > 0 => Version([Absent EXCEPT !.gen = g], g, c, s)
<1>1. 1 .. 0 = {}
  OBVIOUS
<1>. QED BY <1>1, MarkerAssumption DEF Version, Absent

\* Version p is version o with one entry more, the generation after g.
Adds(p, o, entry, g) ==
    /\ p.gen = g + 1 /\ p.seq = o.seq + 1
    /\ p.run = IF o.run = 0 THEN g + 1 ELSE o.run
    /\ p.entry[p.seq] = entry
    /\ \A n \in 1 .. o.seq : p.entry[n] = o.entry[n]

Entry(stamp, by, told) == [at |-> stamp, by |-> by, news |-> told]

\* What write adds to a version makes a version of the next generation.
LEMMA AppendedIsVersion ==
    ASSUME NEW o, NEW g \in Nat, NEW c \in Nat, NEW s \in Nat, Version(o, g, c, s),
           NEW stamp \in 0 .. c, NEW by \in 1 .. s, NEW told \in SUBSET Writers,
           \A n \in 1 .. o.seq : o.entry[n].at <= stamp
    PROVE  /\ Version(Appended(o, stamp, by, told, g + 1), g + 1, c, s)
           /\ Adds(Appended(o, stamp, by, told, g + 1), o, Entry(stamp, by, told), g)
<1>. DEFINE p == Appended(o, stamp, by, told, g + 1)
            first == IF o.seq + 1 - o.first >= KeepEntries THEN o.seq + 1 - KeepEntries + 1
                     ELSE o.first
            entry == [n \in 1 .. o.seq + 1 |->
                        IF n = o.seq + 1 THEN [at |-> stamp, by |-> by, news |-> told]
                        ELSE o.entry[n]]
            run == IF o.run = 0 THEN g + 1 ELSE o.run
<1>1. /\ p.gen = g + 1 /\ p.seq = o.seq + 1
      /\ p.run = run /\ p.first = first /\ p.entry = entry
  <2>1. p.gen = g + 1 /\ p.seq = o.seq + 1 /\ p.run = run
    BY DEF Appended
  <2>2. p.first = first
    <3>1. o.seq \in Int /\ o.first \in Int /\ KeepEntries \in Int
      BY MarkerAssumption DEF Version
    <3>. QED BY <3>1 DEF Appended
  <2>3. p.entry = entry
    BY DEF Appended
  <2>. QED BY <2>1, <2>2, <2>3
<1>. HIDE DEF p, first, entry, run
<1>2. o.seq \in Nat /\ o.seq + 1 \in 1 .. o.seq + 1
  BY DEF Version
<1>3. p.entry[p.seq] = [at |-> stamp, by |-> by, news |-> told]
  BY <1>1, <1>2 DEF entry
<1>4. \A n \in 1 .. o.seq : p.entry[n] = o.entry[n]
  <2>. TAKE n \in 1 .. o.seq
  <2>1. n \in 1 .. o.seq + 1 /\ n # o.seq + 1
    BY <1>2
  <2>. QED BY <1>1, <2>1 DEF entry
<1>5. \A n \in 1 .. p.seq : n \in 1 .. o.seq \/ n = p.seq
  BY <1>1, <1>2
<1>6. \A n \in 1 .. p.seq :
        p.entry[n] \in [at : 0 .. c, by : 1 .. s, news : SUBSET Writers]
  <2>. TAKE n \in 1 .. p.seq
  <2>1. CASE n \in 1 .. o.seq
    BY <1>4, <2>1 DEF Version
  <2>2. CASE n = p.seq
    BY <1>3, <2>2
  <2>. QED BY <1>5, <2>1, <2>2
<1>7. \A m, n \in 1 .. p.seq : m <= n => p.entry[m].at <= p.entry[n].at
  <2>1. SUFFICES ASSUME NEW m \in 1 .. p.seq, NEW n \in 1 .. p.seq, m <= n
                 PROVE  p.entry[m].at <= p.entry[n].at
    OBVIOUS
  <2>2. CASE n \in 1 .. o.seq
    <3>1. m \in 1 .. o.seq
      BY <1>2, <2>1, <2>2
    <3>. QED BY <1>4, <2>1, <2>2, <3>1 DEF Version
  <2>3. CASE n = p.seq /\ m \in 1 .. o.seq
    BY <1>3, <1>4, <2>3
  <2>4. CASE n = p.seq /\ m = p.seq
    BY <1>3, <2>4
  <2>. QED BY <1>5, <2>2, <2>3, <2>4
<1>8. p.first \in 1 .. p.seq + 1 /\ p.seq < p.first + KeepEntries /\ p.first <= p.seq
  <2>1. o.first \in 1 .. o.seq + 1 /\ o.seq < o.first + KeepEntries /\ KeepEntries \in Nat \ {0}
    BY MarkerAssumption DEF Version
  <2>2. first \in 1 .. o.seq + 1 /\ o.seq + 1 < first + KeepEntries
    BY <1>2, <2>1 DEF first
  <2>3. first \in Int /\ p.seq \in Nat
    BY <1>1, <1>2, <2>2
  <2>. QED BY <1>1, <1>2, <2>2, <2>3
<1>9. DOMAIN p.entry = 1 .. p.seq /\ p.run \in 0 .. g + 1 /\ p.run # 0 /\ p.seq # 0
  <2>1. o.run \in 0 .. g
    BY DEF Version
  <2>. QED BY <1>1, <1>2, <2>1 DEF run, entry
<1>10. Version(p, g + 1, c, s)
  <2>1. p.gen \in 0 .. g + 1 /\ p.gen # 0 /\ p.seq \in Nat /\ (p.run = 0 <=> p.seq = 0)
    BY <1>1, <1>2, <1>9
  <2>. QED BY <1>6, <1>7, <1>8, <1>9, <2>1 DEF Version
<1>. QED BY <1>1, <1>3, <1>4, <1>10 DEF p, run, Adds, Entry

-----------------------------------------------------------------------------
(***************************************************************************)
(* What a step does to the object                                          *)
(***************************************************************************)
\* The object of a teller whose write the store takes: Publish and flush add an
\* entry to the object as it is.
LEMMA TakeAppends ==
    ASSUME Versions, Types, Telling, NEW t \in Tellers, tpc[t] = "write",
           object.gen = base[t].object.gen, Take(t)
    PROVE  /\ object' = Appended(object, base[t].at, self[HomeOf(t)], carry[t], generation + 1)
           /\ base[t].at \in 0 .. clock /\ self[HomeOf(t)] \in 1 .. starts
           /\ carry[t] \in SUBSET Writers
           /\ Version(object', generation', clock, starts)
           /\ generation' = generation + 1
           /\ Adds(object', object, Entry(base[t].at, self[HomeOf(t)], carry[t]), generation)
           /\ posted' = posted \cup carry[t]
<1>1. /\ base[t].object = object /\ base[t].at \in 0 .. clock
      /\ \A n \in 1 .. object.seq : object.entry[n].at <= base[t].at
      /\ generation \in Nat /\ clock \in Nat /\ starts \in Nat
      /\ Version(object, generation, clock, starts)
  BY DEF Versions
<1>2. self[HomeOf(t)] \in 1 .. starts /\ carry[t] \in SUBSET Writers
  <2>1. HomeOf(t) \in Instances /\ self[HomeOf(t)] # 0
    BY HomeType DEF Telling, Up
  <2>. QED BY <1>1, <2>1 DEF Types, Names, Sets
<1>3. object' = Appended(object, base[t].at, self[HomeOf(t)], carry[t], generation + 1)
  BY <1>1 DEF Take
<1>4. generation' = generation + 1 /\ posted' = posted \cup carry[t]
  BY DEF Take
<1>. QED
  <2>. DEFINE stamp == base[t].at  by == self[HomeOf(t)]  told == carry[t]
              p == Appended(object, stamp, by, told, generation + 1)
  <2>1. /\ stamp \in 0 .. clock /\ by \in 1 .. starts /\ told \in SUBSET Writers
        /\ \A n \in 1 .. object.seq : object.entry[n].at <= stamp
    BY <1>1, <1>2
  <2>2. object' = p
    BY <1>3
  <2>. HIDE DEF stamp, by, told
  <2>3. /\ Version(p, generation + 1, clock, starts)
        /\ Adds(p, object, Entry(stamp, by, told), generation)
    BY <1>1, <2>1, AppendedIsVersion
  <2>. HIDE DEF p
  <2>. QED BY <1>1, <1>2, <1>3, <1>4, <2>2, <2>3 DEF stamp, by, told

\* A step leaves the object alone, is a write that the store takes, or breaks it.
LEMMA ObjectSteps ==
    ASSUME [Next]_vars
    PROVE  \/ UNCHANGED objectVars
           \/ \E t \in Tellers :
                tpc[t] = "write" /\ object.gen = base[t].object.gen /\ Take(t)
                /\ (Write(t) \/ WriteUnanswered(t))
           \/ Break
<1>1. CASE \E t \in Tellers : Write(t) \/ WriteUnanswered(t)
  BY <1>1 DEF Write, WriteUnanswered
<1>2. CASE \E t \in Tellers : ReadToWrite(t) \/ Conflict(t) \/ GiveUp(t)
  BY <1>2 DEF ReadToWrite, Conflict, GiveUp
<1>3. CASE \E w \in Writers : Commit(w) \/ Publish(w)
  BY <1>3 DEF Commit, Publish
<1>4. CASE \E i \in Instances : Check(i)
  BY <1>4 DEF Check, Look, ReadEntries, ReadNothing, ReadBroken, LookFails, Flush, Forget,
              AnswerReader
<1>5. CASE \E i \in Instances : Start(i) \/ Stop(i) \/ Exit(i) \/ Crash(i)
  BY <1>5 DEF Start, Stop, Exit, Crash, Gone
<1>. QED BY <1>1, <1>2, <1>3, <1>4, <1>5 DEF Next, Tell, vars, objectVars

\* A teller's read of the object is what it was, given up, or the object as it is.
LEMMA BaseSteps ==
    ASSUME DOMAIN base = Tellers, [Next]_vars
    PROVE  /\ DOMAIN base' = Tellers
           /\ \A t \in Tellers :
                \/ base'[t] = base[t]
                \/ base'[t] = NoBase
                \/ base'[t] = [object |-> object, at |-> clock] /\ UNCHANGED <<objectVars, clock>>
<1>1. CASE \E t \in Tellers : ReadToWrite(t)
  BY <1>1 DEF ReadToWrite, lifeVars
<1>2. CASE \E t \in Tellers : Write(t) \/ WriteUnanswered(t) \/ Conflict(t) \/ GiveUp(t)
  BY <1>2 DEF Write, WriteUnanswered, Conflict, GiveUp, Keep
<1>3. CASE \E w \in Writers : Commit(w) \/ Publish(w)
  BY <1>3 DEF Commit, Publish
<1>4. CASE \E i \in Instances : Check(i)
  BY <1>4 DEF Check, Look, ReadEntries, ReadNothing, ReadBroken, LookFails, Flush, Forget,
              AnswerReader, tellVars
<1>5. CASE \E i \in Instances : Start(i) \/ Stop(i)
  BY <1>5 DEF Start, Stop, tellVars
<1>6. CASE \E i \in Instances : Exit(i) \/ Crash(i)
  BY <1>6 DEF Exit, Crash, Gone
<1>7. CASE Break
  BY <1>7 DEF Break, tellVars
<1>. QED BY <1>1, <1>2, <1>3, <1>4, <1>5, <1>6, <1>7 DEF Next, Tell, vars, tellVars

\* Time and the names given to instances only grow.
LEMMA LifeSteps ==
    ASSUME clock \in Nat, starts \in Nat, [Next]_vars
    PROVE  /\ clock' \in Nat /\ clock <= clock' /\ starts' \in Nat /\ starts <= starts'
           /\ \/ UNCHANGED <<clock, starts, started>>
              \/ \E i \in Instances : Start(i)
<1>1. CASE \E t \in Tellers : Tell(t)
  BY <1>1 DEF Tell, ReadToWrite, Write, WriteUnanswered, Conflict, GiveUp, lifeVars
<1>3. CASE \E w \in Writers : Commit(w) \/ Publish(w)
  BY <1>3 DEF Commit, Publish, lifeVars
<1>4. CASE \E i \in Instances : Check(i)
  BY <1>4 DEF Check, Look, ReadEntries, ReadNothing, ReadBroken, LookFails, Flush, Forget,
              AnswerReader, lifeVars
<1>5. CASE \E i \in Instances : Start(i)
  <2>1. PICK i \in Instances : Start(i)
    BY <1>5
  <2>2. PICK later \in {0, 1} : clock' = clock + later
    BY <2>1 DEF Start
  <2>3. starts' = starts + 1
    BY <2>1 DEF Start
  <2>. QED BY <1>5, <2>2, <2>3
<1>6. CASE \E i \in Instances : Stop(i) \/ Exit(i) \/ Crash(i)
  BY <1>6 DEF Stop, Exit, Crash, Gone, lifeVars
<1>7. CASE Break
  BY <1>7 DEF Break, lifeVars
<1>. QED BY <1>1, <1>3, <1>4, <1>5, <1>6, <1>7 DEF Next, vars, lifeVars

\* What a step makes of the object: the next version of it, and no entry lost
\* unless it is broken.
LEMMA NextVersion ==
    ASSUME Versions, Types, Telling, [Next]_vars
    PROVE  /\ generation' \in Nat /\ generation <= generation'
           /\ Version(object', generation', clock', starts')
           /\ object' # object => object'.gen \in {0, generation + 1}
<1>. USE DEF Versions
<1>1. /\ clock' \in Nat /\ clock <= clock' /\ starts' \in Nat /\ starts <= starts'
  BY LifeSteps
<1>2. CASE UNCHANGED objectVars
  <2>1. Version(object, generation, clock', starts')
    BY <1>1, VersionAges
  <2>. QED BY <1>2, <2>1 DEF objectVars
<1>3. CASE \E t \in Tellers :
             tpc[t] = "write" /\ object.gen = base[t].object.gen /\ Take(t)
  <2>1. PICK t \in Tellers : tpc[t] = "write" /\ object.gen = base[t].object.gen /\ Take(t)
    BY <1>3
  <2>2. /\ Version(object', generation', clock, starts) /\ generation' = generation + 1
        /\ object'.gen = generation + 1
    BY <2>1, TakeAppends DEF Adds
  <2>3. Version(object', generation', clock', starts')
    BY <1>1, <2>2, VersionAges
  <2>. QED BY <2>2, <2>3
<1>4. CASE Break
  <2>1. \/ object' = Absent /\ generation' = generation
        \/ object' = [Absent EXCEPT !.gen = generation + 1] /\ generation' = generation + 1
    BY <1>4 DEF Break
  <2>2. CASE object' = Absent /\ generation' = generation
    <3>1. Absent.gen = 0
      BY DEF Absent
    <3>2. Version(Absent, generation, clock', starts')
      BY <1>1, NothingIsVersion
    <3>. QED BY <2>2, <3>1, <3>2
  <2>3. CASE object' = [Absent EXCEPT !.gen = generation + 1] /\ generation' = generation + 1
    <3>. DEFINE g == generation + 1
    <3>1. g \in Nat /\ g > 0 /\ object' = [Absent EXCEPT !.gen = g] /\ generation' = g
      BY <2>3
    <3>2. object'.gen = g
      BY <3>1 DEF Absent
    <3>. HIDE DEF g
    <3>3. Version([Absent EXCEPT !.gen = g], g, clock', starts')
      BY <1>1, <3>1, NothingIsVersion
    <3>. QED BY <3>1, <3>2, <3>3 DEF g
  <2>. QED BY <2>1, <2>2, <2>3
<1>. QED BY <1>2, <1>3, <1>4, ObjectSteps

LEMMA VersionsKept ==
    ASSUME Versions, Types, Telling, [Next]_vars
    PROVE  Versions'
<1>1. /\ clock' \in Nat /\ clock <= clock' /\ starts' \in Nat /\ starts <= starts'
  BY LifeSteps DEF Versions
<1>2. /\ generation' \in Nat /\ generation <= generation'
      /\ Version(object', generation', clock', starts')
      /\ object' # object => object'.gen \in {0, generation + 1}
  BY NextVersion
<1>3. ASSUME NEW t \in Tellers
      PROVE  /\ Version(base'[t].object, generation', clock', starts') /\ base'[t].at \in 0 .. clock'
             /\ \A n \in 1 .. base'[t].object.seq : base'[t].object.entry[n].at <= base'[t].at
             /\ base'[t].object.gen = object'.gen => base'[t].object = object'
  <2>1. /\ Version(base[t].object, generation, clock, starts) /\ base[t].at \in 0 .. clock
        /\ \A n \in 1 .. base[t].object.seq : base[t].object.entry[n].at <= base[t].at
        /\ base[t].object.gen = object.gen => base[t].object = object
        /\ Version(object, generation, clock, starts)
        /\ generation \in Nat /\ clock \in Nat /\ starts \in Nat
    BY DEF Versions
  <2>2. CASE base'[t] = base[t]
    <3>1. Version(base[t].object, generation', clock', starts') /\ base[t].at \in 0 .. clock'
      BY <1>1, <1>2, <2>1, VersionAges
    <3>2. base[t].object.gen \in 0 .. generation /\ (base[t].object.gen = 0 => base[t].object = Absent)
      BY <2>1 DEF Version
    <3>3. object'.gen = 0 => object' = Absent
      BY <1>2 DEF Version
    <3>4. base[t].object.gen = object'.gen => base[t].object = object'
      BY <1>2, <2>1, <3>2, <3>3
    <3>. QED BY <2>1, <2>2, <3>1, <3>4
  <2>3. CASE base'[t] = NoBase
    <3>1. base'[t].object = Absent /\ base'[t].at = 0 /\ Absent.gen = 0 /\ Absent.seq = 0
      BY <2>3 DEF NoBase, Absent
    <3>2. Version(Absent, generation', clock', starts')
      BY <1>1, <1>2, NothingIsVersion
    <3>3. object'.gen = 0 => object' = Absent
      BY <1>2 DEF Version
    <3>. QED BY <1>1, <3>1, <3>2, <3>3
  <2>4. CASE base'[t] = [object |-> object, at |-> clock] /\ UNCHANGED <<objectVars, clock>>
    <3>1. /\ base'[t].object = object /\ base'[t].at = clock /\ object' = object
          /\ clock' = clock
      BY <2>4 DEF objectVars
    <3>2. \A n \in 1 .. object.seq : object.entry[n].at <= clock
      BY <2>1 DEF Version
    <3>. QED BY <1>1, <1>2, <2>1, <3>1, <3>2
  <2>. QED BY <2>2, <2>3, <2>4, BaseSteps DEF Versions
<1>. QED BY <1>1, <1>2, <1>3, BaseSteps DEF Versions

-----------------------------------------------------------------------------
(***************************************************************************)
(* Types                                                                   *)
(***************************************************************************)
\* An instance keeps its name until it goes down, and starts under a new one.
LEMMA NameSteps ==
    ASSUME DOMAIN self = Instances, [Next]_vars
    PROVE  \/ UNCHANGED <<self, started>>
           \/ \E i \in Instances : Start(i)
           \/ \E i \in Instances : self' = [self EXCEPT ![i] = 0] /\ UNCHANGED started
                                   /\ (Exit(i) \/ Crash(i))
<1>1. CASE \E t \in Tellers : Tell(t)
  BY <1>1 DEF Tell, ReadToWrite, Write, WriteUnanswered, Conflict, GiveUp, lifeVars
<1>2. CASE \E w \in Writers : Commit(w) \/ Publish(w)
  BY <1>2 DEF Commit, Publish, lifeVars
<1>3. CASE \E i \in Instances : Check(i)
  BY <1>3 DEF Check, Look, ReadEntries, ReadNothing, ReadBroken, LookFails, Flush, Forget,
              AnswerReader, lifeVars
<1>4. CASE \E i \in Instances : Stop(i) \/ Exit(i) \/ Crash(i)
  BY <1>4 DEF Stop, Exit, Crash, Gone, lifeVars
<1>5. CASE Break
  BY <1>5 DEF Break, lifeVars
<1>. QED BY <1>1, <1>2, <1>3, <1>4, <1>5 DEF Next, vars, lifeVars

LEMMA NamesKept ==
    ASSUME Versions, Names, [Next]_vars
    PROVE  Names'
<1>1. clock' \in Nat /\ clock <= clock' /\ starts' \in Nat /\ starts <= starts'
      /\ clock \in Nat /\ starts \in Nat
  BY LifeSteps DEF Versions
<1>2. 0 .. clock \subseteq 0 .. clock' /\ 0 .. starts \subseteq 0 .. starts'
  BY <1>1
<1>3. CASE UNCHANGED <<self, started>>
  BY <1>2, <1>3 DEF Names, Up
<1>4. ASSUME NEW i \in Instances, Start(i)
      PROVE  Names'
  <2>1. /\ self' = [self EXCEPT ![i] = starts + 1] /\ starts' = starts + 1
    BY <1>4 DEF Start
  <2>2. PICK later \in {0, 1} : /\ clock' = clock + later
                                /\ started' = [started EXCEPT ![i] = clock + later]
    BY <1>4 DEF Start
  <2>3. self' \in [Instances -> 0 .. starts']
    BY <1>1, <1>2, <2>1 DEF Names
  <2>4. started' \in [Instances -> 0 .. clock']
    BY <1>1, <1>2, <2>2 DEF Names
  <2>5. \A k \in Instances : self[k] \in 0 .. starts
    BY DEF Names
  <2>6. \A j, k \in Instances : self'[j] # 0 /\ self'[j] = self'[k] => j = k
    BY <1>1, <2>1, <2>5 DEF Names, Up
  <2>. QED BY <2>3, <2>4, <2>6 DEF Names, Up
<1>5. ASSUME NEW i \in Instances, self' = [self EXCEPT ![i] = 0], UNCHANGED started
      PROVE  Names'
  <2>1. self' \in [Instances -> 0 .. starts'] /\ started' \in [Instances -> 0 .. clock']
    BY <1>1, <1>2, <1>5 DEF Names
  <2>2. \A j, k \in Instances : self'[j] # 0 /\ self'[j] = self'[k] => j = k
    BY <1>5 DEF Names, Up
  <2>. QED BY <2>1, <2>2 DEF Names, Up
<1>. QED BY <1>3, <1>4, <1>5, NameSteps DEF Names

\* An instance remembers the object it read, or nothing once it is down.
LEMMA SeenSteps ==
    ASSUME DOMAIN seen = Instances, [Next]_vars
    PROVE  \/ UNCHANGED seenVars
           \/ \E i \in Instances : ReadEntries(i) \/ ReadNothing(i) \/ ReadBroken(i)
           \/ \E i \in Instances : /\ Exit(i) \/ Crash(i)
                                   /\ seen' = [seen EXCEPT ![i] = Unseen]
                                   /\ known' = [known EXCEPT ![i] = {}]
<1>1. CASE \E t \in Tellers : Tell(t)
  BY <1>1 DEF Tell, ReadToWrite, Write, WriteUnanswered, Conflict, GiveUp, lookVars
<1>2. CASE \E w \in Writers : Commit(w) \/ Publish(w)
  BY <1>2 DEF Commit, Publish, lookVars
<1>3. CASE \E i \in Instances : Look(i) \/ LookFails(i) \/ Flush(i) \/ Forget(i) \/ AnswerReader(i)
  BY <1>3 DEF Look, LookFails, Flush, Forget, AnswerReader
<1>4. CASE \E i \in Instances : Start(i) \/ Stop(i)
  BY <1>4 DEF Start, Stop, lookVars
<1>5. CASE \E i \in Instances : Exit(i) \/ Crash(i)
  BY <1>5 DEF Exit, Crash, Gone
<1>6. CASE Break
  BY <1>6 DEF Break, lookVars
<1>. QED BY <1>1, <1>2, <1>3, <1>4, <1>5, <1>6 DEF Next, Check, vars, lookVars

LEMMA LooksKept ==
    ASSUME Versions, Types, Telling, [Next]_vars
    PROVE  Looks'
<1>. DEFINE S(g) == [gen : 0 .. g, run : 0 .. g, seq : Int]
<1>1. /\ generation \in Nat /\ generation' \in Nat /\ generation <= generation'
      /\ object.gen \in 0 .. generation /\ object.run \in 0 .. generation /\ object.seq \in Int
  <2>1. Version(object, generation, clock, starts) /\ generation \in Nat
    BY DEF Versions
  <2>2. generation' \in Nat /\ generation <= generation'
    BY NextVersion
  <2>. QED BY <2>1, <2>2 DEF Version
<1>2. S(generation) \subseteq S(generation')
  BY <1>1
<1>3. DOMAIN seen = Instances /\ \A i \in Instances : seen[i] \in S(generation)
  BY DEF Types, Looks
<1>4. CASE UNCHANGED seenVars
  BY <1>2, <1>3, <1>4 DEF Types, Looks, seenVars
<1>5. ASSUME NEW i \in Instances, ReadEntries(i)
      PROVE  Looks'
  <2>1. seen' = [seen EXCEPT ![i] = [gen |-> object.gen, run |-> object.run, seq |-> object.seq]]
    BY <1>5 DEF ReadEntries
  <2>2. [gen |-> object.gen, run |-> object.run, seq |-> object.seq] \in S(generation')
    BY <1>1
  <2>. QED BY <1>2, <1>3, <2>1, <2>2 DEF Looks
<1>6. ASSUME NEW i \in Instances, ReadNothing(i)
      PROVE  Looks'
  <2>1. seen' = [seen EXCEPT ![i].gen = 0, ![i].seq = 0]
    BY <1>6 DEF ReadNothing
  <2>2. [gen |-> 0, run |-> seen[i].run, seq |-> 0] \in S(generation')
    BY <1>1, <1>3
  <2>3. seen'[i] = [gen |-> 0, run |-> seen[i].run, seq |-> 0]
    <3>1. seen'[i] = [seen[i] EXCEPT !.gen = 0, !.seq = 0]
      BY <1>3, <2>1
    <3>. QED BY <1>3, <3>1
  <2>4. DOMAIN seen' = Instances /\ \A j \in Instances \ {i} : seen'[j] = seen[j]
    BY <1>3, <2>1
  <2>5. \A j \in Instances : seen'[j] \in S(generation')
    BY <1>2, <1>3, <2>2, <2>3, <2>4
  <2>6. seen' = [j \in Instances |-> seen'[j]]
    <3>1. seen' = [seen EXCEPT ![i] = seen'[i]]
      BY <1>3, <2>1
    <3>. QED BY <1>3, <3>1, <2>4
  <2>. QED BY <2>5, <2>6 DEF Looks
<1>7. ASSUME NEW i \in Instances, ReadBroken(i)
      PROVE  Looks'
  <2>1. seen' = [seen EXCEPT ![i].gen = object.gen]
    BY <1>7 DEF ReadBroken
  <2>2. [seen[i] EXCEPT !.gen = object.gen] \in S(generation')
    BY <1>1, <1>3
  <2>. QED BY <1>2, <1>3, <2>1, <2>2 DEF Looks
<1>8. ASSUME NEW i \in Instances, seen' = [seen EXCEPT ![i] = Unseen]
      PROVE  Looks'
  <2>1. Unseen \in S(generation')
    BY <1>1 DEF Unseen
  <2>. QED BY <1>2, <1>3, <1>8, <2>1 DEF Looks
<1>. QED BY <1>3, <1>4, <1>5, <1>6, <1>7, <1>8, SeenSteps

LEMMA SinceType ==
    ASSUME NEW i \in Instances, Versions
    PROVE  since(i, object) \in SUBSET Writers
<1>1. Unread(i, object) \subseteq 1 .. object.seq
  BY DEF Versions, Version, Unread, Kept
<1>2. \A n \in 1 .. object.seq : object.entry[n].news \in SUBSET Writers
  BY DEF Versions, Version
<1>3. TakeFrom(i, object, Unread(i, object)) \in SUBSET Writers
  BY <1>1, <1>2 DEF TakeFrom
<1>. QED BY <1>3 DEF since, Everything

LEMMA SetsAndLabelsKept ==
    ASSUME Versions, Types, Telling, [Next]_vars
    PROVE  Sets' /\ Labels' /\ breaks' \in Nat
<1>. USE HomeType
<1>1. Sets /\ Labels /\ breaks \in Nat /\ Writers \subseteq Tellers /\ Instances \subseteq Tellers
  BY DEF Types, Tellers
<1>2. ASSUME NEW w \in Writers, Commit(w)
      PROVE  Sets' /\ Labels' /\ breaks' \in Nat
  BY <1>1, <1>2 DEF Commit, Sets, Labels, TPc, objectVars, lifeVars, lookVars, seenVars
<1>3. ASSUME NEW w \in Writers, Publish(w)
      PROVE  Sets' /\ Labels' /\ breaks' \in Nat
  <2>1. Home[w] \in Instances
    BY MarkerAssumption
  <2>. QED BY <1>1, <1>3, <2>1 DEF Publish, Sets, Labels, TPc, objectVars, lifeVars, lookVars, seenVars
<1>4. ASSUME NEW t \in Tellers, ReadToWrite(t) \/ Conflict(t)
      PROVE  Sets' /\ Labels' /\ breaks' \in Nat
  BY <1>1, <1>4 DEF ReadToWrite, Conflict, Sets, Labels, TPc, objectVars, lifeVars, lookVars, seenVars
<1>5. ASSUME NEW t \in Tellers, Write(t)
      PROVE  Sets' /\ Labels' /\ breaks' \in Nat
  BY <1>1, <1>5 DEF Write, Take, Sets, Labels, TPc, lifeVars, lookVars, seenVars
<1>6. ASSUME NEW t \in Tellers, Keep(t), breaks' = breaks, posted' \subseteq Writers,
             UNCHANGED <<lost, news, owes, due, known, at>>
      PROVE  Sets' /\ Labels' /\ breaks' \in Nat
  BY <1>1, <1>6 DEF Keep, Sets, Labels, TPc
<1>7. ASSUME NEW t \in Tellers, WriteUnanswered(t)
      PROVE  Sets' /\ Labels' /\ breaks' \in Nat
  <2>1. posted' \subseteq Writers /\ UNCHANGED <<lost, news, owes, due, known, at, breaks>>
    BY <1>1, <1>7 DEF WriteUnanswered, Take, Sets, lifeVars, lookVars, seenVars
  <2>2. CASE TPc(t, "read") /\ UNCHANGED <<carry, pending>>
    BY <1>1, <2>1, <2>2 DEF TPc, Sets, Labels
  <2>. QED BY <1>6, <1>7, <2>1, <2>2 DEF WriteUnanswered
<1>8. ASSUME NEW t \in Tellers, GiveUp(t)
      PROVE  Sets' /\ Labels' /\ breaks' \in Nat
  BY <1>1, <1>6, <1>8 DEF GiveUp, Sets, objectVars, lifeVars, lookVars, seenVars
<1>9. ASSUME NEW i \in Instances, Look(i) \/ LookFails(i) \/ AnswerReader(i)
      PROVE  Sets' /\ Labels' /\ breaks' \in Nat
  BY <1>1, <1>9 DEF Look, LookFails, AnswerReader, Sets, Labels, At, objectVars, lifeVars,
                    tellVars, lookVars, seenVars
<1>10. ASSUME NEW i \in Instances, ReadEntries(i) \/ ReadNothing(i) \/ ReadBroken(i)
       PROVE  Sets' /\ Labels' /\ breaks' \in Nat
  <2>1. since(i, object) \in SUBSET Writers /\ Everything \in SUBSET Writers
    BY SinceType DEF Everything
  <2>2. /\ at' = [at EXCEPT ![i] = "flush"] /\ known' = [known EXCEPT ![i] = posted]
        /\ UNCHANGED <<posted, lost, pending, carry, tpc, owes, due, breaks>>
    BY <1>10 DEF ReadEntries, ReadNothing, ReadBroken, At, objectVars, lifeVars, tellVars
  <2>3. \E s \in SUBSET Writers : news' = [news EXCEPT ![i] = s]
    BY <1>10, <2>1 DEF ReadEntries, ReadNothing, ReadBroken
  <2>. QED BY <1>1, <2>2, <2>3 DEF Sets, Labels
<1>11. ASSUME NEW i \in Instances, Flush(i)
       PROVE  Sets' /\ Labels' /\ breaks' \in Nat
  BY <1>1, <1>11 DEF Flush, Sets, Labels, At, TPc, objectVars, lifeVars, seenVars
<1>12. ASSUME NEW i \in Instances, Forget(i)
       PROVE  Sets' /\ Labels' /\ breaks' \in Nat
  BY <1>1, <1>12 DEF Forget, Sets, Labels, At, objectVars, lifeVars, tellVars, seenVars
<1>13. ASSUME NEW i \in Instances, Start(i) \/ Stop(i)
       PROVE  Sets' /\ Labels' /\ breaks' \in Nat
  BY <1>1, <1>13 DEF Start, Stop, Sets, Labels, At, objectVars, lifeVars, tellVars, lookVars, seenVars
<1>14. ASSUME NEW i \in Instances, Gone(i)
       PROVE  Sets' /\ Labels' /\ breaks' \in Nat
  <2>1. pending[i] \subseteq Writers /\ \A t \in Tellers : carry[t] \subseteq Writers
    BY <1>1 DEF Sets
  <2>2. lost' \subseteq Writers /\ posted' \subseteq Writers /\ breaks' \in Nat
    BY <1>1, <1>14, <2>1 DEF Gone, Sets, objectVars
  <2>3. /\ pending' \in [Instances -> SUBSET Writers] /\ news' \in [Instances -> SUBSET Writers]
        /\ carry' \in [Tellers -> SUBSET Writers] /\ owes' \in [Instances -> SUBSET Writers]
        /\ due' \in [Instances -> SUBSET Writers] /\ known' \in [Instances -> SUBSET Writers]
    BY <1>1, <1>14 DEF Gone, Sets
  <2>4. Labels'
    BY <1>1, <1>14 DEF Gone, Labels, At
  <2>. QED BY <2>2, <2>3, <2>4 DEF Sets
<1>15. CASE Break
  BY <1>1, <1>15 DEF Break, Sets, Labels, lifeVars, tellVars, lookVars, seenVars
<1>16. CASE UNCHANGED vars
  BY <1>1, <1>16 DEF vars, Sets, Labels, objectVars, lifeVars, tellVars, lookVars, seenVars
<1>. QED BY <1>2, <1>3, <1>4, <1>5, <1>7, <1>8, <1>9, <1>10, <1>11, <1>12, <1>13, <1>14, <1>15, <1>16
         DEF Next, Tell, Check, Exit, Crash

LEMMA TypesKept ==
    ASSUME Versions, Types, Telling, [Next]_vars
    PROVE  Types'
BY NamesKept, LooksKept, SetsAndLabelsKept DEF Types

-----------------------------------------------------------------------------
(***************************************************************************)
(* The telling of news                                                     *)
(***************************************************************************)
\* The end of a telling that keeps its news for a later one.
LEMMA KeepTells ==
    ASSUME Types, Telling, Remembered, NEW t \in Tellers, tpc[t] \in {"read", "write"}, Keep(t),
           posted \subseteq posted', posted' \subseteq posted \cup carry[t],
           UNCHANGED <<self, at, lost>>
    PROVE  Telling' /\ Remembered'
<1>. USE HomeType
<1>1. /\ pending \in [Instances -> SUBSET Writers] /\ carry \in [Tellers -> SUBSET Writers]
      /\ tpc \in [Tellers -> {"idle", "publish", "read", "write", "done"}]
      /\ Writers \subseteq Tellers /\ Instances \subseteq Tellers
  BY DEF Types, Sets, Labels, Tellers
<1>2. /\ HomeOf(t) \in Instances
      /\ pending' = [pending EXCEPT ![HomeOf(t)] = @ \cup carry[t]]
      /\ tpc' = [tpc EXCEPT ![t] = IF t \in Writers THEN "done" ELSE "idle"]
      /\ carry' = [carry EXCEPT ![t] = {}]
  BY DEF Keep, TPc
<1>3. \A w \in carry[t] : Home[w] = HomeOf(t)
  BY DEF Telling
<1>4. \A w \in Writers : tpc[w] # "idle" => tpc'[w] # "idle"
  BY <1>1, <1>2
<1>5. Telling'
  <2>1. \A u \in Tellers : tpc'[u] \in {"publish", "read", "write"} => Up(HomeOf(u))'
    BY <1>1, <1>2 DEF Telling, Up
  <2>2. \A u \in Tellers : tpc'[u] \in {"idle", "done"} => carry'[u] = {}
    BY <1>1, <1>2 DEF Telling
  <2>3. \A w \in Writers : tpc'[w] \in {"publish", "read", "write"} => w \in carry'[w]
    BY <1>1, <1>2 DEF Telling
  <2>4. \A u \in Tellers : \A w \in carry'[u] : Home[w] = HomeOf(u) /\ tpc'[w] # "idle"
    BY <1>1, <1>2, <1>4 DEF Telling
  <2>5. \A i \in Instances : \A w \in pending'[i] : Home[w] = i /\ tpc'[w] # "idle"
    BY <1>1, <1>2, <1>3, <1>4 DEF Telling
  <2>6. \A w \in posted' : tpc'[w] # "idle"
    BY <1>1, <1>4 DEF Telling, Types, Sets
  <2>7. \A i \in Instances :
          /\ tpc'[i] \in {"idle", "read", "write"}
          /\ at'[i] \notin {"flushing", "stopping"} => tpc'[i] = "idle"
          /\ at'[i] # "idle" => Up(i)'
    BY <1>1, <1>2, MarkerAssumption DEF Telling, Up
  <2>. QED BY <2>1, <2>2, <2>3, <2>4, <2>5, <2>6, <2>7 DEF Telling, HomeOf
<1>6. ASSUME NEW w \in Writers, tpc'[w] = "done"
      PROVE  Held(w)'
  <2>0. Home[w] \in Instances /\ pending[Home[w]] \subseteq pending'[Home[w]]
    BY <1>1, <1>2, MarkerAssumption
  <2>1. CASE w \in carry[t]
    BY <1>1, <1>2, <1>3, <2>0, <2>1 DEF Held
  <2>2. CASE w \notin carry[t]
    <3>1. tpc[w] = "done"
      BY <1>1, <1>2, <1>6, <2>2 DEF Telling
    <3>. QED BY <1>1, <1>2, <2>0, <2>2, <3>1 DEF Remembered, Held
  <2>. QED BY <2>1, <2>2
<1>. QED BY <1>5, <1>6 DEF Remembered

\* The news of a write that the store takes is told.
LEMMA TakeTells ==
    ASSUME Types, Telling, Remembered, NEW t \in Tellers, Write(t)
    PROVE  Telling' /\ Remembered'
<1>. USE HomeType
<1>1. /\ carry \in [Tellers -> SUBSET Writers]
      /\ tpc \in [Tellers -> {"idle", "publish", "read", "write", "done"}]
      /\ Writers \subseteq Tellers /\ Instances \subseteq Tellers
  BY DEF Types, Sets, Labels, Tellers
<1>2. /\ tpc[t] = "write" /\ posted' = posted \cup carry[t]
      /\ tpc' = [tpc EXCEPT ![t] = IF t \in Writers THEN "done" ELSE "idle"]
      /\ carry' = [carry EXCEPT ![t] = {}]
      /\ UNCHANGED <<self, at, lost, pending>>
  BY DEF Write, Take, TPc, lifeVars, lookVars
<1>4. \A w \in Writers : tpc[w] # "idle" => tpc'[w] # "idle"
  BY <1>1, <1>2
<1>5. Telling'
  <2>1. \A u \in Tellers : tpc'[u] \in {"publish", "read", "write"} => Up(HomeOf(u))'
    BY <1>1, <1>2 DEF Telling, Up
  <2>2. \A u \in Tellers : tpc'[u] \in {"idle", "done"} => carry'[u] = {}
    BY <1>1, <1>2 DEF Telling
  <2>3. \A w \in Writers : tpc'[w] \in {"publish", "read", "write"} => w \in carry'[w]
    BY <1>1, <1>2 DEF Telling
  <2>4. \A u \in Tellers : \A w \in carry'[u] : Home[w] = HomeOf(u) /\ tpc'[w] # "idle"
    BY <1>1, <1>2, <1>4 DEF Telling
  <2>5. \A i \in Instances : \A w \in pending'[i] : Home[w] = i /\ tpc'[w] # "idle"
    BY <1>1, <1>2, <1>4 DEF Telling, Types, Sets
  <2>6. \A w \in posted' : tpc'[w] # "idle"
    BY <1>1, <1>2, <1>4 DEF Telling, Types, Sets
  <2>7. \A i \in Instances :
          /\ tpc'[i] \in {"idle", "read", "write"}
          /\ at'[i] \notin {"flushing", "stopping"} => tpc'[i] = "idle"
          /\ at'[i] # "idle" => Up(i)'
    BY <1>1, <1>2, MarkerAssumption DEF Telling, Up
  <2>. QED BY <2>1, <2>2, <2>3, <2>4, <2>5, <2>6, <2>7 DEF Telling, HomeOf
<1>6. ASSUME NEW w \in Writers, tpc'[w] = "done"
      PROVE  Held(w)'
  <2>1. CASE w \in carry[t]
    BY <1>2, <2>1 DEF Held
  <2>2. CASE w \notin carry[t]
    <3>1. tpc[w] = "done"
      BY <1>1, <1>2, <1>6, <2>2 DEF Telling
    <3>. QED BY <1>1, <1>2, <2>2, <3>1 DEF Remembered, Held
  <2>. QED BY <2>1, <2>2
<1>. QED BY <1>5, <1>6 DEF Remembered

\* A process that is gone takes with it what it had not told.
LEMMA GoneTells ==
    ASSUME Types, Telling, Remembered, NEW i \in Instances, Gone(i)
    PROVE  Telling' /\ Remembered'
<1>. USE HomeType
<1>1. /\ pending \in [Instances -> SUBSET Writers] /\ carry \in [Tellers -> SUBSET Writers]
      /\ tpc \in [Tellers -> {"idle", "publish", "read", "write", "done"}]
      /\ Writers \subseteq Tellers /\ Instances \subseteq Tellers
      /\ at \in [Instances -> {"idle", "read", "flush", "flushing", "answer", "stop", "stopping"}]
      /\ DOMAIN self = Instances
  BY DEF Types, Sets, Labels, Tellers, Names
<1>2. /\ self' = [self EXCEPT ![i] = 0]
      /\ lost' = lost \cup pending[i]
                    \cup UNION {carry[t] : t \in {t \in Tellers : HomeOf(t) = i}}
      /\ pending' = [pending EXCEPT ![i] = {}]
      /\ tpc' = [t \in Tellers |->
                   IF HomeOf(t) # i THEN tpc[t]
                   ELSE IF t \in Writers /\ tpc[t] # "idle" THEN "done" ELSE "idle"]
      /\ carry' = [t \in Tellers |-> IF HomeOf(t) = i THEN {} ELSE carry[t]]
      /\ at' = [at EXCEPT ![i] = "idle"] /\ posted' = posted
  BY DEF Gone, At, objectVars
<1>3. \A t \in Tellers : HomeOf(t) = i => carry[t] \subseteq lost'
  BY <1>2
<1>4. \A w \in Writers : tpc[w] # "idle" => tpc'[w] # "idle"
  BY <1>1, <1>2
<1>5. Telling'
  <2>1. \A u \in Tellers : tpc'[u] \in {"publish", "read", "write"} => Up(HomeOf(u))'
    BY <1>1, <1>2 DEF Telling, Up
  <2>2. \A u \in Tellers : tpc'[u] \in {"idle", "done"} => carry'[u] = {}
    BY <1>1, <1>2 DEF Telling
  <2>3. \A w \in Writers : tpc'[w] \in {"publish", "read", "write"} => w \in carry'[w]
    BY <1>1, <1>2 DEF Telling
  <2>4. \A u \in Tellers : \A w \in carry'[u] : Home[w] = HomeOf(u) /\ tpc'[w] # "idle"
    BY <1>1, <1>2, <1>4 DEF Telling
  <2>5. \A j \in Instances : \A w \in pending'[j] : Home[w] = j /\ tpc'[w] # "idle"
    BY <1>1, <1>2, <1>4 DEF Telling
  <2>6. \A w \in posted' : tpc'[w] # "idle"
    BY <1>1, <1>2, <1>4 DEF Telling, Types, Sets
  <2>7. \A j \in Instances :
          /\ tpc'[j] \in {"idle", "read", "write"}
          /\ at'[j] \notin {"flushing", "stopping"} => tpc'[j] = "idle"
          /\ at'[j] # "idle" => Up(j)'
    <3>. TAKE j \in Instances
    <3>1. HomeOf(j) = j /\ j \notin Writers
      BY MarkerAssumption DEF HomeOf
    <3>. QED BY <1>1, <1>2, <3>1 DEF Telling, Up
  <2>. QED BY <2>1, <2>2, <2>3, <2>4, <2>5, <2>6, <2>7 DEF Telling, HomeOf
<1>6. ASSUME NEW w \in Writers, tpc'[w] = "done"
      PROVE  Held(w)'
  <2>1. w \in carry[w] \/ Held(w)
    BY <1>1, <1>2, <1>6 DEF Telling, Remembered
  <2>2. ASSUME NEW t \in Tellers, w \in carry[t]
        PROVE  Held(w)'
    BY <1>2, <1>3, <2>2 DEF Held
  <2>3. CASE w \in posted \/ w \in lost
    BY <1>2, <2>3 DEF Held
  <2>4. CASE w \in pending[Home[w]]
    BY <1>1, <1>2, <2>4, MarkerAssumption DEF Held
  <2>. QED BY <1>1, <2>1, <2>2, <2>3, <2>4 DEF Held
<1>. QED BY <1>5, <1>6 DEF Remembered

\* flush takes up what is kept.
LEMMA FlushTells ==
    ASSUME Types, Telling, Remembered, NEW i \in Instances, Flush(i)
    PROVE  Telling' /\ Remembered'
<1>1. /\ pending \in [Instances -> SUBSET Writers] /\ carry \in [Tellers -> SUBSET Writers]
      /\ tpc \in [Tellers -> {"idle", "publish", "read", "write", "done"}]
      /\ Writers \subseteq Tellers /\ Instances \subseteq Tellers
      /\ at \in [Instances -> {"idle", "read", "flush", "flushing", "answer", "stop", "stopping"}]
  BY DEF Types, Sets, Labels, Tellers
<1>2. /\ at[i] \in {"flush", "stop"}
      /\ \E label \in {"flushing", "stopping"} : at' = [at EXCEPT ![i] = label]
      /\ carry' = [carry EXCEPT ![i] = pending[i]]
      /\ pending' = [pending EXCEPT ![i] = {}]
      /\ tpc' = [tpc EXCEPT ![i] = IF pending[i] = {} THEN "idle" ELSE "read"]
      /\ UNCHANGED <<self, posted, lost>>
  BY DEF Flush, At, TPc, objectVars, lifeVars
<1>3. i \notin Writers /\ HomeOf(i) = i /\ Up(i) /\ tpc[i] = "idle" /\ carry[i] = {}
  BY <1>1, <1>2, MarkerAssumption DEF Telling, HomeOf
<1>4. \A w \in Writers : tpc'[w] = tpc[w] /\ carry'[w] = carry[w]
  BY <1>1, <1>2, <1>3
<1>5. Telling'
  <2>1. \A u \in Tellers : tpc'[u] \in {"publish", "read", "write"} => Up(HomeOf(u))'
    BY <1>1, <1>2, <1>3 DEF Telling, Up
  <2>2. \A u \in Tellers : tpc'[u] \in {"idle", "done"} => carry'[u] = {}
    BY <1>1, <1>2 DEF Telling
  <2>3. \A w \in Writers : tpc'[w] \in {"publish", "read", "write"} => w \in carry'[w]
    BY <1>1, <1>4 DEF Telling
  <2>4. \A u \in Tellers : \A w \in carry'[u] : Home[w] = HomeOf(u) /\ tpc'[w] # "idle"
    BY <1>1, <1>2, <1>3, <1>4 DEF Telling
  <2>5. \A j \in Instances : \A w \in pending'[j] : Home[w] = j /\ tpc'[w] # "idle"
    BY <1>1, <1>2, <1>4 DEF Telling
  <2>6. \A w \in posted' : tpc'[w] # "idle"
    BY <1>1, <1>2, <1>4 DEF Telling, Types, Sets
  <2>7. \A j \in Instances :
          /\ tpc'[j] \in {"idle", "read", "write"}
          /\ at'[j] \notin {"flushing", "stopping"} => tpc'[j] = "idle"
          /\ at'[j] # "idle" => Up(j)'
    BY <1>1, <1>2, <1>3 DEF Telling, Up
  <2>. QED BY <2>1, <2>2, <2>3, <2>4, <2>5, <2>6, <2>7 DEF Telling, HomeOf
<1>6. ASSUME NEW w \in Writers, tpc'[w] = "done"
      PROVE  Held(w)'
  <2>1. Held(w)
    BY <1>4, <1>6 DEF Remembered
  <2>2. CASE w \in pending[Home[w]]
    <3>1. Home[w] \in Instances
      BY MarkerAssumption
    <3>. QED BY <1>1, <1>2, <2>2, <3>1 DEF Held
  <2>3. ASSUME NEW t \in Tellers, w \in carry[t]
        PROVE  w \in carry'[t]
    BY <1>1, <1>2, <1>3, <2>3
  <2>. QED BY <1>2, <2>1, <2>2, <2>3 DEF Held
<1>. QED BY <1>5, <1>6 DEF Remembered

\* A request commits, and takes along what is kept.
LEMMA RequestTells ==
    ASSUME Types, Telling, Remembered, NEW w \in Writers, Commit(w) \/ Publish(w)
    PROVE  Telling' /\ Remembered'
<1>1. /\ pending \in [Instances -> SUBSET Writers] /\ carry \in [Tellers -> SUBSET Writers]
      /\ tpc \in [Tellers -> {"idle", "publish", "read", "write", "done"}]
      /\ Writers \subseteq Tellers /\ Instances \subseteq Tellers
      /\ Home[w] \in Instances /\ HomeOf(w) = Home[w] /\ Writers \cap Instances = {}
  BY MarkerAssumption DEF Types, Sets, Labels, Tellers, HomeOf
<1>2. /\ Up(Home[w]) /\ UNCHANGED <<self, at, posted, lost>>
      /\ \/ /\ tpc[w] = "idle" /\ tpc' = [tpc EXCEPT ![w] = "publish"]
            /\ carry' = [carry EXCEPT ![w] = {w}] /\ pending' = pending
         \/ /\ tpc[w] = "publish" /\ tpc' = [tpc EXCEPT ![w] = "read"]
            /\ carry' = [carry EXCEPT ![w] = carry[w] \cup pending[Home[w]]]
            /\ pending' = [pending EXCEPT ![Home[w]] = {}]
  BY <1>1 DEF Commit, Publish, Telling, TPc, objectVars, lifeVars, lookVars
<1>3. Telling'
  <2>0. \A v \in Writers : tpc[v] # "idle" => tpc'[v] # "idle"
    BY <1>1, <1>2
  <2>1. \A u \in Tellers : tpc'[u] \in {"publish", "read", "write"} => Up(HomeOf(u))'
    BY <1>1, <1>2 DEF Telling, Up
  <2>2. \A u \in Tellers : tpc'[u] \in {"idle", "done"} => carry'[u] = {}
    BY <1>1, <1>2 DEF Telling
  <2>3. \A v \in Writers : tpc'[v] \in {"publish", "read", "write"} => v \in carry'[v]
    BY <1>1, <1>2 DEF Telling
  <2>4. \A u \in Tellers : \A v \in carry'[u] : Home[v] = HomeOf(u) /\ tpc'[v] # "idle"
    BY <1>1, <1>2, <2>0 DEF Telling
  <2>5. \A j \in Instances : \A v \in pending'[j] : Home[v] = j /\ tpc'[v] # "idle"
    BY <1>1, <1>2, <2>0 DEF Telling
  <2>6. \A v \in posted' : tpc'[v] # "idle"
    BY <1>1, <1>2, <2>0 DEF Telling, Types, Sets
  <2>7. \A j \in Instances :
          /\ tpc'[j] \in {"idle", "read", "write"}
          /\ at'[j] \notin {"flushing", "stopping"} => tpc'[j] = "idle"
          /\ at'[j] # "idle" => Up(j)'
    BY <1>1, <1>2 DEF Telling, Up
  <2>. QED BY <2>1, <2>2, <2>3, <2>4, <2>5, <2>6, <2>7 DEF Telling, HomeOf
<1>4. ASSUME NEW v \in Writers, tpc'[v] = "done"
      PROVE  Held(v)'
  <2>1. tpc[v] = "done" /\ Held(v) /\ Home[v] \in Instances
    BY <1>1, <1>2, <1>4, MarkerAssumption DEF Remembered
  <2>2. CASE v \in posted \/ v \in lost
    BY <1>2, <2>2 DEF Held
  <2>3. CASE v \in pending[Home[v]]
    <3>1. v \in pending'[Home[v]] \/ v \in carry'[w]
      BY <1>1, <1>2, <2>1, <2>3
    <3>. QED BY <1>1, <3>1 DEF Held
  <2>4. ASSUME NEW t \in Tellers, v \in carry[t]
        PROVE  v \in carry'[t]
    BY <1>1, <1>2, <2>4 DEF Telling
  <2>. QED BY <2>1, <2>2, <2>3, <2>4 DEF Held
<1>. QED BY <1>3, <1>4 DEF Remembered

\* Steps that tell nothing.
LEMMA SilentTells ==
    ASSUME Types, Telling, Remembered, UNCHANGED <<carry, pending, lost>>, posted \subseteq posted',
           \A w \in posted' : w \in posted \/ \E t \in Tellers : w \in carry[t],
           \A i \in Instances : Up(i) => Up(i)',
           \/ \E t \in Tellers : tpc[t] \in {"read", "write"} /\ at' = at
                                 /\ \E label \in {"read", "write"} : tpc' = [tpc EXCEPT ![t] = label]
           \/ tpc' = tpc /\ at' = at
           \/ \E i \in Instances, label \in {"idle", "read", "flush", "answer", "stop"} :
                at' = [at EXCEPT ![i] = label] /\ tpc' = tpc /\ Up(i) /\ tpc[i] = "idle"
    PROVE  Telling' /\ Remembered'
<1>1. /\ tpc \in [Tellers -> {"idle", "publish", "read", "write", "done"}]
      /\ carry \in [Tellers -> SUBSET Writers]
      /\ Writers \subseteq Tellers /\ Instances \subseteq Tellers
      /\ at \in [Instances -> {"idle", "read", "flush", "flushing", "answer", "stop", "stopping"}]
  BY DEF Types, Sets, Labels, Tellers
<1>2. \A t \in Tellers :
        tpc'[t] # tpc[t] => tpc[t] \in {"read", "write"} /\ tpc'[t] \in {"read", "write"}
  <2>1. CASE tpc' = tpc
    BY <2>1
  <2>2. ASSUME NEW u \in Tellers, tpc[u] \in {"read", "write"},
               NEW label \in {"read", "write"}, tpc' = [tpc EXCEPT ![u] = label]
        PROVE  \A t \in Tellers :
                 tpc'[t] # tpc[t] => tpc[t] \in {"read", "write"} /\ tpc'[t] \in {"read", "write"}
    BY <1>1, <2>2
  <2>. QED BY <2>1, <2>2
<1>3. Telling'
  <2>1. \A u \in Tellers : tpc'[u] \in {"publish", "read", "write"} => Up(HomeOf(u))'
    BY <1>1, <1>2, HomeType DEF Telling
  <2>2. \A u \in Tellers : tpc'[u] \in {"idle", "done"} => carry'[u] = {}
    BY <1>1, <1>2 DEF Telling
  <2>3. \A v \in Writers : tpc'[v] \in {"publish", "read", "write"} => v \in carry'[v]
    BY <1>1, <1>2 DEF Telling
  <2>4. \A u \in Tellers : \A v \in carry'[u] : Home[v] = HomeOf(u) /\ tpc'[v] # "idle"
    BY <1>1, <1>2 DEF Telling
  <2>5. \A j \in Instances : \A v \in pending'[j] : Home[v] = j /\ tpc'[v] # "idle"
    BY <1>1, <1>2 DEF Telling, Types, Sets
  <2>6. \A v \in posted' : tpc'[v] # "idle"
    BY <1>1, <1>2 DEF Telling, Types, Sets
  <2>7. \A j \in Instances :
          /\ tpc'[j] \in {"idle", "read", "write"}
          /\ at'[j] \notin {"flushing", "stopping"} => tpc'[j] = "idle"
          /\ at'[j] # "idle" => Up(j)'
    BY <1>1, <1>2 DEF Telling
  <2>. QED BY <2>1, <2>2, <2>3, <2>4, <2>5, <2>6, <2>7 DEF Telling, HomeOf
<1>4. ASSUME NEW v \in Writers, tpc'[v] = "done"
      PROVE  Held(v)'
  BY <1>1, <1>2, <1>4 DEF Remembered, Held
<1>. QED BY <1>3, <1>4 DEF Remembered

LEMMA TellingKept ==
    ASSUME Versions, Types, Telling, Remembered, [Next]_vars
    PROVE  Telling' /\ Remembered'
<1>1. DOMAIN self = Instances /\ DOMAIN at = Instances /\ Instances \subseteq Tellers
  BY DEF Types, Names, Labels, Tellers
<1>2. ASSUME NEW w \in Writers, Commit(w) \/ Publish(w)
      PROVE  Telling' /\ Remembered'
  BY <1>2, RequestTells
<1>3. ASSUME NEW t \in Tellers, ReadToWrite(t) \/ Conflict(t)
      PROVE  Telling' /\ Remembered'
  BY <1>3, SilentTells DEF ReadToWrite, Conflict, TPc, objectVars, lifeVars, lookVars, Up
<1>4. ASSUME NEW t \in Tellers, Write(t)
      PROVE  Telling' /\ Remembered'
  BY <1>4, TakeTells
<1>5. ASSUME NEW t \in Tellers, WriteUnanswered(t)
      PROVE  Telling' /\ Remembered'
  <2>1. /\ tpc[t] = "write" /\ posted' = posted \cup carry[t] /\ UNCHANGED <<self, at, lost>>
        /\ \/ tpc' = [tpc EXCEPT ![t] = "read"] /\ UNCHANGED <<carry, pending>>
           \/ Keep(t)
    BY <1>5 DEF WriteUnanswered, Take, TPc, lifeVars, lookVars
  <2>2. CASE Keep(t)
    BY <2>1, <2>2, KeepTells
  <2>3. CASE tpc' = [tpc EXCEPT ![t] = "read"] /\ UNCHANGED <<carry, pending>>
    BY <2>1, <2>3, SilentTells DEF Up
  <2>. QED BY <2>1, <2>2, <2>3
<1>6. ASSUME NEW t \in Tellers, GiveUp(t)
      PROVE  Telling' /\ Remembered'
  BY <1>6, KeepTells DEF GiveUp, objectVars, lifeVars, lookVars
<1>7. ASSUME NEW i \in Instances, \/ Look(i) \/ ReadEntries(i) \/ ReadNothing(i) \/ ReadBroken(i)
                                  \/ LookFails(i) \/ Forget(i) \/ AnswerReader(i) \/ Stop(i)
      PROVE  Telling' /\ Remembered'
  <2>1. Up(i) /\ tpc[i] = "idle" /\ UNCHANGED <<carry, pending, lost, posted, self, tpc>>
    BY <1>1, <1>7 DEF Look, ReadEntries, ReadNothing, ReadBroken, LookFails, Forget, AnswerReader,
                      Stop, objectVars, lifeVars, tellVars, Telling
  <2>2. \E label \in {"idle", "read", "flush", "answer", "stop"} : at' = [at EXCEPT ![i] = label]
    BY <1>7 DEF Look, ReadEntries, ReadNothing, ReadBroken, LookFails, Forget, AnswerReader,
                Stop, At
  <2>. QED BY <2>1, <2>2, SilentTells DEF Up
<1>8. ASSUME NEW i \in Instances, Flush(i)
      PROVE  Telling' /\ Remembered'
  BY <1>8, FlushTells
<1>9. ASSUME NEW i \in Instances, Start(i)
      PROVE  Telling' /\ Remembered'
  <2>1. /\ self' = [self EXCEPT ![i] = starts + 1] /\ starts \in Nat
        /\ UNCHANGED <<carry, pending, lost, posted, tpc, at>>
    BY <1>9 DEF Start, Versions, objectVars, tellVars, lookVars
  <2>2. \A j \in Instances : Up(j) => Up(j)'
    BY <1>1, <2>1 DEF Up
  <2>. QED BY <2>1, <2>2, SilentTells
<1>10. ASSUME NEW i \in Instances, Exit(i) \/ Crash(i)
       PROVE  Telling' /\ Remembered'
  BY <1>10, GoneTells DEF Exit, Crash
<1>11. CASE Break \/ UNCHANGED vars
  <2>1. UNCHANGED <<carry, pending, lost, posted, self, tpc, at>>
    BY <1>11 DEF Break, vars, objectVars, lifeVars, tellVars, lookVars
  <2>. QED BY <2>1, SilentTells DEF Up
<1>. QED BY <1>2, <1>3, <1>4, <1>5, <1>6, <1>7, <1>8, <1>9, <1>10, <1>11 DEF Next, Tell, Check

LEMMA BaseKept ==
    ASSUME Base, [Next]_vars
    PROVE  Base'
BY VersionsKept, TypesKept, TellingKept DEF Base

-----------------------------------------------------------------------------
(***************************************************************************)
(* What the entries say, and what the instances still owe                  *)
(***************************************************************************)
\* The object is as it was, has one entry more, or is broken and has none.
LEMMA EntrySteps ==
    ASSUME Base, [Next]_vars
    PROVE  \/ UNCHANGED <<objectVars, breaks>>
           \/ \E t \in Tellers :
                /\ tpc[t] = "write" /\ Take(t) /\ UNCHANGED <<lifeVars, lookVars, owes, breaks>>
                /\ Adds(object', object, Entry(base[t].at, self[HomeOf(t)], carry[t]), generation)
                /\ carry[t] \subseteq Writers /\ posted' = posted \cup carry[t]
           \/ /\ object'.run = 0 /\ object'.seq = 0 /\ breaks' = breaks + 1
              /\ UNCHANGED <<posted, lifeVars, lookVars, owes, tpc, base, carry>>
<1>1. CASE Break
  BY <1>1 DEF Break, Absent, tellVars
<1>2. ASSUME NEW t \in Tellers, tpc[t] = "write", object.gen = base[t].object.gen, Take(t),
             Write(t) \/ WriteUnanswered(t)
      PROVE  /\ UNCHANGED <<lifeVars, lookVars, owes, breaks>>
             /\ Adds(object', object, Entry(base[t].at, self[HomeOf(t)], carry[t]), generation)
             /\ carry[t] \subseteq Writers /\ posted' = posted \cup carry[t]
  BY <1>2, TakeAppends DEF Write, WriteUnanswered, Base
<1>3. CASE UNCHANGED objectVars /\ ~Break
  <2>1. CASE \E t \in Tellers : Tell(t)
    BY <2>1, <1>3 DEF Tell, ReadToWrite, Write, WriteUnanswered, Conflict, GiveUp
  <2>2. CASE \E w \in Writers : Commit(w) \/ Publish(w)
    BY <2>2, <1>3 DEF Commit, Publish
  <2>3. CASE \E i \in Instances : Check(i)
    BY <2>3, <1>3 DEF Check, Look, ReadEntries, ReadNothing, ReadBroken, LookFails, Flush,
                      Forget, AnswerReader
  <2>4. CASE \E i \in Instances : Start(i) \/ Stop(i) \/ Exit(i) \/ Crash(i)
    BY <2>4, <1>3 DEF Start, Stop, Exit, Crash, Gone
  <2>. QED BY <1>3, <2>1, <2>2, <2>3, <2>4 DEF Next, vars
<1>. QED BY <1>1, <1>2, <1>3, ObjectSteps

LEMMA PostedGrows ==
    ASSUME Base, [Next]_vars
    PROVE  posted \subseteq posted'
BY EntrySteps DEF objectVars

LEMMA EntriesKept ==
    ASSUME Base, Entries, [Next]_vars
    PROVE  Entries'
<1>. USE DEF Base
<1>1. /\ \A n \in 1 .. object.seq : object.entry[n].by \in 1 .. starts
      /\ object.seq \in Nat /\ starts \in Nat
      /\ self \in [Instances -> 0 .. starts]
  BY DEF Versions, Version, Types, Names
<1>2. CASE UNCHANGED <<objectVars, breaks>>
  <2>1. \A i \in Instances :
          Up(i)' => self'[i] = self[i] \/ self'[i] = starts + 1
    BY <1>1, NameSteps DEF Start, Up
  <2>2. \A n \in 1 .. object.seq : \A i \in Instances :
          Up(i)' /\ object.entry[n].by = self'[i] => Up(i) /\ object.entry[n].by = self[i]
    BY <1>1, <2>1 DEF Up
  <2>. QED BY <1>2, <2>2 DEF Entries, objectVars
<1>3. ASSUME NEW t \in Tellers, UNCHANGED <<lifeVars, lookVars, owes, breaks>>,
             Adds(object', object, Entry(base[t].at, self[HomeOf(t)], carry[t]), generation),
             posted' = posted \cup carry[t], tpc[t] = "write"
      PROVE  Entries'
  <2>1. /\ self' = self /\ object'.seq = object.seq + 1
        /\ object'.entry[object'.seq] = Entry(base[t].at, self[HomeOf(t)], carry[t])
        /\ \A n \in 1 .. object.seq : object'.entry[n] = object.entry[n]
    BY <1>3 DEF Adds, lifeVars
  <2>2. SUFFICES ASSUME NEW n \in 1 .. object'.seq, NEW w \in object'.entry[n].news
                 PROVE  /\ w \in posted'
                        /\ \A i \in Instances :
                             self[i] # 0 /\ object'.entry[n].by = self[i] => Home[w] = i
    BY <2>1 DEF Entries, Up
  <2>3. CASE n \in 1 .. object.seq
    BY <1>3, <2>1, <2>2, <2>3 DEF Entries, Up
  <2>4. CASE n = object'.seq
    <3>1. object'.entry[n].news = carry[t] /\ object'.entry[n].by = self[HomeOf(t)]
      BY <2>1, <2>4 DEF Entry
    <3>2. Home[w] = HomeOf(t) /\ w \in posted'
      BY <1>3, <2>2, <3>1 DEF Telling
    <3>3. \A i \in Instances : self[i] # 0 /\ self[HomeOf(t)] = self[i] => HomeOf(t) = i
      BY HomeType DEF Types, Names, Up
    <3>. QED BY <3>1, <3>2, <3>3
  <2>. QED BY <1>1, <2>1, <2>3, <2>4
<1>4. CASE object'.seq = 0
  BY <1>4 DEF Entries
<1>. QED BY <1>2, <1>3, <1>4, EntrySteps

\* A look: only what it changes.
LEMMA LookingKept ==
    ASSUME Base, Looking, [Next]_vars
    PROVE  Looking'
<1>. USE DEF Base
<1>1. /\ posted \subseteq posted' /\ starts \in Nat /\ DOMAIN self = Instances
      /\ known \in [Instances -> SUBSET Writers] /\ due \in [Instances -> SUBSET Writers]
      /\ news \in [Instances -> SUBSET Writers] /\ owes \in [Instances -> SUBSET Writers]
      /\ DOMAIN at = Instances
  BY PostedGrows DEF Types, Sets, Names, Labels, Versions
<1>2. CASE UNCHANGED <<self, lookVars, owes>>
  BY <1>1, <1>2 DEF Looking, Up, lookVars, seenVars
<1>3. ASSUME NEW w \in Writers, Commit(w)
      PROVE  Looking'
  <2>1. /\ UNCHANGED <<self, at, news, known, due, posted>>
        /\ owes' = [i \in Instances |->
                      IF Up(i) /\ i # Home[w] THEN owes[i] \cup {w} ELSE owes[i]]
    BY <1>3 DEF Commit, objectVars, lifeVars, lookVars, seenVars
  <2>. QED BY <1>1, <2>1 DEF Looking, Up
<1>4. ASSUME NEW i \in Instances, Look(i) \/ LookFails(i) \/ AnswerReader(i)
      PROVE  Looking'
  <2>1. /\ UNCHANGED <<self, news, known, owes, posted>>
        /\ \E d \in {posted, {}} : due' = [due EXCEPT ![i] = d]
        /\ \E label \in {"flush", "read", "idle"} : at' = [at EXCEPT ![i] = label]
        /\ at[i] \notin {"flush", "flushing"}
    BY <1>4 DEF Look, LookFails, AnswerReader, At, objectVars, lifeVars, seenVars
  <2>. QED BY <1>1, <2>1 DEF Looking, Up
<1>5. ASSUME NEW i \in Instances, ReadEntries(i) \/ ReadNothing(i) \/ ReadBroken(i)
      PROVE  Looking'
  <2>1. /\ UNCHANGED <<self, due, owes, posted>>
        /\ \A j \in Instances \ {i} : news'[j] = news[j]
        /\ known' = [known EXCEPT ![i] = posted] /\ at' = [at EXCEPT ![i] = "flush"]
    BY <1>1, <1>5 DEF ReadEntries, ReadNothing, ReadBroken, At, objectVars, lifeVars
  <2>. QED BY <1>1, <2>1 DEF Looking, Up
<1>6. ASSUME NEW i \in Instances, Flush(i)
      PROVE  Looking'
  <2>1. /\ UNCHANGED <<self, news, known, due, owes, posted>>
        /\ \/ at[i] = "flush" /\ at' = [at EXCEPT ![i] = "flushing"]
           \/ at[i] = "stop" /\ at' = [at EXCEPT ![i] = "stopping"]
    BY <1>6 DEF Flush, At, objectVars, lifeVars, seenVars
  <2>. QED BY <1>1, <2>1 DEF Looking, Up
<1>7. ASSUME NEW i \in Instances, Forget(i)
      PROVE  Looking'
  <2>1. /\ UNCHANGED <<self, known, due, posted>>
        /\ owes' = [owes EXCEPT ![i] = owes[i] \ news[i]]
        /\ news' = [news EXCEPT ![i] = {}] /\ at' = [at EXCEPT ![i] = "answer"]
    BY <1>7 DEF Forget, At, objectVars, lifeVars, seenVars
  <2>. QED BY <1>1, <2>1 DEF Looking, Up
<1>8. ASSUME NEW i \in Instances, Start(i) \/ Stop(i)
      PROVE  Looking'
  <2>1. /\ UNCHANGED <<news, known, due, owes, posted>>
        /\ self' = self \/ self' = [self EXCEPT ![i] = starts + 1]
        /\ at' = at \/ (at[i] = "idle" /\ at' = [at EXCEPT ![i] = "stop"])
    BY <1>8 DEF Start, Stop, At, objectVars, lifeVars, lookVars, seenVars
  <2>2. \A j \in Instances : Up(j) => Up(j)'
    BY <1>1, <2>1 DEF Up
  <2>. QED BY <1>1, <2>1, <2>2 DEF Looking
<1>9. ASSUME NEW i \in Instances, Exit(i) \/ Crash(i)
      PROVE  Looking'
  <2>1. /\ self' = [self EXCEPT ![i] = 0] /\ posted' = posted
        /\ known' = [known EXCEPT ![i] = {}] /\ news' = [news EXCEPT ![i] = {}]
        /\ due' = [due EXCEPT ![i] = {}] /\ owes' = [owes EXCEPT ![i] = {}]
        /\ at' = [at EXCEPT ![i] = "idle"]
    BY <1>9 DEF Exit, Crash, Gone, At, objectVars
  <2>. QED BY <1>1, <2>1 DEF Looking, Up
<1>10. CASE (\E t \in Tellers : Tell(t)) \/ (\E w \in Writers : Publish(w)) \/ Break \/ UNCHANGED vars
  <2>1. UNCHANGED <<self, lookVars, owes>>
    BY <1>10 DEF Tell, ReadToWrite, Write, WriteUnanswered, Conflict, GiveUp, Publish, Break, vars, lifeVars
  <2>. QED BY <1>2, <2>1
<1>. QED BY <1>3, <1>4, <1>5, <1>6, <1>7, <1>8, <1>9, <1>10 DEF Next, Check

\* Where what an instance owes and what is being written come from.
LEMMA OweSteps ==
    ASSUME DOMAIN owes = Instances, [Next]_vars
    PROVE  \/ \E w \in Writers :
                /\ Commit(w)
                /\ \A i \in Instances : owes'[i] \subseteq owes[i] \cup {w}
                /\ \A i \in Instances : w \in owes'[i] => w \in owes[i] \/ i # Home[w]
           \/ \A i \in Instances : owes'[i] \subseteq owes[i]
<1>1. ASSUME NEW w \in Writers, Commit(w)
      PROVE  /\ \A i \in Instances : owes'[i] \subseteq owes[i] \cup {w}
             /\ \A i \in Instances : w \in owes'[i] => w \in owes[i] \/ i # Home[w]
  <2>1. owes' = [i \in Instances |->
                   IF Up(i) /\ i # Home[w] THEN owes[i] \cup {w} ELSE owes[i]]
    BY <1>1 DEF Commit
  <2>. QED BY <2>1
<1>2. CASE \E i \in Instances : Forget(i)
  BY <1>2 DEF Forget
<1>3. CASE \E i \in Instances : Exit(i) \/ Crash(i)
  BY <1>3 DEF Exit, Crash, Gone
<1>4. CASE \E i \in Instances : \/ Look(i) \/ ReadEntries(i) \/ ReadNothing(i) \/ ReadBroken(i)
                                \/ LookFails(i) \/ Flush(i) \/ AnswerReader(i) \/ Start(i) \/ Stop(i)
  BY <1>4 DEF Look, ReadEntries, ReadNothing, ReadBroken, LookFails, Flush, AnswerReader, Start, Stop
<1>5. CASE (\E t \in Tellers : Tell(t)) \/ (\E w \in Writers : Publish(w)) \/ Break \/ UNCHANGED vars
  BY <1>5 DEF Tell, ReadToWrite, Write, WriteUnanswered, Conflict, GiveUp, Publish, Break, vars
<1>. QED BY <1>1, <1>2, <1>3, <1>4, <1>5 DEF Next, Check

LEMMA WriteSteps ==
    ASSUME Base, [Next]_vars, NEW t \in Tellers, tpc'[t] = "write"
    PROVE  /\ carry'[t] = carry[t]
           /\ \/ tpc[t] = "write" /\ base'[t] = base[t]
              \/ base'[t].at = clock /\ UNCHANGED <<objectVars, lifeVars, lookVars, owes>>
<1>. USE DEF Base
<1>1. DOMAIN tpc = Tellers /\ DOMAIN carry = Tellers /\ DOMAIN base = Tellers
      /\ Writers \subseteq Tellers /\ Instances \subseteq Tellers
  BY DEF Types, Sets, Labels, Versions, Tellers
<1>2. CASE \E u \in Tellers : ReadToWrite(u)
  BY <1>1, <1>2 DEF ReadToWrite, TPc
<1>3. CASE \E u \in Tellers : Write(u) \/ Conflict(u) \/ GiveUp(u) \/ WriteUnanswered(u)
  BY <1>1, <1>3 DEF Write, Conflict, GiveUp, WriteUnanswered, Keep, TPc
<1>4. CASE \E w \in Writers : Commit(w) \/ Publish(w)
  BY <1>1, <1>4 DEF Commit, Publish, TPc
<1>5. CASE \E i \in Instances : Flush(i)
  BY <1>1, <1>5 DEF Flush, TPc
<1>6. CASE \E i \in Instances : \/ Look(i) \/ ReadEntries(i) \/ ReadNothing(i) \/ ReadBroken(i)
                                \/ LookFails(i) \/ Forget(i) \/ AnswerReader(i) \/ Start(i) \/ Stop(i)
  BY <1>6 DEF Look, ReadEntries, ReadNothing, ReadBroken, LookFails, Forget, AnswerReader, Start,
              Stop, tellVars
<1>7. CASE \E i \in Instances : Exit(i) \/ Crash(i)
  BY <1>1, <1>7 DEF Exit, Crash, Gone
<1>8. CASE Break \/ UNCHANGED vars
  BY <1>8 DEF Break, vars, tellVars
<1>. QED BY <1>2, <1>3, <1>4, <1>5, <1>6, <1>7, <1>8 DEF Next, Tell, Check

\* The stamps of what an instance owes: only a commit adds to it, of a write not
\* told yet, and a teller stamps what it reads with the time it has become.
LEMMA OwingKept ==
    ASSUME Base, Entries, Looking, Owing, [Next]_vars
    PROVE  Owing'
<1>. USE DEF Base
<1>1. /\ owes \in [Instances -> SUBSET Writers] /\ DOMAIN started = Instances
      /\ clock \in Nat /\ starts \in Nat /\ object.seq \in Nat
      /\ \A i \in Instances : started[i] \in 0 .. clock
  BY DEF Types, Sets, Names, Versions, Version
<1>. SUFFICES ASSUME NEW i \in Instances, NEW w \in owes'[i]
              PROVE  /\ Home[w] # i
                     /\ \A n \in 1 .. object'.seq :
                          w \in object'.entry[n].news => started'[i] <= object'.entry[n].at
                     /\ \A t \in Tellers :
                          tpc'[t] = "write" /\ w \in carry'[t] => started'[i] <= base'[t].at
  BY DEF Owing
\* A write committed in this step is in no entry, and nobody is telling it.
<1>2. CASE w \notin owes[i]
  <2>1. Commit(w) /\ i # Home[w]
    BY <1>1, <1>2, OweSteps
  <2>2. w \in Writers
    BY <1>1, BaseKept DEF Types, Sets
  <2>3. tpc[w] = "idle" /\ UNCHANGED <<object, base>> /\ carry' = [carry EXCEPT ![w] = {w}]
        /\ tpc' = [tpc EXCEPT ![w] = "publish"]
    BY <2>1 DEF Commit, TPc, objectVars
  <2>4. w \notin posted /\ \A t \in Tellers : w \notin carry[t]
    BY <2>2, <2>3 DEF Telling
  <2>5. \A n \in 1 .. object'.seq : w \notin object'.entry[n].news
    BY <2>3, <2>4 DEF Entries
  <2>6. \A t \in Tellers : ~(tpc'[t] = "write" /\ w \in carry'[t])
    BY <2>2, <2>3, <2>4 DEF Types, Labels, Sets, Tellers
  <2>. QED BY <2>1, <2>5, <2>6
<1>3. CASE w \in owes[i]
  <2>1. started'[i] = started[i]
    <3>1. ASSUME NEW j \in Instances, Start(j)
          PROVE  started'[i] = started[i]
      <4>1. ~Up(j) /\ owes' = owes
        BY <3>1 DEF Start
      <4>2. i # j
        BY <1>3, <4>1 DEF Looking
      <4>3. PICK later \in {0, 1} : started' = [started EXCEPT ![j] = clock + later]
        BY <3>1 DEF Start
      <4>. QED BY <1>1, <4>2, <4>3
    <3>. QED BY <3>1, NameSteps DEF Types, Names
  <2>2. Home[w] # i
    BY <1>3 DEF Owing
  <2>3. ASSUME NEW n \in 1 .. object'.seq, w \in object'.entry[n].news
        PROVE  started[i] <= object'.entry[n].at
    <3>1. CASE UNCHANGED <<objectVars, breaks>>
      BY <1>3, <2>3, <3>1 DEF Owing, objectVars
    <3>2. ASSUME NEW t \in Tellers, tpc[t] = "write",
                 Adds(object', object, Entry(base[t].at, self[HomeOf(t)], carry[t]), generation)
          PROVE  started[i] <= object'.entry[n].at
      <4>1. /\ object'.seq = object.seq + 1
            /\ object'.entry[object'.seq] = Entry(base[t].at, self[HomeOf(t)], carry[t])
            /\ \A m \in 1 .. object.seq : object'.entry[m] = object.entry[m]
        BY <3>2 DEF Adds
      <4>2. CASE n \in 1 .. object.seq
        BY <1>3, <2>3, <4>1, <4>2 DEF Owing
      <4>3. CASE n = object'.seq
        <5>1. object'.entry[n].news = carry[t] /\ object'.entry[n].at = base[t].at
          BY <4>1, <4>3 DEF Entry
        <5>. QED BY <1>3, <2>3, <3>2, <5>1 DEF Owing
      <4>. QED BY <1>1, <4>1, <4>2, <4>3
    <3>3. object'.seq # 0
      BY <2>3
    <3>. QED BY <3>1, <3>2, <3>3, EntrySteps
  <2>4. ASSUME NEW t \in Tellers, tpc'[t] = "write", w \in carry'[t]
        PROVE  started[i] <= base'[t].at
    BY <1>1, <1>3, <2>4, WriteSteps DEF Owing
  <2>. QED BY <2>1, <2>2, <2>3, <2>4
<1>. QED BY <1>2, <1>3

-----------------------------------------------------------------------------
(***************************************************************************)
(* What an instance that follows the object finds                          *)
(***************************************************************************)
\* What was told after the n-th entry still is when entries are added, and what
\* is being told then is as well.
LEMMA AddedAfter ==
    ASSUME NEW n, NEW t \in Tellers, object.seq \in Nat, n \in 0 .. object.seq,
           Adds(object', object, Entry(base[t].at, self[HomeOf(t)], carry[t]), generation)
    PROVE  /\ \A w : ToldAfter(n, w) => ToldAfter(n, w)'
           /\ \A w \in carry[t] : ToldAfter(n, w)'
<1>1. /\ object'.seq = object.seq + 1 /\ object'.seq \in 1 .. object'.seq
      /\ object'.entry[object'.seq].news = carry[t]
      /\ \A m \in 1 .. object.seq : m \in 1 .. object'.seq /\ object'.entry[m] = object.entry[m]
  BY DEF Adds, Entry
<1>2. ASSUME NEW w, ToldAfter(n, w)
      PROVE  \E m \in 1 .. object'.seq : n < m /\ w \in object'.entry[m].news
  BY <1>1, <1>2 DEF ToldAfter
<1>3. ASSUME NEW w \in carry[t]
      PROVE  \E m \in 1 .. object'.seq : n < m /\ w \in object'.entry[m].news
  <2>1. n < object'.seq
    BY <1>1
  <2>. QED BY <1>1, <2>1
<1>. QED BY <1>2, <1>3 DEF ToldAfter

LEMMA FollowingKept ==
    ASSUME Base, Following, [Next]_vars
    PROVE  Following'
<1>. USE DEF Base
<1>1. /\ object.seq \in Nat /\ object.run \in 0 .. generation /\ (object.run = 0 <=> object.seq = 0)
      /\ generation \in Nat
      /\ DOMAIN seen = Instances /\ DOMAIN known = Instances
      /\ \A i \in Instances : seen[i].seq \in Int /\ seen[i].run \in 0 .. generation
  BY DEF Versions, Version, Types, Looks, Sets
<1>2. SUFFICES ASSUME NEW i \in Instances, seen'[i].seq > 0, seen'[i].run = object'.run,
                      object'.run # 0
               PROVE  /\ seen'[i].seq <= object'.seq
                      /\ \A w \in posted' \ known'[i] :
                           \E m \in 1 .. object'.seq :
                             seen'[i].seq < m /\ w \in object'.entry[m].news
  BY DEF Following, ToldAfter
<1>3. CASE seen'[i] = seen[i] /\ known'[i] = known[i]
  <2>1. CASE UNCHANGED <<objectVars, breaks>>
    BY <1>2, <1>3, <2>1 DEF Following, ToldAfter, objectVars
  <2>2. ASSUME NEW t \in Tellers, posted' = posted \cup carry[t],
               Adds(object', object, Entry(base[t].at, self[HomeOf(t)], carry[t]), generation)
        PROVE  /\ seen[i].seq <= object'.seq
               /\ \A w \in posted' \ known[i] :
                    \E m \in 1 .. object'.seq : seen[i].seq < m /\ w \in object'.entry[m].news
    <3>1. object'.seq = object.seq + 1
          /\ object'.run = IF object.run = 0 THEN generation + 1 ELSE object.run
      BY <2>2 DEF Adds
    <3>2. object.run # 0
      BY <1>1, <1>2, <1>3, <3>1
    <3>3. seen[i].seq <= object.seq /\ \A w \in posted \ known[i] : ToldAfter(seen[i].seq, w)
      BY <1>2, <1>3, <3>1, <3>2 DEF Following
    <3>4. PICK n \in 0 .. object.seq : n = seen[i].seq
      BY <1>1, <1>2, <1>3, <3>3
    <3>5. \A w \in posted' \ known[i] : ToldAfter(n, w)'
      BY <1>1, <2>2, <3>3, <3>4, AddedAfter
    <3>. QED BY <1>1, <3>1, <3>3, <3>4, <3>5 DEF ToldAfter
  <2>. QED BY <1>2, <1>3, <2>1, <2>2, EntrySteps
<1>4. CASE ReadEntries(i)
  <2>1. /\ seen'[i].seq = object.seq /\ known'[i] = posted /\ object' = object /\ posted' = posted
    BY <1>1, <1>4 DEF ReadEntries, objectVars
  <2>. QED BY <1>1, <2>1
<1>5. CASE ReadNothing(i)
  <2>1. seen'[i] = [seen[i] EXCEPT !.gen = 0, !.seq = 0]
    BY <1>1, <1>5 DEF ReadNothing
  <2>2. seen'[i].seq = 0
    BY <2>1 DEF Types, Looks
  <2>. QED BY <1>2, <2>2
<1>6. CASE ReadBroken(i)
  BY <1>2, <1>6 DEF ReadBroken, objectVars
<1>7. CASE seen'[i] = Unseen
  BY <1>2, <1>7 DEF Unseen
<1>8. \A j \in Instances \ {i} :
        ReadEntries(j) \/ ReadNothing(j) \/ ReadBroken(j) => seen'[i] = seen[i] /\ known'[i] = known[i]
  BY <1>1 DEF ReadEntries, ReadNothing, ReadBroken
<1>. QED BY <1>1, <1>3, <1>4, <1>5, <1>6, <1>7, <1>8, SeenSteps DEF seenVars

\* since finds, in the object it followed, all that was told since and is news.
LEMMA SinceFollows ==
    ASSUME Base, Entries, Owing, Following, NEW i \in Instances, Up(i), seen[i].seq > 0,
           object.run # 0, NEW w \in owes[i], w \in posted, w \notin known[i]
    PROVE  w \in since(i, object)
<1>. USE DEF Base
<1>1. CASE CannotTell(i, object)
  BY <1>1 DEF since, Everything, Types, Sets
<1>2. CASE ~CannotTell(i, object)
  <2>1. seen[i].seq \in Int /\ object.seq \in Nat /\ object.first \in 1 .. object.seq + 1
    BY DEF Types, Looks, Versions, Version
  <2>2. /\ object.run = seen[i].run
        /\ ~(object.first > seen[i].seq + 1 /\ object.seq # seen[i].seq)
    BY <1>2, <2>1 DEF CannotTell
  <2>3. PICK m \in 1 .. object.seq : seen[i].seq < m /\ w \in object.entry[m].news
    BY <2>2 DEF Following, ToldAfter
  <2>4. m \in Kept(object)
    BY <2>1, <2>2, <2>3 DEF Kept
  <2>5. m \in Unread(i, object)
    BY <2>1, <2>3, <2>4 DEF Unread
  <2>6. object.entry[m].by # self[i]
    BY <2>3 DEF Entries, Owing
  <2>. QED BY <1>2, <2>3, <2>5, <2>6 DEF since, TakeFrom
<1>. QED BY <1>1, <1>2

\* On its first look it finds what was told since it started.
LEMMA SinceStarts ==
    ASSUME Base, Entries, Owing, NEW i \in Instances, Up(i), seen[i] = Unseen,
           NEW w \in owes[i], ToldAfter(0, w)
    PROVE  w \in since(i, object)
<1>. USE DEF Base
<1>1. CASE CannotTell(i, object)
  BY <1>1 DEF since, Everything, Types, Sets
<1>2. CASE ~CannotTell(i, object)
  <2>1. /\ object.seq \in Nat /\ object.first \in 1 .. object.seq + 1
        /\ object.seq > 0 => object.first <= object.seq
        /\ \A n \in 1 .. object.seq : object.entry[n].at \in Nat
        /\ \A m, n \in 1 .. object.seq : m <= n => object.entry[m].at <= object.entry[n].at
        /\ started[i] \in Nat
    <3>1. Version(object, generation, clock, starts) /\ clock \in Nat
      BY DEF Versions
    <3>2. \A n \in 1 .. object.seq : object.entry[n].at \in Nat
      BY <3>1 DEF Version
    <3>3. started[i] \in Nat
      BY <3>1 DEF Types, Names
    <3>. QED BY <3>1, <3>2, <3>3 DEF Version
  <2>2. seen[i].seq = -1
    BY DEF Unseen
  <2>3. ~(object.first \in Unread(i, object) /\ object.first > 1)
    BY <1>2, <2>2 DEF CannotTell
  <2>4. PICK m \in 1 .. object.seq : w \in object.entry[m].news
    BY DEF ToldAfter
  <2>5. started[i] <= object.entry[m].at
    BY <2>4 DEF Owing
  <2>6. object.first <= m
    <3>1. SUFFICES ASSUME m < object.first
                   PROVE  FALSE
      BY <2>1
    <3>2. object.first \in 1 .. object.seq /\ object.first > 1
      BY <2>1, <3>1
    <3>3. started[i] <= object.entry[object.first].at
      BY <2>1, <2>5, <3>1, <3>2
    <3>4. object.first \in Unread(i, object)
      BY <2>1, <2>2, <3>2, <3>3 DEF Unread, Kept
    <3>. QED BY <2>3, <3>2, <3>4
  <2>7. m \in Unread(i, object)
    BY <2>1, <2>2, <2>5, <2>6 DEF Unread, Kept
  <2>8. object.entry[m].by # self[i]
    BY <2>4 DEF Entries, Owing
  <2>. QED BY <1>2, <2>4, <2>7, <2>8 DEF since, TakeFrom
<1>. QED BY <1>1, <1>2

\* An object nobody breaks goes on to tell everything.
LEMMA WholeKept ==
    ASSUME Base, Whole, [Next]_vars, breaks' = 0
    PROVE  Whole'
<1>. USE DEF Base
<1>1. object.seq \in Nat /\ object.run \in 0 .. generation /\ generation \in Nat
      /\ breaks \in Nat
  BY DEF Versions, Version, Types
<1>2. CASE UNCHANGED <<objectVars, breaks>>
  BY <1>2 DEF Whole, ToldAfter, objectVars
<1>3. ASSUME NEW t \in Tellers, posted' = posted \cup carry[t],
             Adds(object', object, Entry(base[t].at, self[HomeOf(t)], carry[t]), generation)
      PROVE  Whole'
  <2>1. object'.run # 0
    BY <1>1, <1>3 DEF Adds
  <2>2. \A w \in posted' : ToldAfter(0, w)'
    BY <1>1, <1>3, AddedAfter DEF Whole
  <2>. QED BY <2>1, <2>2 DEF Whole
<1>. QED BY <1>1, <1>2, <1>3, EntrySteps

\* An instance goes on to follow the object nobody breaks while others write it
\* and while it is asked, looks and starts.
LEMMA CaughtKept ==
    ASSUME Base, Entries, Looking, Owing, Following, Whole, NEW i \in Instances, Caught(i),
           breaks = 0, breaks' = 0, [Next]_vars
    PROVE  Caught(i)'
<1>. USE DEF Base
<1>1. /\ object.seq \in Nat /\ object.run \in 0 .. generation /\ (object.run = 0 <=> object.seq = 0)
      /\ object.gen \in 0 .. generation /\ generation \in Nat /\ (object.gen = 0 => object.run = 0)
      /\ DOMAIN seen = Instances /\ DOMAIN known = Instances /\ DOMAIN at = Instances
      /\ DOMAIN due = Instances /\ DOMAIN news = Instances /\ DOMAIN owes = Instances
      /\ seen[i].gen \in 0 .. generation
  <2>1. Version(object, generation, clock, starts) /\ generation \in Nat
    BY DEF Versions
  <2>. QED BY <2>1 DEF Version, Absent, Types, Looks, Sets, Labels
<1>2. known[i] \subseteq posted /\ due[i] \subseteq posted
  BY DEF Looking
<1>3. CASE UNCHANGED <<objectVars, lookVars, owes>>
  BY <1>3 DEF Caught, objectVars, lookVars, seenVars
<1>4. ASSUME NEW t \in Tellers, UNCHANGED <<lookVars, owes>>,
             Adds(object', object, Entry(base[t].at, self[HomeOf(t)], carry[t]), generation)
      PROVE  Caught(i)'
  <2>1. /\ object'.gen = generation + 1
        /\ object'.run = IF object.run = 0 THEN generation + 1 ELSE object.run
        /\ UNCHANGED <<seen, known, at, due, news, owes>>
    BY <1>4 DEF Adds, lookVars, seenVars
  <2>2. seen[i].gen # object'.gen /\ object'.gen # 0
    BY <1>1, <2>1
  <2>3. object.run # 0 => object'.run = object.run
    BY <2>1
  <2>. QED BY <2>1, <2>2, <2>3 DEF Caught
<1>5. ASSUME NEW w \in Writers, Commit(w)
      PROVE  Caught(i)'
  <2>1. UNCHANGED <<object, posted, seen, known, at, due, news>> /\ tpc[w] = "idle"
    BY <1>5 DEF Commit, objectVars, lookVars, seenVars
  <2>2. w \notin known[i]
    BY <1>2, <2>1 DEF Telling
  <2>3. owes'[i] \subseteq owes[i] \cup {w}
    BY <1>5 DEF Commit
  <2>. QED BY <2>1, <2>2, <2>3 DEF Caught
<1>6. CASE Look(i)
  <2>1. /\ UNCHANGED <<object, posted, seen, known, news, owes>> /\ due'[i] = posted
        /\ at'[i] = IF object.gen = seen[i].gen THEN "flush" ELSE "read"
    BY <1>1, <1>6 DEF Look, At, objectVars, seenVars
  <2>2. at'[i] = "read" => object.gen # 0
    BY <1>1, <2>1 DEF Caught, Unseen
  <2>3. at'[i] \in {"flush", "flushing", "answer"} => due'[i] \subseteq known[i]
    BY <2>1 DEF Caught
  <2>. QED BY <2>1, <2>2, <2>3 DEF Caught
<1>7. CASE ReadEntries(i)
  <2>1. /\ UNCHANGED <<object, posted, due, owes>> /\ at[i] = "read" /\ object.run # 0
        /\ news'[i] = since(i, object) /\ known'[i] = posted /\ at'[i] = "flush"
        /\ seen'[i] = [gen |-> object.gen, run |-> object.run, seq |-> object.seq]
    BY <1>1, <1>7 DEF ReadEntries, At, objectVars
  <2>2. ASSUME NEW w \in owes[i], w \in posted
        PROVE  w \in since(i, object)
    <3>1. Up(i) /\ news[i] = {}
      BY <2>1 DEF Telling, Looking
    <3>2. w \notin known[i]
      BY <3>1 DEF Caught
    <3>3. CASE seen[i] = Unseen
      BY <2>2, <3>1, <3>3, SinceStarts DEF Whole
    <3>4. CASE seen[i].seq > 0
      BY <2>1, <2>2, <3>1, <3>2, <3>4, SinceFollows
    <3>. QED BY <3>3, <3>4 DEF Caught
  <2>3. seen'[i].seq > 0 /\ seen'[i].gen # 0 /\ seen'[i].run = object.run
    BY <1>1, <2>1
  <2>. QED BY <1>2, <2>1, <2>2, <2>3 DEF Caught
<1>8. CASE ReadNothing(i) \/ ReadBroken(i)
  BY <1>8 DEF ReadNothing, ReadBroken, Caught, Whole
<1>9. CASE LookFails(i)
  <2>1. UNCHANGED <<object, posted, seen, known, news, owes>> /\ due'[i] = {} /\ at'[i] = "flush"
    BY <1>1, <1>9 DEF LookFails, At, objectVars, seenVars
  <2>. QED BY <2>1 DEF Caught
<1>10. CASE Flush(i)
  <2>1. /\ UNCHANGED <<object, posted, seen, known, news, owes, due>>
        /\ \/ at[i] = "flush" /\ at'[i] = "flushing"
           \/ at'[i] = "stopping"
    BY <1>1, <1>10 DEF Flush, At, objectVars, seenVars
  <2>. QED BY <2>1 DEF Caught
<1>11. CASE Forget(i)
  <2>1. /\ UNCHANGED <<object, posted, seen, known, due>> /\ at[i] = "flushing"
        /\ owes'[i] = owes[i] \ news[i] /\ news'[i] = {} /\ at'[i] = "answer"
    BY <1>1, <1>11 DEF Forget, At, objectVars, seenVars
  <2>. QED BY <2>1 DEF Caught
<1>12. CASE AnswerReader(i) \/ Stop(i)
  <2>1. UNCHANGED <<object, posted, seen, known, news, owes>> /\ at'[i] \in {"idle", "stop"}
    BY <1>1, <1>12 DEF AnswerReader, Stop, At, objectVars, seenVars
  <2>. QED BY <2>1 DEF Caught
<1>13. CASE Exit(i) \/ Crash(i)
  <2>1. /\ UNCHANGED <<object, posted>> /\ seen'[i] = Unseen /\ known'[i] = {} /\ owes'[i] = {}
        /\ at'[i] = "idle"
    BY <1>1, <1>13 DEF Exit, Crash, Gone, At, objectVars
  <2>2. object.gen = 0 => posted = {}
    BY <1>1 DEF Whole, ToldAfter
  <2>. QED BY <2>1, <2>2 DEF Caught, Unseen
<1>14. ASSUME NEW j \in Instances \ {i},
              \/ Look(j) \/ ReadEntries(j) \/ ReadNothing(j) \/ ReadBroken(j) \/ LookFails(j)
              \/ Flush(j) \/ Forget(j) \/ AnswerReader(j) \/ Stop(j) \/ Exit(j) \/ Crash(j)
       PROVE  Caught(i)'
  <2>1. /\ UNCHANGED <<object, posted>> /\ seen'[i] = seen[i] /\ known'[i] = known[i]
        /\ at'[i] = at[i] /\ due'[i] = due[i] /\ news'[i] = news[i] /\ owes'[i] = owes[i]
    <3>1. CASE Look(j) \/ LookFails(j) \/ AnswerReader(j) \/ Stop(j)
      BY <1>1, <3>1 DEF Look, LookFails, AnswerReader, Stop, At, objectVars, seenVars
    <3>2. CASE ReadEntries(j) \/ ReadNothing(j) \/ ReadBroken(j)
      BY <1>1, <3>2 DEF ReadEntries, ReadNothing, ReadBroken, At, objectVars, seenVars
    <3>3. CASE Flush(j) \/ Forget(j)
      BY <1>1, <3>3 DEF Flush, Forget, At, objectVars, seenVars
    <3>4. CASE Exit(j) \/ Crash(j)
      BY <1>1, <3>4 DEF Exit, Crash, Gone, At, objectVars
    <3>. QED BY <1>14, <3>1, <3>2, <3>3, <3>4
  <2>. QED BY <2>1 DEF Caught
<1>15. CASE \E j \in Instances : Start(j)
  BY <1>3, <1>15 DEF Start
<1>16. CASE (\E w \in Writers : Publish(w)) \/ UNCHANGED vars
  BY <1>3, <1>16 DEF Publish, vars
<1>17. CASE \E t \in Tellers : Tell(t)
  <2>1. UNCHANGED <<lookVars, owes>>
    BY <1>17 DEF Tell, ReadToWrite, Write, WriteUnanswered, Conflict, GiveUp
  <2>2. CASE UNCHANGED objectVars
    BY <1>3, <2>1, <2>2
  <2>3. CASE ~UNCHANGED objectVars
    <3>1. object'.run # 0 \/ breaks' # 0 \/ UNCHANGED objectVars
      BY <1>1, EntrySteps DEF Adds, Types
    <3>. QED BY <1>4, <2>1, <2>3, EntrySteps DEF Types
  <2>. QED BY <2>2, <2>3
<1>18. CASE Break
  BY <1>18 DEF Break, Types
<1>19. CASE \E j \in Instances : Check(j) \/ Stop(j) \/ Exit(j) \/ Crash(j)
  BY <1>6, <1>7, <1>8, <1>9, <1>10, <1>11, <1>12, <1>13, <1>14, <1>19 DEF Check
<1>. QED BY <1>5, <1>15, <1>16, <1>17, <1>18, <1>19 DEF Next

LEMMA UnbrokenKept ==
    ASSUME Inv, [Next]_vars
    PROVE  Unbroken'
<1>1. SUFFICES ASSUME breaks' = 0
               PROVE  Whole' /\ \A i \in Instances : Caught(i)'
  BY DEF Unbroken
<1>2. breaks = 0
  BY <1>1, EntrySteps DEF Inv, Base, Types
<1>. QED BY <1>1, <1>2, WholeKept, CaughtKept DEF Inv, Unbroken

-----------------------------------------------------------------------------
(***************************************************************************)
(* The invariant holds                                                     *)
(***************************************************************************)
LEMMA InitInv ==
    Init => Inv
<1>1. SUFFICES ASSUME Init
               PROVE  Inv
  OBVIOUS
<1>. USE <1>1 DEF Init
<1>2. Versions
  <2>1. Version(Absent, 0, 0, 0)
    BY NothingIsVersion
  <2>2. Absent.seq = 0
    BY DEF Absent
  <2>. QED BY <2>1, <2>2 DEF Versions, NoBase
<1>3. Types
  <2>1. Names
    BY DEF Names, Up
  <2>2. Looks
    BY DEF Looks, Unseen
  <2>3. Sets /\ Labels
    BY DEF Sets, Labels
  <2>. QED BY <2>1, <2>2, <2>3 DEF Types
<1>4. Telling /\ Remembered
  BY DEF Telling, Remembered, Tellers
<1>5. Entries
  BY DEF Entries, Absent
<1>6. Looking /\ Owing
  BY DEF Looking, Owing
<1>7. Following
  BY DEF Following, Absent
<1>8. Unbroken
  BY DEF Unbroken, Whole, Caught, Absent, Unseen
<1>. QED BY <1>2, <1>3, <1>4, <1>5, <1>6, <1>7, <1>8 DEF Inv, Base

LEMMA NextInv ==
    Inv /\ [Next]_vars => Inv'
BY BaseKept, EntriesKept, LookingKept, OwingKept, FollowingKept, UnbrokenKept DEF Inv

\* The inductive invariant: one version of the object per generation, news that
\* is told once and never before it is committed, and instances that follow.
THEOREM InvHolds ==
    Spec => []Inv
BY InitInv, NextInv, PTL DEF Spec

LEMMA InvTypeOK ==
    Inv => TypeOK
<1>1. SUFFICES ASSUME Inv
               PROVE  TypeOK
  OBVIOUS
<1>2. Version(object, generation, clock, starts) /\ Types
  BY <1>1 DEF Inv, Base, Versions
<1>3. /\ object.gen \in 0 .. generation /\ object.first \in 1 .. object.seq + 1
      /\ object.seq < object.first + KeepEntries
      /\ DOMAIN object.entry = 1 .. object.seq
      /\ \A n \in 1 .. object.seq :
           object.entry[n] \in [at : 0 .. clock, by : 1 .. starts, news : SUBSET Writers]
  BY <1>2 DEF Version
<1>. QED BY <1>2, <1>3 DEF TypeOK, Types, Names, Looks, Sets, Labels

\* No news that was told is dropped on the floor: once a request has told its
\* write, that is in the object, kept for a later telling, being told, or gone
\* with a process that went down (changes.go, Publish, keep and flush).
THEOREM NewsKeptHolds ==
    Spec => []NewsKept
<1>1. Inv => NewsKept
  <2>1. SUFFICES ASSUME Inv, NEW w \in Writers, tpc[w] = "done"
                 PROVE  w \in posted \cup lost \cup pending[Home[w]]
                              \cup UNION {carry[t] : t \in Tellers}
    BY InvTypeOK DEF NewsKept
  <2>2. Held(w)
    BY <2>1 DEF Inv, Base, Remembered
  <2>. QED BY <2>2 DEF Held
<1>. QED BY <1>1, InvHolds, PTL

\* While nobody breaks the object, a reader whose look succeeded is answered by
\* an instance that has dropped all that was told before that look began
\* (changes.go, Check, look and since).
THEOREM UnbrokenLooksCatchUpHolds ==
    Spec => []UnbrokenLooksCatchUp
<1>1. Inv => UnbrokenLooksCatchUp
  <2>1. SUFFICES ASSUME Inv, breaks = 0, NEW i \in Instances, at[i] = "answer"
                 PROVE  owes[i] \cap due[i] = {}
    BY DEF UnbrokenLooksCatchUp, LooksCatchUp
  <2>2. news[i] = {} /\ Caught(i)
    BY <2>1 DEF Inv, Looking, Unbroken
  <2>. QED BY <2>1, <2>2 DEF Caught
<1>. QED BY <1>1, InvHolds, PTL

\* However the writers of several instances interleave, an object replaces
\* another only by adding one entry to what it holds (changes.go, write; the
\* conditional Write of gcs.go).
THEOREM EntriesOnlyAddedHolds ==
    Spec => EntriesOnlyAdded
<1>1. ASSUME Inv, [Next]_vars, object.run # 0, object'.run # 0, object' # object
      PROVE  /\ object'.run = object.run
             /\ object'.seq = object.seq + 1
             /\ \A n \in object'.first .. object.seq : object'.entry[n] = object.entry[n]
  <2>1. Base /\ Base'
    BY <1>1, BaseKept DEF Inv
  <2>2. object.seq \in Nat /\ object'.first \in 1 .. object'.seq + 1 /\ object'.seq \in Nat
    BY <2>1 DEF Base, Versions, Version
  <2>3. PICK t \in Tellers :
          Adds(object', object, Entry(base[t].at, self[HomeOf(t)], carry[t]), generation)
    BY <1>1, <2>1, EntrySteps DEF objectVars
  <2>4. \A n \in object'.first .. object.seq : n \in 1 .. object.seq
    BY <2>2
  <2>. QED BY <1>1, <2>3, <2>4 DEF Adds
<1>2. Inv /\ [Next]_vars =>
        [object.run # 0 /\ object'.run # 0 /\ object' # object =>
         /\ object'.run = object.run
         /\ object'.seq = object.seq + 1
         /\ \A n \in object'.first .. object.seq : object'.entry[n] = object.entry[n]]_vars
  BY <1>1
<1>. QED BY <1>2, InvHolds, PTL DEF Spec, EntriesOnlyAdded

\* Also when the object is removed, corrupted or started again, an instance
\* that has followed it is handed at its next look all that was told after it
\* last read the object (changes.go, look and since).
THEOREM FollowersLoseNothingHolds ==
    Spec => FollowersLoseNothing
<1>1. ASSUME Inv, [Next]_vars, NEW i \in Instances, at[i] = "read", at'[i] = "flush",
             seen[i].seq > 0
      PROVE  (owes[i] \cap due'[i]) \ known[i] \subseteq news'[i]
  <2>1. /\ Up(i) /\ owes[i] \subseteq Everything /\ due[i] \subseteq posted /\ DOMAIN news = Instances
        /\ DOMAIN at = Instances /\ DOMAIN due = Instances
    BY <1>1 DEF Inv, Base, Telling, Looking, Types, Sets, Labels, Everything
  <2>2. CASE ReadEntries(i)
    <3>1. news'[i] = since(i, object) /\ due' = due /\ object.run # 0
      BY <2>1, <2>2 DEF ReadEntries
    <3>2. ASSUME NEW w \in owes[i], w \in due[i], w \notin known[i]
          PROVE  w \in since(i, object)
      BY <1>1, <2>1, <3>1, <3>2, SinceFollows DEF Inv
    <3>. QED BY <3>1, <3>2
  <2>3. CASE ReadNothing(i)
    BY <1>1, <2>1, <2>3 DEF ReadNothing
  <2>4. CASE ReadBroken(i)
    BY <2>1, <2>4 DEF ReadBroken
  <2>5. CASE LookFails(i)
    BY <2>1, <2>5 DEF LookFails
  <2>6. ReadEntries(i) \/ ReadNothing(i) \/ ReadBroken(i) \/ LookFails(i)
    <3>1. CASE (\E t \in Tellers : Tell(t)) \/ (\E w \in Writers : Commit(w) \/ Publish(w))
               \/ (\E j \in Instances : Start(j)) \/ Break \/ UNCHANGED vars
      <4>1. at' = at
        BY <3>1 DEF Tell, ReadToWrite, Write, WriteUnanswered, Conflict, GiveUp, Commit, Publish,
                    Start, Break, vars, lookVars
      <4>. QED BY <1>1, <4>1
    <3>2. CASE \E j \in Instances : \/ Look(j) \/ Flush(j) \/ Forget(j) \/ AnswerReader(j)
                                    \/ Stop(j) \/ Exit(j) \/ Crash(j)
      BY <1>1, <2>1, <3>2 DEF Look, Flush, Forget, AnswerReader, Stop, Exit, Crash, Gone, At
    <3>3. CASE \E j \in Instances : ReadEntries(j) \/ ReadNothing(j) \/ ReadBroken(j) \/ LookFails(j)
      BY <1>1, <2>1, <3>3 DEF ReadEntries, ReadNothing, ReadBroken, LookFails, At
    <3>. QED BY <1>1, <3>1, <3>2, <3>3 DEF Next, Check
  <2>. QED BY <2>2, <2>3, <2>4, <2>5, <2>6
<1>2. Inv /\ [Next]_vars =>
        [\A i \in Instances :
         at[i] = "read" /\ at'[i] = "flush" /\ seen[i].seq > 0 =>
             (owes[i] \cap due'[i]) \ known[i] \subseteq news'[i]]_vars
  BY <1>1
<1>. QED BY <1>2, InvHolds, PTL DEF Spec, FollowersLoseNothing

=============================================================================
