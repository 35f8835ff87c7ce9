------------------------- MODULE EmailOutboxProofs -------------------------
(***************************************************************************)
(* The lease keeps two workers off one message as long as none of them     *)
(* outlives it, for every number of instances, messages and faults.        *)
(***************************************************************************)
EXTENDS EmailOutbox, WellFoundedInduction, TLAPS

(***************************************************************************)
(* The inductive invariant                                                 *)
(***************************************************************************)
WorkerShape(w) ==
    /\ w = [pc |-> w.pc, timer |-> w.timer, wake |-> w.wake, looked |-> w.looked,
            turn |-> w.turn, retry |-> w.retry, sent |-> w.sent,
            failures |-> w.failures, row |-> w.row, tried |-> w.tried,
            result |-> w.result, held |-> w.held]
    /\ w.held \in Nat

RowShape(r) ==
    /\ r = [status |-> r.status, due |-> r.due, locked |-> r.locked,
            attempts |-> r.attempts]
    /\ r.locked \in Nat

Shapes ==
    /\ DOMAIN worker = Instances /\ worker = [i \in Instances |-> worker[i]]
    /\ \A i \in Instances : WorkerShape(worker[i])
    /\ DOMAIN row = Rows /\ row = [r \in Rows |-> row[r]]
    /\ \A r \in Rows : RowShape(row[r])

\* A worker that holds a row made the claim the row carries: the two have the
\* same age, and it is within the lease until somebody outlives his on it.
Claimed(i) ==
    /\ worker[i].held <= Lease
    /\ \/ row[worker[i].row].status = "erased"
       \/ /\ row[worker[i].row].status = "processing"
          /\ row[worker[i].row].locked = worker[i].held

ClaimIsItsHolders ==
    \A i \in Instances : Holding(i) =>
        /\ worker[i].row \in Rows
        /\ row[worker[i].row].status # "none"
        /\ worker[i].row \notin outlived => Claimed(i)

HolderInv == Shapes /\ ClaimIsItsHolders /\ OneHolder

(***************************************************************************)
(* Lemmas                                                                  *)
(***************************************************************************)
\* What the proofs use of the times.
LEMMA Times == Lease \in Nat /\ Lease > 0
  BY TimesAssumption

\* After once returns, the worker holds nothing.
LEMMA AfterLetsGo ==
    ASSUME NEW w, WorkerShape(w), NEW ok, NEW retryIn, NEW err
    PROVE  /\ WorkerShape(After(w, ok, retryIn, err))
           /\ After(w, ok, retryIn, err).pc \in {"wait", "ask"}
  BY DEF After, WorkerShape

\* A row that can be claimed is in nobody's hands but those of a worker that
\* has outlived its lease on it.
LEMMA ClaimableIsFree ==
    ASSUME HolderInv, NEW r \in Rows, Claimable(r), NEW i \in Instances, Holding(i),
           r \notin outlived
    PROVE  worker[i].row # r
  BY Times DEF Claimed, HolderInv, ClaimIsItsHolders, Claimable, Waiting, Shapes, RowShape

\* Nothing changes for the workers that hold a row, and their rows.
LEMMA Undisturbed ==
    ASSUME HolderInv, Shapes', outlived' = outlived,
           \A i \in Instances : Holding(i)' =>
               /\ Holding(i) /\ worker'[i].row = worker[i].row
               /\ worker'[i].held = worker[i].held
               /\ \/ row'[worker[i].row] = row[worker[i].row]
                  \/ row'[worker[i].row].status = "erased"
                  \/ row'[worker[i].row].status # "none" /\ worker[i].row \in outlived
    PROVE  HolderInv'
  <1>1. OneHolder'
    BY DEF HolderInv, OneHolder
  <1>2. ASSUME NEW i \in Instances, Holding(i)'
        PROVE  /\ worker'[i].row \in Rows
               /\ row'[worker'[i].row].status # "none"
               /\ worker'[i].row \notin outlived' => Claimed(i)'
    BY <1>2 DEF HolderInv, ClaimIsItsHolders, Claimed
  <1> QED
    BY <1>1, <1>2 DEF HolderInv, ClaimIsItsHolders

\* What a start, a stop and an erasure leave has the shape.
LEMMA FreshShapes ==
    /\ \A c : WorkerShape(Fresh(c)) /\ Fresh(c).pc = c
    /\ \A s, d : RowShape(Bare(s, d)) /\ Bare(s, d).status = s
  <1>1. ASSUME NEW c PROVE WorkerShape(Fresh(c)) /\ Fresh(c).pc = c
    <2>1. \A w : w = [pc |-> c, timer |-> Busy, wake |-> FALSE, looked |-> Unseen,
                      turn |-> 0, retry |-> 0, sent |-> FALSE, failures |-> 0,
                      row |-> NoRow, tried |-> 0, result |-> "none", held |-> 0]
                 => WorkerShape(w) /\ w.pc = c
      BY DEF WorkerShape
    <2> QED
      BY <2>1 DEF Fresh
  <1>2. ASSUME NEW s, NEW d PROVE RowShape(Bare(s, d)) /\ Bare(s, d).status = s
    <2> DEFINE r == Bare(s, d)
    <2>1. r = [status |-> s, due |-> d, locked |-> 0, attempts |-> 0]
      BY DEF Bare
    <2> HIDE DEF r
    <2>2. r.status = s /\ r.due = d /\ r.locked = 0 /\ r.attempts = 0
      BY <2>1
    <2>3. RowShape(r)
      BY <2>1, <2>2 DEF RowShape
    <2> QED
      BY <2>2, <2>3 DEF r
  <1> QED
    BY <1>1, <1>2

\* What a row becomes when it is marked with an outcome: its count stays.
LEMMA MarkedRow ==
    ASSUME Shapes, NEW r \in Rows, NEW o, NEW d, row' = Marked(r, o, d)
    PROVE  /\ row'[r].status = o /\ row'[r].due = d /\ row'[r].locked = 0
           /\ row'[r].attempts = row[r].attempts
           /\ RowShape(row'[r])
           /\ \A q \in Rows : q # r => row'[q] = row[q]
           /\ DOMAIN row' = Rows /\ row' = [q \in Rows |-> row'[q]]
  <1>1. /\ row'[r] = [row[r] EXCEPT !.status = o, !.locked = 0, !.due = d]
        /\ \A q \in Rows : q # r => row'[q] = row[q]
        /\ DOMAIN row' = Rows /\ row' = [q \in Rows |-> row'[q]]
    BY DEF Marked, Shapes
  <1>2. RowShape(row[r])
    BY DEF Shapes
  <1>3. row'[r] = [status |-> o, due |-> d, locked |-> 0, attempts |-> row[r].attempts]
    BY <1>1, <1>2 DEF RowShape
  <1>4. /\ row'[r].status = o /\ row'[r].due = d /\ row'[r].locked = 0
        /\ row'[r].attempts = row[r].attempts
    BY <1>3
  <1>5. RowShape(row'[r])
    BY <1>3, <1>4 DEF RowShape
  <1> QED
    BY <1>1, <1>4, <1>5

\* A worker written out has the shape.
LEMMA WrittenOut ==
    ASSUME NEW w, NEW pc, NEW timer, NEW wake, NEW looked, NEW turn, NEW retry, NEW sent,
           NEW failures, NEW r, NEW tried, NEW result, NEW held \in Nat,
           w = [pc |-> pc, timer |-> timer, wake |-> wake, looked |-> looked,
                turn |-> turn, retry |-> retry, sent |-> sent, failures |-> failures,
                row |-> r, tried |-> tried, result |-> result, held |-> held]
    PROVE  WorkerShape(w) /\ w.pc = pc /\ w.row = r /\ w.held = held
  <1>1. /\ w.pc = pc /\ w.timer = timer /\ w.wake = wake /\ w.looked = looked
        /\ w.turn = turn /\ w.retry = retry /\ w.sent = sent /\ w.failures = failures
        /\ w.row = r /\ w.tried = tried /\ w.result = result /\ w.held = held
    OBVIOUS
  <1> QED
    BY <1>1 DEF WorkerShape

\* The outbox starts with nothing held.
LEMMA InitHolder == Init => HolderInv
  <1> SUFFICES ASSUME Init PROVE HolderInv
    OBVIOUS
  <1>1. \A i \in Instances : worker[i] = Fresh("wait") /\ ~Holding(i)
    BY FreshShapes DEF Init, Holding
  <1>2. Shapes
    BY <1>1, FreshShapes DEF Init, Shapes
  <1> QED
    BY <1>1, <1>2 DEF HolderInv, ClaimIsItsHolders, OneHolder

(***************************************************************************)
(* Each action                                                             *)
(***************************************************************************)
\* A claim gives its row to one worker, with both ages at zero.
LEMMA ClaimStep ==
    ASSUME HolderInv, NEW i \in Instances, NEW r \in Rows, Foremost(r), ~Holding(i),
           row' = Take(r), outlived' = outlived,
           \/ UNCHANGED worker
           \/ worker' = [worker EXCEPT ![i] = After(@, FALSE, 0, TRUE)]
           \/ worker' = [worker EXCEPT ![i] = [@ EXCEPT !.pc = "deliver", !.row = r,
                                                     !.tried = row[r].attempts, !.held = 0]]
    PROVE  HolderInv'
  <1>1. Claimable(r)
    BY DEF Foremost
  <1>2. \A j \in Instances : Holding(j) => worker[j].row # r \/ r \in outlived
    BY <1>1, ClaimableIsFree
  <1>3. /\ row'[r].status = "processing" /\ row'[r].locked = 0
        /\ \A q \in Rows : q # r => row'[q] = row[q]
        /\ DOMAIN row' = Rows /\ row' = [q \in Rows |-> row'[q]]
        /\ \A q \in Rows : RowShape(row'[q])
    <2>1. /\ row'[r] = [row[r] EXCEPT !.status = "processing", !.locked = 0,
                                      !.attempts = row[r].attempts + 1]
          /\ \A q \in Rows : q # r => row'[q] = row[q]
          /\ DOMAIN row' = Rows /\ row' = [q \in Rows |-> row'[q]]
      <3>1. DOMAIN row = Rows /\ row = [q \in Rows |-> row[q]]
        BY DEF HolderInv, Shapes
      <3> DEFINE v == [row[r] EXCEPT !.status = "processing", !.locked = 0,
                                     !.attempts = row[r].attempts + 1]
      <3>2. row' = [row EXCEPT ![r] = v]
        BY DEF Take
      <3> HIDE DEF v
      <3>3. row' = [q \in Rows |-> IF q = r THEN v ELSE row[q]]
        BY <3>1, <3>2
      <3>4. row'[r] = v /\ DOMAIN row' = Rows /\ \A q \in Rows : q # r => row'[q] = row[q]
        BY <3>3
      <3>5. row' = [q \in Rows |-> row'[q]]
        BY <3>3
      <3> QED
        BY <3>4, <3>5 DEF v
    <2>2. row[r] = [status |-> row[r].status, due |-> row[r].due,
                    locked |-> row[r].locked, attempts |-> row[r].attempts]
      BY DEF HolderInv, Shapes, RowShape
    <2>3. row'[r] = [status |-> "processing", due |-> row[r].due, locked |-> 0,
                     attempts |-> row[r].attempts + 1]
      BY <2>1, <2>2
    <2>4. RowShape(row'[r])
      BY <2>3 DEF RowShape
    <2> QED
      BY <2>1, <2>3, <2>4 DEF HolderInv, Shapes
  <1>4. CASE UNCHANGED worker
    <2>1. Shapes'
      BY <1>3, <1>4 DEF HolderInv, Shapes
    <2> QED
      BY <2>1, <1>2, <1>3, <1>4, Undisturbed DEF Holding, HolderInv, ClaimIsItsHolders
  <1>5. CASE worker' = [worker EXCEPT ![i] = After(@, FALSE, 0, TRUE)]
    <2>1. WorkerShape(worker'[i]) /\ worker'[i].pc \in {"wait", "ask"}
      BY <1>5, AfterLetsGo DEF HolderInv, Shapes
    <2>2. Shapes'
      <3>1. /\ DOMAIN worker' = Instances /\ worker' = [j \in Instances |-> worker'[j]]
            /\ \A j \in Instances : j # i => worker'[j] = worker[j]
        BY <1>5 DEF HolderInv, Shapes
      <3> QED
        BY <2>1, <3>1, <1>3 DEF HolderInv, Shapes
    <2>3. ~Holding(i)' /\ \A j \in Instances : j # i => worker'[j] = worker[j]
      BY <2>1, <1>5 DEF Holding, HolderInv, Shapes
    <2> QED
      BY <2>2, <2>3, <1>2, <1>3, Undisturbed DEF Holding, HolderInv, ClaimIsItsHolders
  <1>6. CASE worker' = [worker EXCEPT ![i] = [@ EXCEPT !.pc = "deliver", !.row = r,
                                                     !.tried = row[r].attempts, !.held = 0]]
    <2>1. /\ worker'[i] = [worker[i] EXCEPT !.pc = "deliver", !.row = r,
                                            !.tried = row[r].attempts, !.held = 0]
          /\ \A j \in Instances : j # i => worker'[j] = worker[j]
          /\ DOMAIN worker' = Instances /\ worker' = [j \in Instances |-> worker'[j]]
      BY <1>6 DEF HolderInv, Shapes
    <2>2. WorkerShape(worker'[i]) /\ worker'[i].row = r /\ worker'[i].held = 0
      <3>1. WorkerShape(worker[i])
        BY DEF HolderInv, Shapes
      <3> DEFINE w == worker[i]
      <3>2. worker'[i] = [pc |-> "deliver", timer |-> w.timer, wake |-> w.wake,
                          looked |-> w.looked, turn |-> w.turn, retry |-> w.retry,
                          sent |-> w.sent, failures |-> w.failures, row |-> r,
                          tried |-> row[r].attempts, result |-> w.result, held |-> 0]
        BY <3>1, <2>1 DEF WorkerShape
      <3> QED
        BY <3>2 DEF WorkerShape
    <2>3. Shapes'
      BY <1>3, <2>1, <2>2 DEF HolderInv, Shapes
    <2>4. ClaimIsItsHolders'
      <3>1. ASSUME NEW j \in Instances, j # i, Holding(j)'
            PROVE  /\ Holding(j) /\ worker'[j] = worker[j] /\ worker[j].row \in Rows
                   /\ \/ row'[worker[j].row] = row[worker[j].row]
                      \/ worker[j].row \in outlived /\ row'[worker[j].row].status # "none"
        <4>1. worker'[j] = worker[j] /\ Holding(j)
          BY <3>1, <2>1 DEF Holding
        <4>2. worker[j].row \in Rows /\ (worker[j].row # r \/ r \in outlived)
          BY <4>1, <1>2 DEF HolderInv, ClaimIsItsHolders
        <4> QED
          BY <4>1, <4>2, <1>3
      <3>2. \A j \in Instances : j # i /\ Holding(j)' =>
              /\ worker'[j].row \in Rows
              /\ row'[worker'[j].row].status # "none"
              /\ worker'[j].row \notin outlived' => Claimed(j)'
        BY <3>1 DEF HolderInv, ClaimIsItsHolders, Claimed
      <3>3. /\ worker'[i].row \in Rows /\ row'[worker'[i].row].status # "none"
            /\ Claimed(i)'
        BY <2>2, <1>3, Times DEF Claimed
      <3> QED
        BY <3>2, <3>3 DEF ClaimIsItsHolders
    <2>5. OneHolder'
      <3>1. \A j \in Instances : j # i /\ Holding(j)' =>
              /\ Holding(j) /\ worker'[j].row = worker[j].row
              /\ worker[j].row # r \/ r \in outlived
        BY <1>2, <2>1 DEF Holding
      <3> QED
        BY <3>1, <2>2 DEF HolderInv, OneHolder
    <2> QED
      BY <2>3, <2>4, <2>5 DEF HolderInv
  <1> QED
    BY <1>4, <1>5, <1>6

\* A worker whose call of once returns lets its row go; the others keep theirs.
LEMMA ReturnStep ==
    ASSUME HolderInv, NEW i \in Instances, NEW ok, NEW retryIn, NEW err,
           Return(i, ok, retryIn, err), UNCHANGED <<row, outlived>>
    PROVE  HolderInv'
  <1>1. WorkerShape(worker'[i]) /\ worker'[i].pc \in {"wait", "ask"}
    BY AfterLetsGo DEF Return, HolderInv, Shapes
  <1>2. Shapes'
    BY <1>1 DEF Return, HolderInv, Shapes
  <1>3. ~Holding(i)' /\ \A j \in Instances : j # i => worker'[j] = worker[j]
    BY <1>1 DEF Return, Holding, HolderInv, Shapes
  <1> QED
    BY <1>2, <1>3, Undisturbed DEF Holding

\* What a recorded outcome marks the row with.
LEMMA OutcomeMarks ==
    ASSUME NEW i \in Instances, NEW r, r = worker[i].row, row' = Outcome(worker[i])
    PROVE  \E o \in {"sent", "failed"}, d \in Int :
              /\ row' = Marked(r, o, d)
              /\ worker[i].result = "accepted" <=> o = "sent"
  <1>1. CASE worker[i].result = "accepted"
    BY <1>1 DEF Outcome
  <1>2. CASE worker[i].result # "accepted" /\ GiveUp(worker[i])
    BY <1>2 DEF Outcome, Never
  <1>3. CASE worker[i].result # "accepted" /\ ~GiveUp(worker[i])
    <2>1. PICK d : d = Backoff(worker[i].tried)
      OBVIOUS
    <2>2. d \in Int
      BY <2>1, TimesAssumption DEF Backoff
    <2> QED
      BY <1>3, <2>1, <2>2 DEF Outcome
  <1> QED
    BY <1>1, <1>2, <1>3

\* A record changes the row of the worker that records, which lets it go.
LEMMA RecordStep ==
    ASSUME HolderInv, NEW i \in Instances, Record(i)
    PROVE  HolderInv'
  <1> DEFINE q == worker[i].row
  <1>1. q \in Rows /\ Holding(i)
    BY DEF Record, HolderInv, ClaimIsItsHolders, Holding
  <1>2. /\ \A r \in Rows : r # q => row'[r] = row[r]
        /\ DOMAIN row' = Rows /\ row' = [r \in Rows |-> row'[r]]
        /\ RowShape(row'[q]) /\ row'[q].status # "none"
    <2>1. CASE row' = row
      BY <2>1, <1>1 DEF HolderInv, Shapes, ClaimIsItsHolders
    <2>2. CASE row' = Outcome(worker[i])
      <3>1. PICK o \in {"sent", "failed"}, d \in Int : row' = Marked(q, o, d)
        BY <2>2, OutcomeMarks
      <3> QED
        BY <3>1, <1>1, MarkedRow DEF HolderInv
    <2> QED
      BY <2>1, <2>2 DEF Record
  <1>3. \E ok, retryIn, err : Return(i, ok, retryIn, err)
    BY DEF Record
  <1>4. WorkerShape(worker'[i]) /\ worker'[i].pc \in {"wait", "ask"}
    BY <1>3, AfterLetsGo DEF Return, HolderInv, Shapes
  <1>5. /\ \A j \in Instances : j # i => worker'[j] = worker[j]
        /\ DOMAIN worker' = Instances /\ worker' = [j \in Instances |-> worker'[j]]
    BY <1>3 DEF Return, HolderInv, Shapes
  <1>6. Shapes'
    BY <1>1, <1>2, <1>4, <1>5 DEF HolderInv, Shapes
  <1>7. ASSUME NEW j \in Instances, Holding(j)'
        PROVE  /\ Holding(j) /\ worker'[j] = worker[j]
               /\ \/ row'[worker[j].row] = row[worker[j].row]
                  \/ worker[j].row \in outlived /\ row'[worker[j].row].status # "none"
    <2>1. j # i
      BY <1>4, <1>7 DEF Holding
    <2>2. worker'[j] = worker[j] /\ Holding(j)
      BY <2>1, <1>5, <1>7 DEF Holding
    <2>3. worker[j].row \in Rows /\ (worker[j].row # q \/ worker[j].row \in outlived)
      BY <2>1, <2>2, <1>1 DEF HolderInv, OneHolder, ClaimIsItsHolders
    <2> QED
      BY <2>2, <2>3, <1>2
  <1>8. outlived' = outlived
    BY DEF Record
  <1> QED
    BY <1>6, <1>7, <1>8, Undisturbed

\* Time passes for a claim and its holder alike.
LEMMA TickStep == ASSUME HolderInv, Tick PROVE HolderInv'
  <1>1. /\ \A r \in Rows : row'[r] = Older(row[r])
        /\ \A i \in Instances : worker'[i] = Later(worker[i])
        /\ DOMAIN worker' = Instances /\ worker' = [i \in Instances |-> worker'[i]]
        /\ DOMAIN row' = Rows /\ row' = [r \in Rows |-> row'[r]]
    BY DEF Tick
  <1>2. \A r \in Rows : /\ RowShape(row'[r]) /\ row'[r].status = row[r].status
                        /\ row[r].status = "processing" /\ row[r].locked <= Lease
                             => row'[r].locked = row[r].locked + 1
    <2> SUFFICES ASSUME NEW r \in Rows
                 PROVE  /\ RowShape(Older(row[r])) /\ Older(row[r]).status = row[r].status
                        /\ row[r].status = "processing" /\ row[r].locked <= Lease
                             => Older(row[r]).locked = row[r].locked + 1
      BY <1>1
    <2>1. RowShape(row[r])
      BY DEF HolderInv, Shapes
    <2>2. PICK d : Older(row[r]) =
            [row[r] EXCEPT !.due = d,
                           !.locked = IF row[r].status = "processing" /\ @ <= Lease
                                      THEN @ + 1 ELSE @]
      BY DEF Older
    <2>3. Older(row[r]) =
            [status |-> row[r].status, due |-> d,
             locked |-> IF row[r].status = "processing" /\ row[r].locked <= Lease
                        THEN row[r].locked + 1 ELSE row[r].locked,
             attempts |-> row[r].attempts]
      BY <2>1, <2>2 DEF RowShape
    <2> QED
      BY <2>1, <2>3, Times DEF RowShape
  <1>3. \A i \in Instances :
          /\ WorkerShape(worker'[i]) /\ worker'[i].pc = worker[i].pc
          /\ worker'[i].row = worker[i].row
          /\ Holding(i) /\ worker[i].held <= Lease => worker'[i].held = worker[i].held + 1
    <2> SUFFICES ASSUME NEW i \in Instances
                 PROVE  /\ WorkerShape(Later(worker[i])) /\ Later(worker[i]).pc = worker[i].pc
                        /\ Later(worker[i]).row = worker[i].row
                        /\ Holding(i) /\ worker[i].held <= Lease
                             => Later(worker[i]).held = worker[i].held + 1
      BY <1>1
    <2> DEFINE w == worker[i]
    <2>1. WorkerShape(w)
      BY DEF HolderInv, Shapes
    <2>2. PICK t, l : Later(w) =
            [w EXCEPT !.timer = t, !.looked = l,
                      !.held = IF w.pc \in {"deliver", "record"} /\ @ <= Lease
                               THEN @ + 1 ELSE @]
      BY DEF Later
    <2>3. Later(w) =
            [pc |-> w.pc, timer |-> t, wake |-> w.wake, looked |-> l, turn |-> w.turn,
             retry |-> w.retry, sent |-> w.sent, failures |-> w.failures, row |-> w.row,
             tried |-> w.tried, result |-> w.result,
             held |-> IF w.pc \in {"deliver", "record"} /\ w.held <= Lease
                      THEN w.held + 1 ELSE w.held]
      BY <2>1, <2>2 DEF WorkerShape
    <2> QED
      BY <2>1, <2>3 DEF WorkerShape, Holding
  <1>4. Shapes'
    BY <1>1, <1>2, <1>3 DEF Shapes
  <1>5. /\ \A i \in Instances : Holding(i)' => Holding(i)
        /\ outlived \subseteq outlived'
        /\ \A i \in Instances : Holding(i) /\ worker[i].held >= Lease
                                   => worker[i].row \in outlived'
    BY <1>3 DEF Holding, Tick, Overdrawn
  <1>6. ClaimIsItsHolders'
    <2> SUFFICES ASSUME NEW i \in Instances, Holding(i)'
                 PROVE  /\ worker'[i].row \in Rows
                        /\ row'[worker'[i].row].status # "none"
                        /\ worker'[i].row \notin outlived' => Claimed(i)'
      BY DEF ClaimIsItsHolders
    <2>1. Holding(i) /\ worker[i].held \in Nat
      BY <1>5 DEF HolderInv, Shapes, WorkerShape
    <2>2. /\ worker'[i].row = worker[i].row /\ worker[i].row \in Rows
          /\ row[worker[i].row].status # "none"
      BY <2>1, <1>3 DEF HolderInv, ClaimIsItsHolders
    <2>3. ASSUME worker[i].row \notin outlived'
          PROVE  Claimed(i)'
      <3>1. Claimed(i) /\ worker[i].held < Lease
        BY <2>1, <2>3, <1>5, Times DEF HolderInv, ClaimIsItsHolders
      <3>2. worker'[i].held = worker[i].held + 1
        BY <2>1, <3>1, <1>3, Times
      <3> QED
        BY <2>1, <2>2, <3>1, <3>2, <1>2, Times DEF Claimed
    <2> QED
      BY <2>2, <2>3, <1>2
  <1>7. OneHolder'
    BY <1>3, <1>5 DEF HolderInv, OneHolder
  <1> QED
    BY <1>4, <1>6, <1>7 DEF HolderInv

\* Every step keeps the invariant.
LEMMA HolderStep == HolderInv /\ [Next]_vars => HolderInv'
  <1> SUFFICES ASSUME HolderInv, [Next]_vars PROVE HolderInv'
    OBVIOUS
  <1>1. \A i \in Instances : WorkerShape(worker[i])
    BY DEF HolderInv, Shapes
  <1>2. ASSUME NEW i \in Instances, NEW w, WorkerShape(w), UNCHANGED <<row, outlived>>,
               worker' = [worker EXCEPT ![i] = w],
               w.pc \in {"deliver", "record"} =>
                 Holding(i) /\ w.row = worker[i].row /\ w.held = worker[i].held
        PROVE  HolderInv'
    <2>1. worker'[i] = w /\ \A j \in Instances : j # i => worker'[j] = worker[j]
      BY <1>2 DEF HolderInv, Shapes
    <2>2. Shapes'
      BY <1>2, <2>1 DEF HolderInv, Shapes
    <2> QED
      BY <1>2, <2>1, <2>2, Undisturbed DEF Holding
  <1>3. ASSUME NEW i \in Instances, NEW r \in Rows, Enqueue(i, r) PROVE HolderInv'
    <2>1. /\ DOMAIN row' = Rows /\ row' = [q \in Rows |-> row'[q]]
          /\ row'[r] = [row[r] EXCEPT !.status = "pending"]
          /\ \A q \in Rows : q # r => row'[q] = row[q]
      BY <1>3 DEF Enqueue, HolderInv, Shapes
    <2>2. RowShape(row'[r])
      <3>1. RowShape(row[r])
        BY DEF HolderInv, Shapes
      <3>2. row'[r] = [status |-> "pending", due |-> row[r].due, locked |-> row[r].locked,
                       attempts |-> row[r].attempts]
        BY <2>1, <3>1 DEF RowShape
      <3> QED
        BY <3>1, <3>2 DEF RowShape
    <2>3. Shapes'
      BY <1>3, <2>1, <2>2 DEF Enqueue, HolderInv, Shapes
    <2>4. /\ \A j \in Instances : Holding(j) => worker[j].row # r /\ worker[j].row \in Rows
          /\ outlived' = outlived
      BY <1>3 DEF Enqueue, HolderInv, ClaimIsItsHolders
    <2> QED
      BY <1>3, <2>1, <2>3, <2>4, Undisturbed DEF Enqueue, Holding
  <1>4. ASSUME NEW i \in Instances, NEW r \in Rows, Notify(i, r) PROVE HolderInv'
    <2> DEFINE w == [worker[i] EXCEPT !.wake = TRUE]
    <2>1. worker' = [worker EXCEPT ![i] = w] /\ UNCHANGED <<row, outlived>>
      BY <1>4 DEF Notify
    <2>2. WorkerShape(w) /\ w.pc = worker[i].pc /\ w.row = worker[i].row
          /\ w.held = worker[i].held
      <3>1. PICK v : v = worker[i]
        OBVIOUS
      <3>2. PICK x : x = w
        OBVIOUS
      <3>3. WorkerShape(v)
        BY <3>1, <1>1
      <3>4. x = [pc |-> v.pc, timer |-> v.timer, wake |-> TRUE,
               looked |-> v.looked, turn |-> v.turn,
               retry |-> v.retry, sent |-> v.sent,
               failures |-> v.failures, row |-> v.row,
               tried |-> v.tried, result |-> v.result,
               held |-> v.held]
        BY <3>1, <3>2, <3>3 DEF WorkerShape
      <3>5. WorkerShape(x) /\ x.pc = v.pc /\ x.row = v.row /\ x.held = v.held
        BY <3>3, <3>4, WrittenOut DEF WorkerShape
      <3> HIDE DEF w
      <3> QED
        BY <3>1, <3>2, <3>5
    <2> QED
      BY <2>1, <2>2, <1>2 DEF Holding
  <1>5. ASSUME NEW i \in Instances, DatabaseInUse(i) PROVE HolderInv'
    <2> DEFINE w == [worker[i] EXCEPT !.wake = TRUE]
    <2>1. worker' = [worker EXCEPT ![i] = w] /\ UNCHANGED <<row, outlived>>
      BY <1>5 DEF DatabaseInUse
    <2>2. WorkerShape(w) /\ w.pc = worker[i].pc /\ w.row = worker[i].row
          /\ w.held = worker[i].held
      <3>1. PICK v : v = worker[i]
        OBVIOUS
      <3>2. PICK x : x = w
        OBVIOUS
      <3>3. WorkerShape(v)
        BY <3>1, <1>1
      <3>4. x = [pc |-> v.pc, timer |-> v.timer, wake |-> TRUE,
               looked |-> v.looked, turn |-> v.turn,
               retry |-> v.retry, sent |-> v.sent,
               failures |-> v.failures, row |-> v.row,
               tried |-> v.tried, result |-> v.result,
               held |-> v.held]
        BY <3>1, <3>2, <3>3 DEF WorkerShape
      <3>5. WorkerShape(x) /\ x.pc = v.pc /\ x.row = v.row /\ x.held = v.held
        BY <3>3, <3>4, WrittenOut DEF WorkerShape
      <3> HIDE DEF w
      <3> QED
        BY <3>1, <3>2, <3>5
    <2> QED
      BY <2>1, <2>2, <1>2 DEF Holding
  <1>6. ASSUME NEW r \in Rows, Erase(r) PROVE HolderInv'
    <2>1. /\ DOMAIN row' = Rows /\ row' = [q \in Rows |-> row'[q]]
          /\ row'[r] = Bare("erased", 0) /\ \A q \in Rows : q # r => row'[q] = row[q]
      BY <1>6 DEF Erase, HolderInv, Shapes
    <2>2. Shapes'
      BY <1>6, <2>1, FreshShapes DEF Erase, HolderInv, Shapes
    <2>3. \A j \in Instances : Holding(j) => worker[j].row \in Rows
      BY DEF HolderInv, ClaimIsItsHolders
    <2> QED
      BY <1>6, <2>1, <2>2, <2>3, FreshShapes, Undisturbed DEF Erase, Holding
  <1>7. ASSUME NEW i \in Instances, Begin(i) PROVE HolderInv'
    <2> DEFINE w == [worker[i] EXCEPT !.pc = "ask", !.wake = FALSE, !.timer = 0,
                                      !.looked = 0, !.turn = 0, !.retry = 0, !.sent = FALSE]
    <2>1. worker' = [worker EXCEPT ![i] = w] /\ UNCHANGED <<row, outlived>>
      BY <1>7 DEF Begin
    <2>2. w.pc = "ask" /\ WorkerShape(w)
      <3>1. PICK v : v = worker[i]
        OBVIOUS
      <3>2. PICK x : x = w
        OBVIOUS
      <3>3. WorkerShape(v)
        BY <3>1, <1>1
      <3>4. x = [pc |-> "ask", timer |-> 0, wake |-> FALSE, looked |-> 0, turn |-> 0,
               retry |-> 0, sent |-> FALSE, failures |-> v.failures,
               row |-> v.row, tried |-> v.tried,
               result |-> v.result, held |-> v.held]
        BY <3>1, <3>2, <3>3 DEF WorkerShape
      <3>5. WorkerShape(x) /\ x.pc = "ask" /\ x.row = v.row /\ x.held = v.held
        BY <3>3, <3>4, WrittenOut DEF WorkerShape
      <3> HIDE DEF w
      <3> QED
        BY <3>1, <3>2, <3>5
    <2> QED
      BY <2>1, <2>2, <1>2
  <1>8. ASSUME NEW i \in Instances, Ask(i) PROVE HolderInv'
    <2>1. CASE \E ok, retryIn, err : Return(i, ok, retryIn, err)
      BY <2>1, <1>8, ReturnStep DEF Ask
    <2>2. CASE worker' = [worker EXCEPT ![i].pc = "claim"]
      <3> DEFINE w == [worker[i] EXCEPT !.pc = "claim"]
      <3>1. worker' = [worker EXCEPT ![i] = w] /\ UNCHANGED <<row, outlived>>
        BY <1>8, <2>2 DEF Ask
      <3>2. w.pc = "claim" /\ WorkerShape(w)
        <4>1. PICK v : v = worker[i]
          OBVIOUS
        <4>2. PICK x : x = w
          OBVIOUS
        <4>3. WorkerShape(v)
          BY <4>1, <1>1
        <4>4. x = [pc |-> "claim", timer |-> v.timer, wake |-> v.wake,
                 looked |-> v.looked, turn |-> v.turn,
                 retry |-> v.retry, sent |-> v.sent,
                 failures |-> v.failures, row |-> v.row,
                 tried |-> v.tried, result |-> v.result,
                 held |-> v.held]
          BY <4>1, <4>2, <4>3 DEF WorkerShape
        <4>5. WorkerShape(x) /\ x.pc = "claim" /\ x.row = v.row /\ x.held = v.held
          BY <4>3, <4>4, WrittenOut DEF WorkerShape
        <4> HIDE DEF w
        <4> QED
          BY <4>1, <4>2, <4>5
      <3> QED
        BY <3>1, <3>2, <1>2
    <2> QED
      BY <1>8, <2>1, <2>2 DEF Ask
  <1>9. ASSUME NEW i \in Instances, Claim(i) PROVE HolderInv'
    <2>1. CASE UNCHANGED row /\ Return(i, FALSE, Busy, FALSE)
      BY <1>9, <2>1, ReturnStep DEF Claim
    <2>2. CASE \E r \in Rows :
                 /\ Foremost(r) /\ row' = Take(r)
                 /\ worker' = [worker EXCEPT ![i] = [@ EXCEPT !.pc = "deliver", !.row = r,
                                                   !.tried = row[r].attempts, !.held = 0]]
      BY <1>9, <2>2, ClaimStep DEF Claim, Holding
    <2> QED
      BY <1>9, <2>1, <2>2 DEF Claim
  <1>10. ASSUME NEW i \in Instances, DatabaseFails(i) PROVE HolderInv'
    <2>1. Return(i, FALSE, 0, TRUE) /\ ~Holding(i) /\ outlived' = outlived
      BY <1>10 DEF DatabaseFails, Holding
    <2>2. CASE UNCHANGED row
      BY <2>1, <2>2, ReturnStep
    <2>3. CASE \E r \in Rows : Foremost(r) /\ row' = Take(r)
      BY <2>1, <2>3, ClaimStep DEF Return
    <2> QED
      BY <1>10, <2>2, <2>3 DEF DatabaseFails
  <1>11. ASSUME NEW i \in Instances, Deliver(i) PROVE HolderInv'
    <2>1. PICK result : worker' = [worker EXCEPT ![i] =
                                     [@ EXCEPT !.pc = "record", !.result = result]]
      BY <1>11 DEF Deliver
    <2> DEFINE w == [worker[i] EXCEPT !.pc = "record", !.result = result]
    <2>2. worker' = [worker EXCEPT ![i] = w] /\ UNCHANGED <<row, outlived>> /\ Holding(i)
      BY <1>11, <2>1 DEF Deliver, Holding
    <2>3. WorkerShape(w) /\ w.row = worker[i].row /\ w.held = worker[i].held
      <3>1. PICK v : v = worker[i]
        OBVIOUS
      <3>2. PICK x : x = w
        OBVIOUS
      <3>3. WorkerShape(v)
        BY <3>1, <1>1
      <3>4. x = [pc |-> "record", timer |-> v.timer, wake |-> v.wake,
               looked |-> v.looked, turn |-> v.turn,
               retry |-> v.retry, sent |-> v.sent,
               failures |-> v.failures, row |-> v.row,
               tried |-> v.tried, result |-> result,
               held |-> v.held]
        BY <3>1, <3>2, <3>3 DEF WorkerShape
      <3>5. WorkerShape(x) /\ x.pc = "record" /\ x.row = v.row /\ x.held = v.held
        BY <3>3, <3>4, WrittenOut DEF WorkerShape
      <3> HIDE DEF w
      <3> QED
        BY <3>1, <3>2, <3>5
    <2> QED
      BY <2>2, <2>3, <1>2
  <1>12. ASSUME NEW i \in Instances, RecordFails(i) PROVE HolderInv'
    BY <1>12, ReturnStep DEF RecordFails
  <1>13. ASSUME NEW i \in Instances, NEW c \in {"down", "wait"},
                UNCHANGED <<row, outlived>>,
                worker' = [worker EXCEPT ![i] = Fresh(c)]
         PROVE  HolderInv'
    BY <1>13, <1>2, FreshShapes
  <1>14. CASE UNCHANGED vars
    <2>1. UNCHANGED <<row, worker, outlived>>
      BY <1>14 DEF vars
    <2> QED
      BY <2>1 DEF HolderInv, Shapes, ClaimIsItsHolders, Claimed, OneHolder, Holding
  <1> QED
    BY <1>3, <1>4, <1>5, <1>6, <1>7, <1>8, <1>9, <1>10, <1>11, <1>12, <1>13, <1>14,
       RecordStep, TickStep DEF Next, Crash, Restart

(***************************************************************************)
(* The theorem                                                             *)
(***************************************************************************)
\* No message is in the hands of two workers at once that none of them has
\* held for longer than the lease, however many instances drain the outbox,
\* and whichever crash, stall, refuse or lose an answer.
THEOREM OneHolderHolds == Spec => []OneHolder
  <1>1. HolderInv => OneHolder
    BY DEF HolderInv
  <1> QED
    BY InitHolder, HolderStep, <1>1, PTL DEF Spec

-----------------------------------------------------------------------------
(***************************************************************************)
(* The workers implement MailPromise, for every number of instances and    *)
(* messages, every fault and every lease.                                  *)
(***************************************************************************)

(***************************************************************************)
(* What the outbox knows of the provider                                   *)
(***************************************************************************)
\* Worker i has a copy accepted and has not recorded it yet.
Knows(i, r) == /\ worker[i].pc = "record" /\ worker[i].row = r
               /\ worker[i].result = "accepted"

\* Of a row no worker has held for longer than its lease, the outbox knows
\* whether the provider may have a copy that somebody can still hear of.
Even(r) ==
    /\ accepted[r] \in {excused[r], excused[r] + 1}
    /\ row[r].status \in {"none", "pending", "failed"} => accepted[r] = excused[r]
    /\ row[r].status = "sent" => accepted[r] = excused[r] + 1
    /\ row[r].status = "processing" /\ accepted[r] # excused[r]
           => \E i \in Instances : Knows(i, r)

RowLedger(r) ==
    /\ accepted[r] \in Nat /\ excused[r] \in Int
    /\ row[r].due \in Int /\ row[r].attempts \in Nat
    /\ row[r].status \in {"none", "pending", "processing", "failed", "sent", "erased"}
    /\ row[r].status \in {"none", "pending"} => row[r].due # Never
    /\ r \notin outlived => Even(r)

\* A worker about to deliver has nothing in doubt; one that records knows.
Sure(i) ==
    /\ worker[i].result # "accepted" \/ worker[i].pc = "deliver"
           => accepted[worker[i].row] = excused[worker[i].row]
    /\ worker[i].result = "accepted" /\ worker[i].pc = "record"
           => accepted[worker[i].row] = excused[worker[i].row] + 1

WorkerLedger(i) ==
    Holding(i) =>
        /\ worker[i].tried \in Nat
        /\ worker[i].result = "accepted" /\ worker[i].pc = "record"
               => accepted[worker[i].row] > 0
        /\ worker[i].row \notin outlived => Sure(i)

Ledger ==
    /\ accepted = [r \in Rows |-> accepted[r]] /\ excused = [r \in Rows |-> excused[r]]
    /\ \A r \in Rows : RowLedger(r)
    /\ \A i \in Instances : WorkerLedger(i)

(***************************************************************************)
(* Lemmas                                                                  *)
(***************************************************************************)
\* A row whose status stays, and which is not given up meanwhile, stands for
\* the same.
LEMMA MailStays ==
    ASSUME NEW r \in Rows, row'[r].status = row[r].status,
           (row'[r].due = Never) <=> (row[r].due = Never)
    PROVE  MailOf(r)' = MailOf(r)
  BY DEF MailOf, Unfinished, Waiting, GivenUp

\* What stands for what, before a step and after it.
LEMMA MailIs ==
    ASSUME NEW r \in Rows
    PROVE  /\ row[r].status = "none" => MailOf(r) = "unwritten"
           /\ Unfinished(r) => MailOf(r) = "owed"
           /\ GivenUp(r) => MailOf(r) = "given up"
           /\ row[r].status = "failed" => MailOf(r) \in {"owed", "given up"}
           /\ row[r].status = "sent" => MailOf(r) = "sent"
           /\ row[r].status = "erased" => MailOf(r) = "erased"
  BY DEF MailOf, Unfinished, Waiting, GivenUp

\* What a row stands for after a step that sets its status.
LEMMA MailBecomes ==
    ASSUME NEW r \in Rows
    PROVE  /\ row'[r].status = "pending" /\ row'[r].due # Never => MailOf(r)' = "owed"
           /\ row'[r].status = "processing" => MailOf(r)' = "owed"
           /\ row'[r].status = "failed" => MailOf(r)' \in {"owed", "given up"}
           /\ row'[r].status = "sent" => MailOf(r)' = "sent"
           /\ row'[r].status = "erased" => MailOf(r)' = "erased"
  BY DEF MailOf, Unfinished, Waiting, GivenUp

Mails == [r \in Rows |-> MailOf(r)]

\* Steps that change nothing the promise speaks of.
LEMMA MailStutters ==
    ASSUME UNCHANGED <<accepted, excused, outlived>>,
           \A r \in Rows : MailOf(r)' = MailOf(r)
    PROVE  UNCHANGED Promise!vars
  BY DEF Promise!vars

\* One message moves on.
LEMMA MailMoves ==
    ASSUME NEW r \in Rows, \A q \in Rows : q # r => MailOf(q)' = MailOf(q)
    PROVE  Mails' = [Mails EXCEPT ![r] = MailOf(r)']
  BY DEF Mails

\* A step after which the workers hold what they held, and rows are no
\* different, leaves the ledger as it is.
LEMMA LedgerUndisturbed ==
    ASSUME Ledger, UNCHANGED <<accepted, excused>>, outlived \subseteq outlived',
           \A r \in Rows : /\ row'[r].status = row[r].status
                           /\ row'[r].attempts = row[r].attempts
                           /\ row'[r].due \in Int
                           /\ (row'[r].due = Never) <=> (row[r].due = Never),
           \A i \in Instances : Holding(i) => worker'[i].pc = worker[i].pc,
           \A i \in Instances : Holding(i)' =>
               /\ worker'[i].pc = worker[i].pc /\ worker'[i].row = worker[i].row
               /\ worker'[i].result = worker[i].result /\ worker'[i].tried = worker[i].tried
    PROVE  Ledger' /\ \A r \in Rows : MailOf(r)' = MailOf(r)
  <1>1. ASSUME NEW r \in Rows PROVE RowLedger(r)'
    <2>1. Even(r) => Even(r)'
      BY DEF Even, Knows, Holding
    <2> QED
      BY <2>1 DEF Ledger, RowLedger
  <1>2. ASSUME NEW i \in Instances PROVE WorkerLedger(i)'
    BY DEF Ledger, WorkerLedger, Sure, Holding
  <1>3. \A r \in Rows : MailOf(r)' = MailOf(r)
    BY MailStays
  <1> QED
    BY <1>1, <1>2, <1>3 DEF Ledger

\* The ledger starts even.
LEMMA InitLedger == Init => Ledger
  <1> SUFFICES ASSUME Init PROVE Ledger
    OBVIOUS
  <1>1. \A i \in Instances : ~Holding(i)
    BY FreshShapes DEF Init, Holding
  <1>2. \A r \in Rows : row[r] = [status |-> "none", due |-> 0, locked |-> 0, attempts |-> 0]
    BY DEF Init, Bare
  <1>3. \A r \in Rows : RowLedger(r)
    BY <1>2 DEF Init, RowLedger, Even, Never
  <1> QED
    BY <1>1, <1>3 DEF Init, Ledger, WorkerLedger

\* The outbox starts as the promise does.
LEMMA InitPromise == Init => Promise!Init
  <1> SUFFICES ASSUME Init PROVE Promise!Init
    OBVIOUS
  <1>1. \A r \in Rows : row[r].status = "none"
    BY DEF Init, Bare
  <1>2. \A r \in Rows : MailOf(r) = "unwritten"
    BY <1>1, MailIs
  <1> QED
    BY <1>2 DEF Init, Promise!Init

(***************************************************************************)
(* Each action                                                             *)
(***************************************************************************)
\* What a step promises of the two together.
Kept == Ledger' /\ [Promise!Next]_(Promise!vars)

\* A committed row is a message written.
LEMMA EnqueueKept ==
    ASSUME HolderInv, Ledger, NEW i \in Instances, NEW r \in Rows, Enqueue(i, r)
    PROVE  Kept
  <1>1. row[r].status = "none" /\ UNCHANGED <<worker, accepted, excused, outlived>>
    BY DEF Enqueue
  <1>2. /\ row'[r].status = "pending" /\ row'[r].due = row[r].due
        /\ row'[r].attempts = row[r].attempts
        /\ \A q \in Rows : q # r => row'[q] = row[q]
    <2>1. row'[r] = [row[r] EXCEPT !.status = "pending"]
          /\ \A q \in Rows : q # r => row'[q] = row[q]
      BY DEF Enqueue, HolderInv, Shapes
    <2>2. RowShape(row[r])
      BY DEF HolderInv, Shapes
    <2> QED
      BY <2>1, <2>2 DEF RowShape
  <1>3. \A q \in Rows : RowLedger(q)'
    BY <1>1, <1>2 DEF Ledger, RowLedger, Even, Knows
  <1>4. \A j \in Instances : WorkerLedger(j)'
    BY <1>1 DEF Ledger, WorkerLedger, Sure, Holding
  <1>5. Ledger'
    BY <1>1, <1>3, <1>4 DEF Ledger
  <1>6. MailOf(r) = "unwritten" /\ MailOf(r)' = "owed"
        /\ \A q \in Rows : q # r => MailOf(q)' = MailOf(q)
    BY <1>1, <1>2, MailIs, MailBecomes, MailStays DEF Ledger, RowLedger
  <1>7. Promise!Write(r)
    BY <1>1, <1>6, MailMoves DEF Mails, Promise!Write, Promise!Becomes
  <1> QED
    BY <1>5, <1>7 DEF Kept, Promise!Next

\* An erased row is a message erased.
LEMMA EraseKept ==
    ASSUME HolderInv, Ledger, NEW r \in Rows, Erase(r)
    PROVE  Kept
  <1>1. /\ row[r].status \notin {"none", "erased"}
        /\ UNCHANGED <<worker, accepted, excused, outlived>>
    BY DEF Erase
  <1>2. /\ row'[r].status = "erased" /\ row'[r].due = 0 /\ row'[r].attempts = 0
        /\ \A q \in Rows : q # r => row'[q] = row[q]
    BY DEF Erase, HolderInv, Shapes, Bare
  <1>3. \A q \in Rows : RowLedger(q)'
    BY <1>1, <1>2 DEF Ledger, RowLedger, Even, Knows
  <1>4. \A j \in Instances : WorkerLedger(j)'
    BY <1>1 DEF Ledger, WorkerLedger, Sure, Holding
  <1>5. Ledger'
    BY <1>1, <1>3, <1>4 DEF Ledger
  <1>6. MailOf(r) \in {"owed", "sent", "given up"} /\ MailOf(r)' = "erased"
        /\ \A q \in Rows : q # r => MailOf(q)' = MailOf(q)
    BY <1>1, <1>2, MailIs, MailBecomes, MailStays DEF Ledger, RowLedger, Unfinished, Waiting
  <1>7. Promise!Erase(r)
    BY <1>1, <1>6, MailMoves DEF Mails, Promise!Erase
  <1> QED
    BY <1>5, <1>7 DEF Kept, Promise!Next

\* A claim takes a row nobody knows anything of, if nobody was too slow on it.
LEMMA ClaimedIsUnknown ==
    ASSUME HolderInv, Ledger, NEW r \in Rows, Claimable(r)
    PROVE  /\ MailOf(r) = "owed"
           /\ r \notin outlived =>
                 /\ accepted[r] = excused[r]
                 /\ \A i \in Instances : Holding(i) => worker[i].row # r
  <1>1. ASSUME r \notin outlived
        PROVE  /\ accepted[r] = excused[r]
               /\ \A i \in Instances : Holding(i) => worker[i].row # r
    <2>1. \A i \in Instances : Holding(i) => worker[i].row # r
      BY <1>1, ClaimableIsFree
    <2> QED
      BY <1>1, <2>1 DEF Ledger, RowLedger, Even, Knows, Holding, Claimable, Waiting
  <1>2. MailOf(r) = "owed"
    BY MailIs DEF Claimable, Unfinished
  <1> QED
    BY <1>1, <1>2

\* A claim changes nothing of a row but that it is claimed, and counted.
LEMMA TakenRow ==
    ASSUME HolderInv, Ledger, NEW r \in Rows, row' = Take(r)
    PROVE  /\ row'[r].status = "processing" /\ row'[r].due = row[r].due
           /\ row'[r].attempts \in Nat
           /\ \A q \in Rows : q # r => row'[q] = row[q]
  <1>1. /\ row'[r] = [row[r] EXCEPT !.status = "processing", !.locked = 0,
                                    !.attempts = row[r].attempts + 1]
        /\ \A q \in Rows : q # r => row'[q] = row[q]
    BY DEF Take, HolderInv, Shapes
  <1>2. RowShape(row[r]) /\ row[r].attempts \in Nat
    BY DEF HolderInv, Shapes, Ledger, RowLedger
  <1>3. row'[r] = [status |-> "processing", due |-> row[r].due, locked |-> 0,
                   attempts |-> row[r].attempts + 1]
    BY <1>1, <1>2 DEF RowShape
  <1> QED
    BY <1>1, <1>2, <1>3

\* However a claim ends, the row is taken by i or by nobody.
LEMMA TakeKept ==
    ASSUME HolderInv, Ledger, NEW i \in Instances, NEW r \in Rows, Foremost(r),
           row' = Take(r), UNCHANGED <<accepted, excused, outlived>>, ~Holding(i),
           \A j \in Instances : j # i => worker'[j] = worker[j],
           \/ ~Holding(i)'
           \/ worker'[i].pc = "deliver" /\ worker'[i].row = r /\ worker'[i].tried \in Nat
    PROVE  Kept
  <1>1. Claimable(r)
    BY DEF Foremost
  <1>2. \A q \in Rows : RowLedger(q)'
    <2>1. RowLedger(r)'
      BY <1>1, ClaimedIsUnknown, TakenRow DEF Ledger, RowLedger, Even
    <2>2. ASSUME NEW q \in Rows, q # r
          PROVE  RowLedger(q)'
      <3>1. Even(q) => Even(q)'
        BY <2>2, TakenRow DEF Even, Knows, Holding
      <3> QED
        BY <2>2, <3>1, TakenRow DEF Ledger, RowLedger
    <2> QED
      BY <2>1, <2>2
  <1>3. \A j \in Instances : WorkerLedger(j)'
    <2>1. ASSUME NEW j \in Instances, j # i PROVE WorkerLedger(j)'
      BY <2>1 DEF Ledger, WorkerLedger, Sure, Holding
    <2>2. WorkerLedger(i)'
      BY <1>1, ClaimedIsUnknown DEF WorkerLedger, Sure, Holding
    <2> QED
      BY <2>1, <2>2
  <1>4. Ledger'
    BY <1>2, <1>3 DEF Ledger
  <1>5. \A q \in Rows : MailOf(q)' = MailOf(q)
    BY <1>1, ClaimedIsUnknown, TakenRow, MailStays, MailBecomes
  <1> QED
    BY <1>4, <1>5, MailStutters DEF Kept

\* A call of once that returns changes its worker only, which holds nothing.
LEMMA ReturnsEmptyHanded ==
    ASSUME HolderInv, NEW i \in Instances, NEW ok, NEW retryIn, NEW err,
           Return(i, ok, retryIn, err)
    PROVE  ~Holding(i)' /\ \A j \in Instances : j # i => worker'[j] = worker[j]
  <1>1. worker'[i] = After(worker[i], ok, retryIn, err)
        /\ \A j \in Instances : j # i => worker'[j] = worker[j]
    BY DEF Return, HolderInv, Shapes
  <1>2. worker'[i].pc \in {"wait", "ask"}
    BY <1>1, AfterLetsGo DEF HolderInv, Shapes
  <1> QED
    BY <1>1, <1>2 DEF Holding

\* A claim, or a look that fails, says nothing new of any message.
LEMMA ClaimKept ==
    ASSUME HolderInv, Ledger, NEW i \in Instances, Claim(i) \/ DatabaseFails(i)
    PROVE  Kept
  <1>1. ~Holding(i) /\ UNCHANGED <<accepted, excused, outlived>>
    BY DEF Claim, DatabaseFails, Holding
  <1>2. CASE UNCHANGED row
    <2>1. \E ok, retryIn, err : Return(i, ok, retryIn, err)
      <3>1. CASE DatabaseFails(i)
        BY <3>1 DEF DatabaseFails
      <3>2. CASE Claim(i) /\ ~\E retryIn : Return(i, FALSE, retryIn, FALSE)
        <4>1. PICK r \in Rows : Foremost(r) /\ row' = Take(r)
          BY <3>2 DEF Claim
        <4>2. row'[r].attempts = row[r].attempts + 1
          <5>1. row'[r] = [row[r] EXCEPT !.status = "processing", !.locked = 0,
                                         !.attempts = row[r].attempts + 1]
            BY <4>1 DEF Take, HolderInv, Shapes
          <5> QED
            BY <5>1 DEF HolderInv, Shapes, RowShape
        <4> QED
          BY <4>2, <1>2 DEF Ledger, RowLedger
      <3> QED
        BY <3>1, <3>2
    <2>2. Ledger' /\ \A r \in Rows : MailOf(r)' = MailOf(r)
      BY <1>1, <1>2, <2>1, ReturnsEmptyHanded, LedgerUndisturbed DEF Ledger, RowLedger
    <2> QED
      BY <1>1, <2>2, MailStutters DEF Kept
  <1>3. CASE ~UNCHANGED row /\ Claim(i)
    <2>1. PICK r \in Rows :
            /\ Foremost(r) /\ row' = Take(r)
            /\ worker' = [worker EXCEPT ![i] = [@ EXCEPT !.pc = "deliver", !.row = r,
                                        !.tried = row[r].attempts, !.held = 0]]
      BY <1>3 DEF Claim
    <2>2. /\ worker'[i] = [worker[i] EXCEPT !.pc = "deliver", !.row = r,
                                            !.tried = row[r].attempts, !.held = 0]
          /\ \A j \in Instances : j # i => worker'[j] = worker[j]
      BY <2>1 DEF HolderInv, Shapes
    <2>3. worker'[i].pc = "deliver" /\ worker'[i].row = r
          /\ worker'[i].tried = row[r].attempts
      <3>1. WorkerShape(worker[i])
        BY DEF HolderInv, Shapes
      <3> QED
        BY <2>2, <3>1 DEF WorkerShape
    <2>4. row[r].attempts \in Nat
      BY DEF Ledger, RowLedger
    <2> QED
      BY <1>1, <2>1, <2>2, <2>3, <2>4, TakeKept
  <1>4. CASE ~UNCHANGED row /\ DatabaseFails(i)
    <2>1. PICK r \in Rows : Foremost(r) /\ row' = Take(r)
      BY <1>4 DEF DatabaseFails
    <2>2. Return(i, FALSE, 0, TRUE)
      BY <1>4 DEF DatabaseFails
    <2> QED
      BY <1>1, <2>1, <2>2, ReturnsEmptyHanded, TakeKept
  <1> QED
    BY <1>2, <1>3, <1>4
\* A step that leaves the table and the provider alone, and every worker with
\* the row it held.
LEMMA QuietKept ==
    ASSUME Ledger, UNCHANGED <<row, accepted, excused, outlived>>,
           \A i \in Instances :
              \/ ~Holding(i) /\ ~Holding(i)'
              \/ /\ worker'[i].pc = worker[i].pc /\ worker'[i].row = worker[i].row
                 /\ worker'[i].result = worker[i].result
                 /\ worker'[i].tried = worker[i].tried
    PROVE  Kept
  <1>1. \A i \in Instances : Holding(i) => worker'[i].pc = worker[i].pc
    OBVIOUS
  <1>2. \A i \in Instances : Holding(i)' =>
           /\ worker'[i].pc = worker[i].pc /\ worker'[i].row = worker[i].row
           /\ worker'[i].result = worker[i].result /\ worker'[i].tried = worker[i].tried
    OBVIOUS
  <1>3. Ledger' /\ \A r \in Rows : MailOf(r)' = MailOf(r)
    BY <1>1, <1>2, LedgerUndisturbed DEF Ledger, RowLedger
  <1> QED
    BY <1>3, MailStutters DEF Kept

\* A nudge changes nothing a worker knows of its row.
LEMMA NudgeKept ==
    ASSUME HolderInv, Ledger, NEW i \in Instances,
           worker' = [worker EXCEPT ![i].wake = TRUE],
           UNCHANGED <<row, accepted, excused, outlived>>
    PROVE  Kept
  <1>1. /\ worker'[i] = [worker[i] EXCEPT !.wake = TRUE]
        /\ \A j \in Instances : j # i => worker'[j] = worker[j]
    BY DEF HolderInv, Shapes
  <1>2. WorkerShape(worker[i])
    BY DEF HolderInv, Shapes
  <1>3. /\ worker'[i].pc = worker[i].pc /\ worker'[i].row = worker[i].row
        /\ worker'[i].result = worker[i].result /\ worker'[i].tried = worker[i].tried
    BY <1>1, <1>2 DEF WorkerShape
  <1> QED
    BY <1>1, <1>3, QuietKept

\* A wake-up changes no row.
LEMMA BeginKept ==
    ASSUME HolderInv, Ledger, NEW i \in Instances, Begin(i)
    PROVE  Kept
  <1>1. /\ worker'[i] = [worker[i] EXCEPT !.pc = "ask", !.wake = FALSE, !.timer = 0,
                                 !.looked = 0, !.turn = 0, !.retry = 0, !.sent = FALSE]
        /\ \A j \in Instances : j # i => worker'[j] = worker[j]
        /\ UNCHANGED <<row, accepted, excused, outlived>> /\ ~Holding(i)
    BY DEF Begin, Holding, HolderInv, Shapes
  <1>2. WorkerShape(worker[i])
    BY DEF HolderInv, Shapes
  <1>3. worker'[i].pc = "ask"
    BY <1>1, <1>2 DEF WorkerShape
  <1> QED
    BY <1>1, <1>3, QuietKept DEF Holding

\* A look changes no row.
LEMMA AskKept ==
    ASSUME HolderInv, Ledger, NEW i \in Instances, Ask(i)
    PROVE  Kept
  <1>1. ~Holding(i) /\ UNCHANGED <<row, accepted, excused, outlived>>
    BY DEF Ask, Holding
  <1>2. CASE \E ok, retryIn, err : Return(i, ok, retryIn, err)
    BY <1>1, <1>2, ReturnsEmptyHanded, QuietKept
  <1>3. CASE worker' = [worker EXCEPT ![i].pc = "claim"]
    <2>1. /\ worker'[i] = [worker[i] EXCEPT !.pc = "claim"]
          /\ \A j \in Instances : j # i => worker'[j] = worker[j]
      BY <1>3 DEF HolderInv, Shapes
    <2>2. WorkerShape(worker[i])
      BY DEF HolderInv, Shapes
    <2>3. worker'[i].pc = "claim"
      BY <2>1, <2>2 DEF WorkerShape
    <2> QED
      BY <1>1, <2>1, <2>3, QuietKept DEF Holding
  <1> QED
    BY <1>2, <1>3 DEF Ask

\* A new instance holds nothing.
LEMMA RestartKept ==
    ASSUME HolderInv, Ledger, NEW i \in Instances, Restart(i)
    PROVE  Kept
  <1>1. /\ worker'[i].pc = "wait" /\ ~Holding(i)
        /\ \A j \in Instances : j # i => worker'[j] = worker[j]
        /\ UNCHANGED <<row, accepted, excused, outlived>>
    BY FreshShapes DEF Restart, Holding, HolderInv, Shapes
  <1> QED
    BY <1>1, QuietKept DEF Holding

\* The row a worker holds is another's to nobody, and owed or erased, until
\* somebody is too slow on it.
LEMMA HeldRow ==
    ASSUME HolderInv, NEW i \in Instances, Holding(i)
    PROVE  /\ worker[i].row \in Rows
           /\ row[worker[i].row].status # "none"
           /\ worker[i].row \notin outlived =>
                /\ \/ row[worker[i].row].status = "processing"
                   \/ row[worker[i].row].status = "erased"
                /\ MailOf(worker[i].row) \in {"owed", "erased"}
                /\ \A j \in Instances : Holding(j) /\ j # i => worker[j].row # worker[i].row
  BY MailIs DEF HolderInv, ClaimIsItsHolders, Claimed, OneHolder, Unfinished

\* What is unwritten is what no row stands for.
LEMMA WrittenRow ==
    ASSUME Ledger, NEW r \in Rows, row[r].status # "none"
    PROVE  MailOf(r) \in {"owed", "sent", "given up", "erased"}
  BY DEF Ledger, RowLedger, MailOf, Unfinished, Waiting, GivenUp

\* A copy leaves when no earlier one may be known of.
LEMMA DeliverKept ==
    ASSUME HolderInv, Ledger, NEW i \in Instances, Deliver(i)
    PROVE  Kept
  <1>r. PICK r : r = worker[i].row
    OBVIOUS
  <1>1. PICK result \in {"accepted", "transient", "permanent"}, taken \in BOOLEAN :
         /\ result = "accepted" => taken
         /\ worker' = [worker EXCEPT ![i] = [@ EXCEPT !.pc = "record", !.result = result]]
         /\ accepted' = [accepted EXCEPT ![r] = @ + (IF taken THEN 1 ELSE 0)]
         /\ excused' = [excused EXCEPT ![r] =
                          @ + (IF taken /\ result # "accepted" THEN 1 ELSE 0)]
    BY <1>r DEF Deliver
  <1>2. Holding(i) /\ worker[i].pc = "deliver" /\ UNCHANGED <<row, outlived>>
    BY DEF Deliver, Holding
  <1>3. /\ r \in Rows /\ row[r].status # "none"
        /\ r \notin outlived =>
             /\ MailOf(r) \in {"owed", "erased"}
             /\ row[r].status \in {"processing", "erased"}
             /\ \A j \in Instances : Holding(j) /\ j # i => worker[j].row # r
    BY <1>r, <1>2, HeldRow
  <1>4. /\ worker'[i].pc = "record" /\ worker'[i].row = r
        /\ worker'[i].result = result /\ worker'[i].tried = worker[i].tried
        /\ \A j \in Instances : j # i => worker'[j] = worker[j]
    <2>1. /\ worker'[i] = [worker[i] EXCEPT !.pc = "record", !.result = result]
          /\ \A j \in Instances : j # i => worker'[j] = worker[j]
      BY <1>1 DEF HolderInv, Shapes
    <2>2. WorkerShape(worker[i])
      BY DEF HolderInv, Shapes
    <2> QED
      BY <1>r, <2>1, <2>2 DEF WorkerShape
  <1>5. /\ accepted[r] \in Nat /\ excused[r] \in Int /\ worker[i].tried \in Nat
        /\ r \notin outlived => accepted[r] = excused[r]
    BY <1>r, <1>2, <1>3 DEF Ledger, RowLedger, WorkerLedger, Sure
  <1>6. /\ accepted'[r] = accepted[r] + (IF taken THEN 1 ELSE 0)
        /\ excused'[r] = excused[r] + (IF taken /\ result # "accepted" THEN 1 ELSE 0)
        /\ \A q \in Rows : q # r => accepted'[q] = accepted[q] /\ excused'[q] = excused[q]
        /\ accepted' = [q \in Rows |-> accepted'[q]]
        /\ excused' = [q \in Rows |-> excused'[q]]
    BY <1>1, <1>3 DEF Ledger
  <1>7. \A q \in Rows : RowLedger(q)'
    <2>1. RowLedger(r)'
      <3>1. RowLedger(r)
        BY <1>3 DEF Ledger
      <3>2. accepted'[r] \in Nat /\ excused'[r] \in Int
        BY <1>5, <1>6
      <3>3. ASSUME r \notin outlived PROVE Even(r)'
        <4>1. CASE result = "accepted"
          <5>1. accepted'[r] = excused'[r] + 1 /\ Knows(i, r)'
            BY <1>1, <1>4, <1>5, <1>6, <3>3, <4>1 DEF Knows
          <5> QED
            BY <5>1, <3>3, <1>2, <1>3 DEF Even
        <4>2. CASE result # "accepted"
          <5>1. accepted'[r] = excused'[r]
            BY <1>5, <1>6, <3>3, <4>2
          <5> QED
            BY <5>1, <3>3, <1>2, <1>3 DEF Even
        <4> QED
          BY <4>1, <4>2
      <3> QED
        BY <3>1, <3>2, <3>3, <1>2 DEF RowLedger
    <2>2. ASSUME NEW q \in Rows, q # r
          PROVE  RowLedger(q)'
      <3>1. \A j \in Instances : Knows(j, q) => Knows(j, q)'
        BY <2>2, <1>r, <1>4 DEF Knows
      <3>2. Even(q) => Even(q)'
        BY <2>2, <3>1, <1>2, <1>6 DEF Even
      <3> QED
        BY <2>2, <3>2, <1>2, <1>6 DEF Ledger, RowLedger
    <2> QED
      BY <2>1, <2>2
  <1>8. \A j \in Instances : WorkerLedger(j)'
    <2>1. WorkerLedger(i)'
      <3>1. result = "accepted" => accepted'[r] > 0
        BY <1>1, <1>5, <1>6
      <3>2. r \notin outlived => Sure(i)'
        BY <1>1, <1>4, <1>5, <1>6 DEF Sure
      <3> QED
        BY <3>1, <3>2, <1>2, <1>4, <1>5 DEF WorkerLedger
    <2>2. ASSUME NEW j \in Instances, j # i, Holding(j)
          PROVE  WorkerLedger(j)'
      <3>1. /\ worker[j].row \in Rows /\ worker'[j] = worker[j] /\ WorkerLedger(j)
            /\ worker[j].row # r \/ r \in outlived
        BY <2>2, <1>3, <1>4, HeldRow DEF Ledger
      <3>2. accepted[worker[j].row] \in Nat
        BY <3>1 DEF Ledger, RowLedger
      <3>3. accepted[worker[j].row] > 0 => accepted'[worker[j].row] > 0
        BY <3>1, <3>2, <1>6
      <3>4. worker[j].row \notin outlived /\ Sure(j) => Sure(j)'
        BY <3>1, <1>6 DEF Sure
      <3> QED
        BY <2>2, <3>1, <3>3, <3>4, <1>2 DEF WorkerLedger
    <2> QED
      BY <2>1, <2>2, <1>4 DEF WorkerLedger, Holding
  <1>9. Ledger'
    BY <1>6, <1>7, <1>8 DEF Ledger
  <1>10. \A q \in Rows : MailOf(q)' = MailOf(q)
    BY <1>2, MailStays
  <1>11. [Promise!Next]_(Promise!vars)
    <2>1. CASE taken
      <3>1. accepted' = [accepted EXCEPT ![r] = accepted[r] + 1]
        BY <1>1, <2>1
      <3>2. UNCHANGED excused \/ excused' = [excused EXCEPT ![r] = excused[r] + 1]
        <4>1. CASE result = "accepted"
          <5>1. \A q \in Rows : excused'[q] = excused[q]
            BY <1>3, <1>5, <1>6, <4>1
          <5> QED
            BY <5>1, <1>6 DEF Ledger
        <4>2. CASE result # "accepted"
          BY <1>1, <2>1, <4>2
        <4> QED
          BY <4>1, <4>2
      <3>3. Mails' = Mails
        BY <1>10 DEF Mails
      <3>4. \/ MailOf(r) \in {"owed", "erased"} /\ accepted[r] = excused[r]
            \/ MailOf(r) # "unwritten" /\ r \in outlived
        BY <1>3, <1>5, WrittenRow
      <3>5. Promise!Reach(r)
        BY <1>2, <1>3, <3>1, <3>2, <3>3, <3>4 DEF Promise!Reach, Mails
      <3> QED
        BY <3>5, <1>3 DEF Promise!Next
    <2>2. CASE ~taken
      <3>1. UNCHANGED <<accepted, excused>>
        <4>1. \A q \in Rows : accepted'[q] = accepted[q] /\ excused'[q] = excused[q]
          BY <1>3, <1>5, <1>6, <2>2
        <4> QED
          BY <4>1, <1>6 DEF Ledger
      <3> QED
        BY <3>1, <1>2, <1>10, MailStutters
    <2> QED
      BY <2>1, <2>2
  <1> QED
    BY <1>9, <1>11 DEF Kept

\* A worker that lets go of its row unrecorded leaves what it knew in doubt.
LEMMA LetGoKept ==
    ASSUME HolderInv, Ledger, NEW i \in Instances, excused' = Excuse(i),
           UNCHANGED <<row, accepted, outlived>>, ~Holding(i)',
           \A j \in Instances : j # i => worker'[j] = worker[j]
    PROVE  Kept
  <1>1. CASE ~(worker[i].pc = "record" /\ worker[i].result = "accepted")
    <2>1. UNCHANGED excused /\ \A q \in Rows : ~Knows(i, q)
      BY <1>1 DEF Excuse, Knows
    <2>2. ASSUME NEW q \in Rows PROVE RowLedger(q)'
      <3>1. Even(q) => Even(q)'
        BY <2>1 DEF Even, Knows
      <3> QED
        BY <2>1, <3>1 DEF Ledger, RowLedger
    <2>3. \A j \in Instances : WorkerLedger(j)'
      BY <2>1 DEF Ledger, WorkerLedger, Sure, Holding
    <2>4. \A q \in Rows : MailOf(q)' = MailOf(q)
      BY MailStays
    <2> QED
      BY <2>1, <2>2, <2>3, <2>4, MailStutters DEF Kept, Ledger
  <1>2. CASE worker[i].pc = "record" /\ worker[i].result = "accepted"
    <2>1. PICK r : r = worker[i].row
      OBVIOUS
    <2>2. Holding(i)
      BY <1>2 DEF Holding
    <2>3. /\ r \in Rows
          /\ r \notin outlived =>
               /\ MailOf(r) \in {"owed", "erased"}
               /\ row[r].status \in {"processing", "erased"}
               /\ \A j \in Instances : Holding(j) /\ j # i => worker[j].row # r
      BY <2>1, <2>2, HeldRow
    <2>4. excused' = [excused EXCEPT ![r] = excused[r] + 1]
      BY <1>2, <2>1 DEF Excuse
    <2>5. /\ excused'[r] = excused[r] + 1 /\ excused' = [q \in Rows |-> excused'[q]]
          /\ \A q \in Rows : q # r => excused'[q] = excused[q]
      BY <2>3, <2>4 DEF Ledger
    <2>6. /\ accepted[r] \in Nat /\ accepted[r] > 0 /\ excused[r] \in Int
          /\ r \notin outlived => accepted[r] = excused[r] + 1
      BY <1>2, <2>1, <2>2, <2>3 DEF Ledger, RowLedger, WorkerLedger, Sure
    <2>7. \A q \in Rows : RowLedger(q)'
      <3>1. RowLedger(r)'
        <4>1. r \notin outlived => Even(r)'
          BY <2>3, <2>5, <2>6 DEF Even
        <4>2. excused'[r] \in Int
          BY <2>5, <2>6
        <4> QED
          BY <2>3, <4>1, <4>2 DEF Ledger, RowLedger
      <3>2. ASSUME NEW q \in Rows, q # r
            PROVE  RowLedger(q)'
        <4>1. \A j \in Instances : Knows(j, q) => Knows(j, q)'
          BY <3>2, <2>1 DEF Knows
        <4>2. Even(q) => Even(q)'
          BY <3>2, <4>1, <2>5 DEF Even
        <4> QED
          BY <3>2, <4>2, <2>5 DEF Ledger, RowLedger
      <3> QED
        BY <3>1, <3>2
    <2>8. \A j \in Instances : WorkerLedger(j)'
      <3>1. ASSUME NEW j \in Instances, Holding(j)'
            PROVE  WorkerLedger(j)'
        <4>1. j # i /\ worker'[j] = worker[j] /\ Holding(j)
          BY <3>1 DEF Holding
        <4>2. worker[j].row \in Rows /\ (worker[j].row # r \/ r \in outlived)
          BY <4>1, <2>3, HeldRow
        <4>3. worker[j].row \notin outlived /\ Sure(j) => Sure(j)'
          BY <4>1, <4>2, <2>5 DEF Sure
        <4> QED
          BY <4>1, <4>3 DEF Ledger, WorkerLedger
      <3> QED
        BY <3>1 DEF WorkerLedger
    <2>9. Mails' = Mails
      BY MailStays DEF Mails
    <2>10. Promise!Doubt(r)
      BY <2>3, <2>4, <2>6, <2>9 DEF Mails, Promise!Doubt, Promise!InFlight
    <2> QED
      BY <2>3, <2>5, <2>7, <2>8, <2>10 DEF Kept, Ledger, Promise!Next
  <1> QED
    BY <1>1, <1>2

\* A refused record leaves the message as it was.
LEMMA RecordFailsKept ==
    ASSUME HolderInv, Ledger, NEW i \in Instances, RecordFails(i)
    PROVE  Kept
  BY ReturnsEmptyHanded, LetGoKept DEF RecordFails

\* So does the death of the worker.
LEMMA CrashKept ==
    ASSUME HolderInv, Ledger, NEW i \in Instances, Crash(i)
    PROVE  Kept
  <1>1. /\ worker'[i].pc = "down"
        /\ \A j \in Instances : j # i => worker'[j] = worker[j]
        /\ excused' = Excuse(i) /\ UNCHANGED <<row, accepted, outlived>>
    BY FreshShapes DEF Crash, HolderInv, Shapes
  <1> QED
    BY <1>1, LetGoKept DEF Holding

\* A record settles the message exactly when its copy is known to have been
\* taken, and gives it up only when none is.
LEMMA RecordKept ==
    ASSUME HolderInv, Ledger, NEW i \in Instances, Record(i)
    PROVE  Kept
  <1>1. PICK r : r = worker[i].row
    OBVIOUS
  <1>2. Holding(i) /\ worker[i].pc = "record" /\ UNCHANGED <<accepted, excused, outlived>>
    BY DEF Record, Holding
  <1>3. /\ r \in Rows /\ row[r].status # "none"
        /\ r \notin outlived =>
             /\ row[r].status \in {"processing", "erased"}
             /\ \A j \in Instances : Holding(j) /\ j # i => worker[j].row # r
    BY <1>1, <1>2, HeldRow
  <1>4. ~Holding(i)' /\ \A j \in Instances : j # i => worker'[j] = worker[j]
    <2>1. \E ok, retryIn, err : Return(i, ok, retryIn, err)
      BY DEF Record
    <2> QED
      BY <2>1, ReturnsEmptyHanded
  <1>5. \A j \in Instances : WorkerLedger(j)'
    BY <1>2, <1>4 DEF Ledger, WorkerLedger, Sure, Holding
  <1>6. \A j \in Instances, q \in Rows : q # r /\ Knows(j, q) => Knows(j, q)'
    BY <1>1, <1>4 DEF Knows
  <1>7. CASE row[r].status = "erased"
    <2>1. UNCHANGED row
      BY <1>1, <1>7 DEF Record
    <2>2. ASSUME NEW q \in Rows PROVE RowLedger(q)'
      <3>1. q # r /\ Even(q) => Even(q)'
        BY <1>2, <1>6, <2>1 DEF Even
      <3>2. q = r /\ Even(q) => Even(q)'
        BY <1>2, <1>7, <2>1 DEF Even
      <3> QED
        BY <1>2, <2>1, <3>1, <3>2 DEF Ledger, RowLedger
    <2>3. \A q \in Rows : MailOf(q)' = MailOf(q)
      BY <2>1, MailStays
    <2> QED
      BY <1>2, <1>5, <2>2, <2>3, MailStutters DEF Kept, Ledger
  <1>8. CASE row[r].status # "erased"
    <2>2. row' = Outcome(worker[i])
      BY <1>1, <1>8 DEF Record
    <2>3. /\ \A q \in Rows : q # r => row'[q] = row[q]
          /\ row'[r].due \in Int /\ row'[r].attempts \in Nat
          /\ worker[i].result = "accepted" => row'[r].status = "sent"
          /\ worker[i].result # "accepted" => row'[r].status = "failed"
      <3>1. PICK o \in {"sent", "failed"}, d \in Int :
               /\ row' = Marked(r, o, d)
               /\ worker[i].result = "accepted" <=> o = "sent"
        BY <1>1, <2>2, OutcomeMarks
      <3>2. Shapes /\ row[r].attempts \in Nat
        BY <1>3 DEF HolderInv, Ledger, RowLedger
      <3>3. /\ row'[r].status = o /\ row'[r].due = d /\ row'[r].attempts = row[r].attempts
            /\ \A q \in Rows : q # r => row'[q] = row[q]
        BY <1>3, <3>1, <3>2, MarkedRow
      <3> QED
        BY <3>1, <3>2, <3>3
    <2>4. /\ worker[i].result = "accepted" => accepted[r] > 0
          /\ r \notin outlived =>
               /\ worker[i].result = "accepted" => accepted[r] = excused[r] + 1
               /\ worker[i].result # "accepted" => accepted[r] = excused[r]
      BY <1>1, <1>2 DEF Ledger, WorkerLedger, Sure
    <2>5. \A q \in Rows : RowLedger(q)'
      <3>1. ASSUME NEW q \in Rows, q # r
            PROVE  RowLedger(q)'
        <4>1. Even(q) => Even(q)'
          BY <3>1, <1>2, <1>6, <2>3 DEF Even
        <4> QED
          BY <3>1, <4>1, <1>2, <2>3 DEF Ledger, RowLedger
      <3>2. RowLedger(r)'
        <4>1. RowLedger(r)
          BY <1>3 DEF Ledger
        <4>2. r \notin outlived => Even(r)'
          BY <1>2, <2>3, <2>4, <4>1 DEF Even, RowLedger
        <4> QED
          BY <1>2, <2>3, <4>1, <4>2 DEF RowLedger
      <3> QED
        BY <3>1, <3>2
    <2>6. Ledger'
      BY <1>2, <1>5, <2>5 DEF Ledger
    <2>7. \A q \in Rows : q # r => MailOf(q)' = MailOf(q)
      BY <2>3, MailStays
    <2>8. MailOf(r) \in {"owed", "sent", "given up"}
      BY <1>3, <1>8 DEF Ledger, RowLedger, MailOf, Unfinished, Waiting, GivenUp
    <2>9. Mails' = [Mails EXCEPT ![r] = MailOf(r)']
      BY <1>3, <2>7, MailMoves
    <2>10. /\ worker[i].result = "accepted" => MailOf(r)' = "sent"
           /\ worker[i].result # "accepted" => MailOf(r)' \in {"owed", "given up"}
      BY <1>3, <2>3, MailBecomes
    <2>11. CASE r \in outlived
      <3>1. MailOf(r)' \in {"owed", "sent", "given up"}
            /\ (MailOf(r)' = "sent" => accepted[r] > 0)
        BY <2>4, <2>10
      <3>2. Promise!Becomes(r, MailOf(r), MailOf(r)')
        BY <1>2, <1>3, <2>9 DEF Mails, Promise!Becomes
      <3>3. Promise!Overwrite(r)
        BY <2>8, <2>11, <3>1, <3>2 DEF Promise!Overwrite
      <3> QED
        BY <1>3, <2>6, <3>3 DEF Kept, Promise!Next
    <2>12. CASE r \notin outlived
      <3>1. MailOf(r) = "owed"
        BY <1>3, <1>8, <2>12, MailIs DEF Unfinished
      <3>2. CASE worker[i].result = "accepted"
        <4>1. Promise!Settle(r)
          BY <1>2, <1>3, <2>4, <2>9, <2>10, <2>12, <3>1, <3>2
             DEF Mails, Promise!Settle, Promise!Becomes, Promise!InFlight
        <4> QED
          BY <1>3, <2>6, <4>1 DEF Kept, Promise!Next
      <3>3. CASE worker[i].result # "accepted" /\ MailOf(r)' = "given up"
        <4>1. Promise!GiveUp(r)
          BY <1>2, <1>3, <2>4, <2>9, <2>12, <3>1, <3>3
             DEF Mails, Promise!GiveUp, Promise!Becomes
        <4> QED
          BY <1>3, <2>6, <4>1 DEF Kept, Promise!Next
      <3>4. CASE worker[i].result # "accepted" /\ MailOf(r)' # "given up"
        <4>1. \A q \in Rows : MailOf(q)' = MailOf(q)
          BY <2>7, <2>10, <3>1, <3>4
        <4> QED
          BY <1>2, <2>6, <4>1, MailStutters DEF Kept
      <3> QED
        BY <3>2, <3>3, <3>4
    <2> QED
      BY <2>11, <2>12
  <1> QED
    BY <1>7, <1>8

\* A worker grows older with the row it holds.
LEMMA LaterHolds ==
    ASSUME NEW w, WorkerShape(w)
    PROVE  /\ Later(w).pc = w.pc /\ Later(w).row = w.row
           /\ Later(w).result = w.result /\ Later(w).tried = w.tried
  <1>1. \E t, l, h : Later(w) = [w EXCEPT !.timer = t, !.looked = l, !.held = h]
    BY Zenon DEF Later
  <1>2. PICK t, l, h : Later(w) = [w EXCEPT !.timer = t, !.looked = l, !.held = h]
    BY <1>1
  <1> QED
    BY <1>2 DEF WorkerShape

\* Time passing says nothing new of any message, but that a worker is too slow
\* for some.
LEMMA TickKept ==
    ASSUME HolderInv, Ledger, Tick
    PROVE  Kept
  <1>1. ASSUME NEW r \in Rows
        PROVE  /\ row'[r].status = row[r].status
               /\ row'[r].attempts = row[r].attempts
               /\ row'[r].due \in Int
               /\ (row'[r].due = Never) <=> (row[r].due = Never)
    <2>1. row'[r] = Older(row[r])
      BY <1>1 DEF Tick
    <2>2. RowShape(row[r]) /\ row[r].due \in Int
      BY DEF HolderInv, Shapes, Ledger, RowLedger
    <2>3. PICK d : d = IF row[r].status \in {"pending", "failed", "processing"}
                          /\ row[r].due # Never /\ row[r].due > Overdue
                       THEN row[r].due - 1 ELSE row[r].due
      OBVIOUS
    <2>4. d \in Int /\ (d = Never <=> row[r].due = Never)
      BY <2>2, <2>3 DEF Never, Overdue
    <2>5. PICK l : row'[r] = [row[r] EXCEPT !.due = d, !.locked = l]
      BY <2>1, <2>3 DEF Older
    <2>6. /\ row'[r].status = row[r].status /\ row'[r].attempts = row[r].attempts
          /\ row'[r].due = d
      BY <2>2, <2>5 DEF RowShape
    <2> QED
      BY <2>4, <2>6
  <1>2. ASSUME NEW i \in Instances
        PROVE  /\ worker'[i].pc = worker[i].pc /\ worker'[i].row = worker[i].row
               /\ worker'[i].result = worker[i].result
               /\ worker'[i].tried = worker[i].tried
    <2>1. worker'[i] = Later(worker[i])
      BY <1>2 DEF Tick
    <2>2. WorkerShape(worker[i])
      BY DEF HolderInv, Shapes
    <2> QED
      BY <2>1, <2>2, LaterHolds
  <1>3. UNCHANGED <<accepted, excused>>
    BY DEF Tick
  <1> DEFINE slow == {i \in Instances : Overdrawn(i)}
             late == {worker[i].row : i \in slow} \ outlived
  <1>4. outlived' = outlived \union late
    BY DEF Tick
  <1>5. Ledger' /\ \A r \in Rows : MailOf(r)' = MailOf(r)
    <2>1. outlived \subseteq outlived'
      BY <1>4
    <2> QED
      BY <1>1, <1>2, <1>3, <2>1, LedgerUndisturbed
  <1>6. late \subseteq {r \in Rows : MailOf(r) \in {"owed", "erased"}}
    <2> SUFFICES ASSUME NEW r \in late
                 PROVE  r \in Rows /\ MailOf(r) \in {"owed", "erased"}
      OBVIOUS
    <2>1. PICK i \in Instances : Overdrawn(i) /\ r = worker[i].row
      OBVIOUS
    <2>2. r \notin outlived /\ Holding(i)
      BY <2>1 DEF Overdrawn
    <2> QED
      BY <2>1, <2>2, HeldRow
  <1>7. Mails' = Mails
    BY <1>5 DEF Mails
  <1> HIDE DEF late
  <1>8. \A r \in Rows : Mails[r] = MailOf(r)
    BY DEF Mails
  <1>9. late \in SUBSET {r \in Rows : Mails[r] \in {"owed", "erased"}}
    BY <1>6, <1>8
  <1>10. Promise!Lapse
    BY <1>3, <1>4, <1>7, <1>9 DEF Promise!Lapse, Mails
  <1> QED
    BY <1>5, <1>10 DEF Kept, Promise!Next

\* Every step of the workers is a step of the promise, or none.
LEMMA PromiseStep == HolderInv /\ Ledger /\ [Next]_vars => Kept
  <1> SUFFICES ASSUME HolderInv, Ledger, [Next]_vars PROVE Kept
    OBVIOUS
  <1>1. CASE UNCHANGED vars
    BY <1>1, QuietKept DEF vars
  <1>2. ASSUME NEW i \in Instances, NEW r \in Rows, Enqueue(i, r) \/ Notify(i, r)
        PROVE  Kept
    BY <1>2, EnqueueKept, NudgeKept DEF Notify
  <1>3. ASSUME NEW i \in Instances, DatabaseInUse(i) \/ Begin(i) \/ Ask(i) \/ Restart(i)
        PROVE  Kept
    BY <1>3, NudgeKept, BeginKept, AskKept, RestartKept DEF DatabaseInUse
  <1>4. ASSUME NEW i \in Instances, \/ Claim(i) \/ DatabaseFails(i) \/ Deliver(i)
                                    \/ Record(i) \/ RecordFails(i) \/ Crash(i)
        PROVE  Kept
    BY <1>4, ClaimKept, DeliverKept, RecordKept, RecordFailsKept, CrashKept
  <1> QED
    BY <1>1, <1>2, <1>3, <1>4, EraseKept, TickKept DEF Next

(***************************************************************************)
(* The theorem                                                             *)
(***************************************************************************)
\* Whatever crashes, refuses or loses an answer, and in whatever order the
\* workers of any number of instances record what they delivered, the outbox
\* keeps MailPromise.
THEOREM WorkersKeepThePromise == Spec => Promised
  <1>1. Init => HolderInv /\ Ledger /\ Promise!Init
    BY InitHolder, InitLedger, InitPromise
  <1>2. HolderInv /\ Ledger /\ [Next]_vars
          => HolderInv' /\ Ledger' /\ [Promise!Next]_(Promise!vars)
    BY HolderStep, PromiseStep DEF Kept
  <1> QED
    BY <1>1, <1>2, PTL DEF Spec, Promised, Promise!Spec

-----------------------------------------------------------------------------
(***************************************************************************)
(* What a worker waits for.  Backoffs double, so that the first part is    *)
(* arithmetic: least members, and the powers of two a recursion defines.   *)
(***************************************************************************)
\* A set of natural numbers that is not empty has a least member: induction,
\* stated of a set.
LEMMA LeastMember == ASSUME NEW T, T \subseteq Nat, T # {} PROVE \E x \in T : \A y \in T : x <= y
  <1>1. \E x \in T : \A y \in T : ~(<<y,x>> \in OpToRel(<, Nat))
    BY NatLessThanWellFounded, WFMin
  <1>2. PICK x \in T : \A y \in T : ~(<<y, x>> \in OpToRel(<, Nat))
    BY <1>1
  <1>3. \A y \in T : ~(y < x)
    BY <1>2 DEF OpToRel
  <1>4. QED
    BY <1>3

\* g computes the powers of two up to m.
Doubles(g, m) ==
    /\ g \in [0 .. m -> Nat]
    /\ g[0] = 1
    /\ \A n \in 1 .. m : g[n] = 2 * g[n - 1]

LEMMA DoublesExist == \A m \in Nat : \E g : Doubles(g, m)
  <1> DEFINE T == {m \in Nat : ~ \E g : Doubles(g, m)}
  <1>1. SUFFICES ASSUME T # {} PROVE FALSE
    OBVIOUS
  <1>2. PICK m \in T : \A k \in T : m <= k
    BY <1>1, LeastMember
  <1>3. m # 0
    <2>1. Doubles([n \in 0 .. 0 |-> 1], 0)
      BY DEF Doubles
    <2>2. QED
      BY <2>1
  <1>4. PICK g : Doubles(g, m - 1)
    BY <1>2, <1>3
  <1>5. Doubles([n \in 0 .. m |-> IF n = m THEN 2 * g[m - 1] ELSE g[n]], m)
    BY <1>2, <1>3, <1>4 DEF Doubles
  <1>6. QED
    BY <1>5

LEMMA DoublesAgree ==
    ASSUME NEW m \in Nat, NEW k \in Nat, NEW g, NEW h, Doubles(g, m), Doubles(h, k),
           NEW n \in 0 .. m, n <= k
    PROVE  g[n] = h[n]
  <1> DEFINE T == {j \in 0 .. m : j <= k /\ g[j] # h[j]}
  <1>1. SUFFICES ASSUME T # {} PROVE FALSE
    OBVIOUS
  <1>2. PICK j \in T : \A i \in T : j <= i
    <2>1. T \subseteq Nat
      OBVIOUS
    <2>2. QED
      BY <1>1, <2>1, LeastMember
  <1>3. j # 0
    BY DEF Doubles
  <1>4. j - 1 \in 0 .. m /\ j - 1 <= k /\ j - 1 \notin T /\ j \in 1 .. m /\ j \in 1 .. k
    BY <1>2, <1>3
  <1>5. QED
    BY <1>4 DEF Doubles

\* The recursive definition defines.
LEMMA DoubledIs ==
    /\ Doubled[0] = 1
    /\ \A n \in Nat : Doubled[n + 1] = 2 * Doubled[n]
    /\ Doubled \in [Nat -> Nat]
  <1> DEFINE G(m) == CHOOSE g : Doubles(g, m)
             F == [n \in Nat |-> G(n)[n]]
  <1>1. \A m \in Nat : Doubles(G(m), m)
    BY DoublesExist
  <1>2. \A m \in Nat : F[m] = G(m)[m] /\ F[m] \in Nat
    BY <1>1 DEF Doubles
  <1>3. \A m \in Nat : m # 0 => F[m] = 2 * F[m - 1]
    <2>1. SUFFICES ASSUME NEW m \in Nat, m # 0 PROVE F[m] = 2 * F[m - 1]
      OBVIOUS
    <2>2. Doubles(G(m), m) /\ Doubles(G(m - 1), m - 1) /\ m - 1 \in Nat
      BY <1>1, <2>1
    <2>3. G(m)[m - 1] = G(m - 1)[m - 1]
      <3> HIDE DEF G
      <3>1. QED BY <2>1, <2>2, DoublesAgree
    <2>4. G(m)[m] = 2 * G(m)[m - 1]
      <3> HIDE DEF G
      <3>1. m \in 1 .. m
        BY <2>1
      <3>2. QED
        BY <2>2, <3>1 DEF Doubles
    <2>5. QED
      BY <1>2, <2>1, <2>2, <2>3, <2>4
  <1>4. F[0] = 1
    BY <1>1, <1>2 DEF Doubles
  <1> HIDE DEF G
  <1>5. F = [n \in Nat |-> IF n = 0 THEN 1 ELSE 2 * F[n - 1]]
    <2>1. \A n \in Nat : F[n] = IF n = 0 THEN 1 ELSE 2 * F[n - 1]
      BY <1>3, <1>4
    <2>2. QED BY <2>1
  <1> HIDE DEF F
  <1>6. Doubled = [n \in Nat |-> IF n = 0 THEN 1 ELSE 2 * Doubled[n - 1]]
    BY <1>5 DEF Doubled
  <1>7. Doubled[0] = 1
    BY <1>6
  <1>8. \A n \in Nat : Doubled[n + 1] = 2 * Doubled[n]
    <2>1. SUFFICES ASSUME NEW n \in Nat PROVE Doubled[n + 1] = 2 * Doubled[n]
      OBVIOUS
    <2>2. n + 1 \in Nat /\ n + 1 # 0 /\ (n + 1) - 1 = n
      OBVIOUS
    <2>3. QED BY <1>6, <2>2
  <1> DEFINE T == {n \in Nat : Doubled[n] \notin Nat}
  <1>9. T = {}
    <2>1. SUFFICES ASSUME T # {} PROVE FALSE
      OBVIOUS
    <2>2. PICK m \in T : \A k \in T : m <= k
      BY <2>1, LeastMember
    <2>3. m # 0
      BY <1>7
    <2>4. m - 1 \in Nat /\ Doubled[m - 1] \in Nat
      BY <2>2, <2>3
    <2>5. Doubled[m] = 2 * Doubled[m - 1]
      <3>1. (m - 1) + 1 = m
        OBVIOUS
      <3>2. QED BY <3>1, <2>4, <1>8
    <2>6. QED BY <2>4, <2>5
  <1>10. DOMAIN Doubled = Nat /\ Doubled = [n \in Nat |-> Doubled[n]]
    BY <1>6
  <1>11. QED
    BY <1>7, <1>8, <1>9, <1>10

LEMMA DoubledGrows ==
    ASSUME NEW n \in Nat, NEW m \in Nat, n <= m
    PROVE  1 <= Doubled[n] /\ Doubled[n] <= Doubled[m]
  <1> DEFINE T == {k \in Nat : ~(\A j \in 0 .. k : 1 <= Doubled[j] /\ Doubled[j] <= Doubled[k])}
  <1>1. SUFFICES T = {}
    <2>1. m \notin T /\ n \in 0 .. m
      BY <1>1
    <2>2. QED
      BY <2>1
  <1>2. SUFFICES ASSUME T # {} PROVE FALSE
    OBVIOUS
  <1>3. PICK k \in T : \A j \in T : k <= j
    <2>1. T \subseteq Nat
      OBVIOUS
    <2>2. QED
      BY <1>2, <2>1, LeastMember
  <1>4. k # 0
    BY DoubledIs
  <1>5. k - 1 \in Nat /\ k - 1 \notin T
    BY <1>3, <1>4
  <1>6. Doubled[k] = 2 * Doubled[k - 1] /\ Doubled[k] \in Nat /\ Doubled[k - 1] \in Nat
    <2>1. (k - 1) + 1 = k
      OBVIOUS
    <2>2. QED
      BY <1>5, <2>1, DoubledIs
  <1>7. \A j \in 0 .. k - 1 : Doubled[j] \in Nat /\ 1 <= Doubled[j] /\ Doubled[j] <= Doubled[k - 1]
    BY <1>5, DoubledIs
  <1>8. \A j \in 0 .. k : j = k \/ j \in 0 .. k - 1
    OBVIOUS
  <1>9. 1 <= Doubled[k - 1]
    BY <1>5, <1>7
  <1>10. QED
    BY <1>6, <1>7, <1>8, <1>9

\* The library's Max and Min of what the outbox takes them of.
LEMMA LargestOfThree ==
    ASSUME NEW a \in Int, NEW b \in Int, NEW c \in Int
    PROVE  /\ Max({a, b, c}) \in {a, b, c}
           /\ Max({a, b, c}) >= a /\ Max({a, b, c}) >= b /\ Max({a, b, c}) >= c
  <1>1. \E x \in {a, b, c} : \A y \in {a, b, c} : x >= y
    OBVIOUS
  <1>2. Max({a, b, c}) \in {a, b, c} /\ \A y \in {a, b, c} : Max({a, b, c}) >= y
    BY <1>1 DEF Max
  <1> QED
    BY <1>2

LEMMA LargerOfTwo ==
    ASSUME NEW a \in Int, NEW b \in Int
    PROVE  Max({a, b}) \in {a, b} /\ Max({a, b}) >= a /\ Max({a, b}) >= b
  <1>1. \E x \in {a, b} : \A y \in {a, b} : x >= y
    OBVIOUS
  <1>2. Max({a, b}) \in {a, b} /\ \A y \in {a, b} : Max({a, b}) >= y
    BY <1>1 DEF Max
  <1> QED
    BY <1>2

LEMMA SmallerOfTwo ==
    ASSUME NEW a \in Int, NEW b \in Int
    PROVE  Min({a, b}) \in {a, b} /\ Min({a, b}) <= a /\ Min({a, b}) <= b
  <1>1. \E x \in {a, b} : \A y \in {a, b} : x <= y
    OBVIOUS
  <1>2. Min({a, b}) \in {a, b} /\ \A y \in {a, b} : Min({a, b}) <= y
    BY <1>1 DEF Min
  <1> QED
    BY <1>2

LEMMA Smallest ==
    ASSUME NEW S, S \subseteq Int, S # {}, NEW b \in Int, \A x \in S : b <= x
    PROVE  Min(S) \in S /\ \A y \in S : Min(S) <= y
  <1> DEFINE T == {x - b : x \in S}
  <1>1. T \subseteq Nat /\ T # {}
    <2>1. ASSUME NEW x \in S PROVE x - b \in Nat
      <3>1. x \in Int /\ b <= x
        OBVIOUS
      <3> QED
        BY <3>1
    <2> QED
      BY <2>1
  <1>2. PICK t \in T : \A u \in T : t <= u
    BY <1>1, LeastMember
  <1>3. PICK x \in S : t = x - b
    BY <1>2
  <1>4. \A y \in S : x <= y
    <2> SUFFICES ASSUME NEW y \in S PROVE x <= y
      OBVIOUS
    <2>1. y - b \in T
      OBVIOUS
    <2>2. t <= y - b
      BY <1>2, <2>1
    <2> QED
      BY <1>3, <2>2
  <1> QED
    BY <1>4 DEF Min

\* What the proofs use of the constants.
LEMMA Waits ==
    /\ Lease \in Nat /\ SendLimit \in Nat /\ Busy \in Nat \ {0} /\ Idle \in Nat \ {0}
    /\ Piggyback \in Nat \ {0} /\ Round \in Nat \ {0} /\ MaxAttempts \in Nat \ {0}
    /\ NoRow \notin Rows
  BY TimesAssumption

LEMMA ProductIsNat == ASSUME NEW a \in Nat, NEW b \in Nat PROVE a * b \in Nat
  <1>1. a * b \in Int /\ 0 <= a /\ 0 <= b
    OBVIOUS
  <1>2. 0 <= a * b
    BY <1>1
  <1> QED
    BY <1>1, <1>2

LEMMA ProductGrows ==
    ASSUME NEW a \in Nat, NEW b \in Nat, NEW c \in Nat, b <= c
    PROVE  a * b <= a * c
  <1>1. PICK d \in Nat : c = b + d
    <2>1. c - b \in Nat /\ c = b + (c - b)
      OBVIOUS
    <2> QED
      BY <2>1
  <1>2. a * c = a * b + a * d
    BY <1>1
  <1>3. a * d \in Nat /\ a * b \in Nat
    BY ProductIsNat
  <1> QED
    BY <1>2, <1>3

LEMMA BackoffIs ==
    ASSUME NEW n \in Nat
    PROVE  Backoff(n) \in Nat \ {0} /\ Backoff(MaxShift) \in Nat /\ Backoff(n) <= Backoff(MaxShift)
  <1> DEFINE k == IF n < MaxShift THEN n ELSE MaxShift
  <1>1. Minute \in Nat \ {0} /\ MaxShift \in Nat /\ k \in Nat /\ k <= MaxShift
    BY TimesAssumption
  <1>2. Doubled[k] \in Nat /\ Doubled[MaxShift] \in Nat /\ 1 <= Doubled[k] /\ Doubled[k] <= Doubled[MaxShift]
    <2> HIDE DEF k
    <2> QED
      BY <1>1, DoubledIs, DoubledGrows
  <1>3. Backoff(n) = Minute * Doubled[k] /\ Backoff(MaxShift) = Minute * Doubled[MaxShift]
    BY <1>1 DEF Backoff
  <1> HIDE DEF k
  <1>4. Minute * Doubled[k] \in Nat /\ Minute * Doubled[MaxShift] \in Nat
    BY <1>1, <1>2, ProductIsNat
  <1>5. Minute * Doubled[k] <= Minute * Doubled[MaxShift]
    BY <1>1, <1>2, ProductGrows
  <1>6. Minute * 1 <= Minute * Doubled[k]
    BY <1>1, <1>2, ProductGrows
  <1> QED
    BY <1>1, <1>3, <1>4, <1>5, <1>6

\* How long a worker in a round that failed waits, before the ceiling.
LEMMA PatienceIs ==
    ASSUME NEW n \in Nat
    PROVE  Busy * Doubled[n] \in Nat /\ Busy <= Busy * Doubled[n]
  <1>1. Doubled[n] \in Nat /\ 1 <= Doubled[n]
    BY DoubledIs, DoubledGrows
  <1>2. Busy * Doubled[n] \in Nat /\ Busy * 1 <= Busy * Doubled[n]
    BY <1>1, Waits, ProductIsNat, ProductGrows
  <1> QED
    BY <1>2, Waits
(***************************************************************************)
(* Types                                                                   *)
(***************************************************************************)
RowTypes == [status : {"none", "pending", "processing", "sent", "failed", "erased"},
             due : Int, locked : 0 .. Lease + 1, attempts : Nat]

WorkerTypes ==
    [pc : {"down", "wait", "ask", "claim", "deliver", "record"},
     timer : Nat, wake : BOOLEAN, looked : Unseen .. Piggyback,
     turn : 0 .. Round - 1, retry : Nat, sent : BOOLEAN, failures : Nat,
     row : Rows \union {NoRow}, tried : Nat,
     result : {"none", "accepted", "transient", "permanent"},
     held : 0 .. Lease + 1]

LEMMA TypeIs ==
    TypeOK <=> /\ row \in [Rows -> RowTypes] /\ worker \in [Instances -> WorkerTypes]
               /\ untold \subseteq Instances \X Rows
               /\ told \in [Instances -> SUBSET Rows]
               /\ accepted \in [Rows -> Nat] /\ excused \in [Rows -> Nat]
               /\ outlived \subseteq Rows /\ faults \in 0 .. MaxFaults
  BY DEF TypeOK, RowTypes, WorkerTypes

LEMMA FreshTyped ==
    ASSUME NEW c \in {"down", "wait"}
    PROVE  /\ Fresh(c) \in WorkerTypes
           /\ Fresh(c).pc = c /\ Fresh(c).timer = Busy /\ Fresh(c).failures = 0
           /\ Fresh(c).retry = 0 /\ ~Fresh(c).wake
  <1>1. PICK w : w = Fresh(c)
    OBVIOUS
  <1>2. w = [pc |-> c, timer |-> Busy, wake |-> FALSE, looked |-> Unseen,
             turn |-> 0, retry |-> 0, sent |-> FALSE, failures |-> 0,
             row |-> NoRow, tried |-> 0, result |-> "none", held |-> 0]
    BY <1>1 DEF Fresh
  <1>3. Unseen \in Unseen .. Piggyback /\ 0 \in 0 .. Round - 1 /\ 0 \in 0 .. Lease + 1
    BY Waits DEF Unseen
  <1>4. w \in WorkerTypes
    BY <1>2, <1>3, Waits DEF WorkerTypes
  <1>5. w.pc = c /\ w.timer = Busy /\ w.failures = 0 /\ w.retry = 0 /\ ~w.wake
    BY <1>2
  <1> QED
    BY <1>1, <1>4, <1>5

LEMMA BareTyped ==
    ASSUME NEW s \in {"none", "sent", "failed", "erased"}, NEW d \in Int
    PROVE  Bare(s, d) \in RowTypes /\ Bare(s, d).status = s /\ Bare(s, d).due = d
  <1>1. PICK r : r = Bare(s, d)
    OBVIOUS
  <1>2. r = [status |-> s, due |-> d, locked |-> 0, attempts |-> 0]
    BY <1>1 DEF Bare
  <1>3. r \in RowTypes /\ r.status = s /\ r.due = d
    BY <1>2, Waits DEF RowTypes
  <1> QED
    BY <1>1, <1>3

\* Until the next look: what the outbox said, a moment after mail went out,
\* longer and longer after failures, and otherwise the ceiling.
LEMMA NextPollIs ==
    ASSUME NEW due \in Nat, NEW sent \in BOOLEAN, NEW failures \in Nat
    PROVE  /\ NextPoll(due, sent, failures) \in Nat
           /\ due > 0 => NextPoll(due, sent, failures) = due
           /\ due = 0 /\ sent => NextPoll(due, sent, failures) = Busy
           /\ due = 0 /\ failures > 0 =>
                 NextPoll(due, sent, failures) <= Busy * Doubled[failures - 1]
  <1>1. CASE due > 0
    BY <1>1 DEF NextPoll
  <1>2. CASE due = 0 /\ failures = 0
    BY <1>2, Waits DEF NextPoll
  <1>3. CASE due = 0 /\ failures > 0
    <2>1. failures - 1 \in Nat
      BY <1>3
    <2>2. /\ Busy * Doubled[failures - 1] \in Nat /\ Idle \in Nat /\ Busy \in Nat
          /\ Busy <= Busy * Doubled[failures - 1]
      BY <2>1, Waits, PatienceIs
    <2>3. PICK p : p = Busy * Doubled[failures - 1]
      OBVIOUS
    <2>a. p \in Int /\ Idle \in Int
      BY <2>2, <2>3
    <2>4. Min({p, Idle}) \in {p, Idle} /\ Min({p, Idle}) <= p
      BY <2>a, SmallerOfTwo
    <2>5. NextPoll(due, sent, failures) = IF sent THEN Busy ELSE Min({p, Idle})
      BY <1>3, <2>3 DEF NextPoll
    <2> QED
      BY <1>3, <2>2, <2>3, <2>4, <2>5
  <1> QED
    BY <1>1, <1>2, <1>3

\* The worker after a call of once, when no retry of an earlier call is open
\* and only a call that ends the round says how long it waits.
LEMMA AfterIs ==
    ASSUME NEW w \in WorkerTypes, w.retry = 0,
           NEW ok \in BOOLEAN, NEW retryIn \in Nat, NEW err \in BOOLEAN,
           ok /\ ~err => retryIn = 0
    PROVE  LET v == After(w, ok, retryIn, err) IN
           /\ v \in WorkerTypes /\ v.retry = 0 /\ v.wake = w.wake
           /\ v.pc \in {"wait", "ask"}
           /\ v.pc = "wait" => v.failures = IF err THEN w.failures + 1 ELSE 0
           /\ v.pc = "wait" => v.timer = NextPoll(retryIn, w.sent \/ (ok /\ ~err), v.failures)
           /\ ~ok => v.pc = "wait"
  <1> DEFINE due == IF retryIn > 0 /\ (w.retry = 0 \/ retryIn < w.retry)
                    THEN retryIn ELSE w.retry
             sent == w.sent \/ (ok /\ ~err)
             failures == IF err THEN w.failures + 1 ELSE 0
  <1>1. PICK v : v = After(w, ok, retryIn, err)
    OBVIOUS
  <1>2. /\ w.sent \in BOOLEAN /\ w.failures \in Nat /\ w.turn \in 0 .. Round - 1 /\ w.wake \in BOOLEAN
        /\ w.timer \in Nat /\ w.looked \in Unseen .. Piggyback
    BY DEF WorkerTypes
  <1>3. due = retryIn /\ sent \in BOOLEAN /\ failures \in Nat
    BY <1>2
  <1>4. PICK t : t = NextPoll(retryIn, sent, failures)
    OBVIOUS
  <1>5. t \in Nat
    <2> HIDE DEF sent, failures
    <2> QED
      BY <1>3, <1>4, NextPollIs
  <1>6. CASE err \/ ~ok \/ w.turn + 1 = Round
    <2>1. v = [w EXCEPT !.pc = "wait", !.timer = t, !.failures = failures, !.turn = 0,
                        !.retry = 0, !.sent = FALSE, !.row = NoRow, !.tried = 0,
                        !.result = "none", !.held = 0]
      BY <1>1, <1>3, <1>4, <1>6 DEF After
    <2>2. 0 \in 0 .. Round - 1 /\ 0 \in 0 .. Lease + 1
      BY Waits
    <2> HIDE DEF due, sent, failures
    <2>3. v = [pc |-> "wait", timer |-> t, wake |-> w.wake, looked |-> w.looked, turn |-> 0,
               retry |-> 0, sent |-> FALSE, failures |-> failures, row |-> NoRow,
               tried |-> 0, result |-> "none", held |-> 0]
      BY <2>1 DEF WorkerTypes
    <2>4. v \in WorkerTypes
      BY <1>2, <1>3, <1>5, <2>2, <2>3 DEF WorkerTypes
    <2>5. v.pc = "wait" /\ v.timer = t /\ v.retry = 0 /\ v.failures = failures /\ v.wake = w.wake
      BY <2>3
    <2> QED
      BY <1>1, <1>4, <2>4, <2>5 DEF sent, failures
  <1>7. CASE ~(err \/ ~ok \/ w.turn + 1 = Round)
    <2>1. v = [w EXCEPT !.pc = "ask", !.turn = @ + 1, !.retry = 0, !.sent = sent,
                        !.row = NoRow, !.tried = 0, !.result = "none", !.held = 0]
      BY <1>1, <1>3, <1>7 DEF After
    <2>2. 0 \in 0 .. Lease + 1 /\ w.turn + 1 \in 0 .. Round - 1
      BY <1>2, <1>7, Waits
    <2> HIDE DEF due, sent, failures
    <2>3. v = [pc |-> "ask", timer |-> w.timer, wake |-> w.wake, looked |-> w.looked,
               turn |-> w.turn + 1, retry |-> 0, sent |-> sent, failures |-> w.failures,
               row |-> NoRow, tried |-> 0, result |-> "none", held |-> 0]
      BY <2>1 DEF WorkerTypes
    <2>4. v \in WorkerTypes
      BY <1>2, <1>3, <2>2, <2>3 DEF WorkerTypes
    <2>5. v.pc = "ask" /\ v.retry = 0 /\ v.wake = w.wake
      BY <2>3
    <2> QED
      BY <1>1, <1>7, <2>4, <2>5
  <1> QED
    BY <1>6, <1>7

(***************************************************************************)
(* The invariant                                                           *)
(***************************************************************************)
Asleep(i) == worker[i].pc = "wait" /\ ~worker[i].wake

\* What i may sleep for, over a row it was told of.
Rest(i) ==
    Asleep(i) => \A r \in told[i] : Unfinished(r) =>
        /\ r \notin outlived => worker[i].timer <= Longest(worker[i])
        /\ Instances = {i} /\ worker[i].failures = 0
               => worker[i].timer <= Max({Busy, DueIn(r)})

\* Nobody is told of a row before it is written, and no retry is far off.  A
\* round never goes on after a call that found a retry.
RestInv ==
    /\ TypeOK
    /\ \A i \in Instances : worker[i].retry = 0
    /\ \A i \in Instances : \A r \in told[i] : row[r].status # "none"
    /\ \A i \in Instances, r \in Rows : <<i, r>> \in untold => row[r].status # "none"
    /\ \A r \in Rows : row[r].due \in Never .. Backoff(MaxShift)
    /\ \A i \in Instances : Rest(i)

LEMMA RestSaysIt == RestInv => NoRowIsForgotten /\ RetryIsWaitedFor
  BY DEF RestInv, Rest, Asleep, NoRowIsForgotten, RetryIsWaitedFor

\* Everything a worker has to wait for is within the longest wait.
LEMMA LongestIs ==
    ASSUME NEW w \in WorkerTypes
    PROVE  /\ Longest(w) \in Int /\ Lease <= Longest(w) /\ Backoff(MaxShift) <= Longest(w)
           /\ Busy <= Longest(w)
           /\ w.failures > 0 => Busy * Doubled[w.failures - 1] <= Longest(w)
  <1> DEFINE n == IF w.failures = 0 THEN 0 ELSE w.failures - 1
             p == Busy * Doubled[n]
             b == Backoff(MaxShift)
  <1>1. w.failures \in Nat /\ n \in Nat
    BY DEF WorkerTypes
  <1>2. p \in Nat /\ Busy <= p
    <2> HIDE DEF n
    <2> QED
      BY <1>1, PatienceIs
  <1>3. b \in Nat
    BY BackoffIs
  <1>4. Longest(w) = Max({Lease, b, p})
    BY DEF Longest
  <1>5. w.failures > 0 => n = w.failures - 1
    BY <1>1
  <1>6. w.failures > 0 => Busy * Doubled[w.failures - 1] = p
    <2> HIDE DEF n
    <2> QED
      BY <1>5
  <1> HIDE DEF n, p, b
  <1>a. Lease \in Int /\ b \in Int /\ p \in Int
    BY <1>2, <1>3, Waits
  <1>b. /\ Max({Lease, b, p}) \in {Lease, b, p}
        /\ Max({Lease, b, p}) >= Lease /\ Max({Lease, b, p}) >= b /\ Max({Lease, b, p}) >= p
    BY <1>a, LargestOfThree
  <1>7. Max({Lease, b, p}) \in Int /\ Lease <= Max({Lease, b, p}) /\ b <= Max({Lease, b, p})
        /\ p <= Max({Lease, b, p})
    BY <1>a, <1>b
  <1>8. Busy <= Longest(w)
    BY <1>2, <1>4, <1>7, Waits
  <1> QED
    BY <1>4, <1>6, <1>7, <1>8 DEF b

\* When an unfinished row can be claimed.
LEMMA DueIs ==
    ASSUME RestInv, NEW r \in Rows, Unfinished(r), NEW w \in WorkerTypes
    PROVE  DueIn(r) \in Int /\ Never <= DueIn(r) /\ DueIn(r) <= Longest(w)
  <1>1. row[r] \in RowTypes /\ row[r].due \in Never .. Backoff(MaxShift)
    BY TypeIs DEF RestInv
  <1>2. /\ Lease \in Nat /\ Backoff(MaxShift) \in Nat /\ Longest(w) \in Int
        /\ Lease <= Longest(w) /\ Backoff(MaxShift) <= Longest(w)
    BY Waits, BackoffIs, LongestIs
  <1>3. row[r].locked \in 0 .. Lease + 1
    BY <1>1 DEF RowTypes
  <1> QED
    BY <1>1, <1>2, <1>3 DEF DueIn, Never

\* The first row the look finds is due no later than any.
LEMMA FirstDue ==
    ASSUME RestInv, NEW open, open = {r \in Rows : Unfinished(r)}, open # {}
    PROVE  /\ Min({DueIn(r) : r \in open}) \in Int
           /\ \A q \in open : Min({DueIn(r) : r \in open}) <= DueIn(q)
  <1> DEFINE S == {DueIn(r) : r \in open}
  <1>1. \A r \in open : DueIn(r) \in Int /\ Never <= DueIn(r)
    <2> SUFFICES ASSUME NEW r \in open PROVE DueIn(r) \in Int /\ Never <= DueIn(r)
      OBVIOUS
    <2>1. Fresh("wait") \in WorkerTypes
      BY FreshTyped
    <2> QED
      BY <2>1, DueIs
  <1>2. S \subseteq Int /\ S # {} /\ Never \in Int /\ \A x \in S : Never <= x
    BY <1>1 DEF Never
  <1>3. Min(S) \in S /\ \A y \in S : Min(S) <= y
    <2> HIDE DEF S
    <2> QED
      BY <1>2, Smallest
  <1> QED
    BY <1>2, <1>3

\* A worker that does nothing sleeps on: nothing it was told of and that is
\* settled becomes unfinished while no worker has outlived its lease on it,
\* and with no other worker no row is moved.
LEMMA SleepOn ==
    ASSUME RestInv, NEW i \in Instances, worker'[i] = worker[i], told'[i] = told[i],
           outlived \subseteq outlived',
           \A r \in told[i] : Unfinished(r)' => Unfinished(r) \/ r \in outlived,
           Instances = {i} => \A r \in told[i] : Unfinished(r)' => row'[r] = row[r]
    PROVE  Rest(i)'
  <1> SUFFICES ASSUME Asleep(i), NEW r \in told[i], Unfinished(r)'
               PROVE  /\ r \notin outlived' => worker[i].timer <= Longest(worker[i])
                      /\ Instances = {i} /\ worker[i].failures = 0
                             => worker[i].timer <= Max({Busy, DueIn(r)'})
    BY DEF Rest, Asleep, Longest
  <1>1. Rest(i) /\ (Unfinished(r) \/ r \in outlived)
    BY DEF RestInv
  <1>2. Instances = {i} => DueIn(r)' = DueIn(r) /\ Unfinished(r)
    BY DEF DueIn, Unfinished, Waiting
  <1>3. r \notin outlived' => worker[i].timer <= Longest(worker[i])
    BY <1>1 DEF Rest
  <1>4. Instances = {i} /\ worker[i].failures = 0
            => worker[i].timer <= Max({Busy, DueIn(r)'})
    BY <1>1, <1>2 DEF Rest
  <1> QED
    BY <1>3, <1>4

(***************************************************************************)
(* Each action                                                             *)
(***************************************************************************)
\* What the steps of the workers do to the table: types are kept, no row is
\* unwritten, and what is settled stays settled where no worker has outlived
\* its lease.
RowsMove ==
    /\ outlived' = outlived
    /\ row' \in [Rows -> RowTypes]
    /\ \A r \in Rows : row'[r].due \in Never .. Backoff(MaxShift)
    /\ \A r \in Rows : row[r].status # "none" =>
          row'[r].status # "none" /\ (Unfinished(r)' => Unfinished(r) \/ r \in outlived)

\* A step of i alone.
LEMMA OneActs ==
    ASSUME RestInv, NEW i \in Instances, NEW w \in WorkerTypes,
           worker' = [worker EXCEPT ![i] = w], w.retry = 0,
           RowsMove, untold' \subseteq untold,
           told' \in [Instances -> SUBSET Rows],
           \A j \in Instances \ {i} : told'[j] = told[j],
           \A r \in told'[i] : row'[r].status # "none",
           accepted' \in [Rows -> Nat], excused' \in [Rows -> Nat], faults' \in 0 .. MaxFaults,
           w.pc = "wait" /\ ~w.wake => Rest(i)'
    PROVE  RestInv'
  <1>1. /\ worker \in [Instances -> WorkerTypes] /\ told \in [Instances -> SUBSET Rows]
        /\ untold \subseteq Instances \X Rows /\ outlived \subseteq Rows
    BY TypeIs DEF RestInv
  <1>2. /\ worker' \in [Instances -> WorkerTypes] /\ worker'[i] = w
        /\ \A j \in Instances \ {i} : worker'[j] = worker[j]
    BY <1>1
  <1>3. TypeOK'
    BY <1>1, <1>2 DEF RowsMove, TypeOK, RowTypes, WorkerTypes
  <1>4. \A j \in Instances : worker'[j].retry = 0
    BY <1>2 DEF RestInv
  <1>5. \A j \in Instances : \A r \in told'[j] : row'[r].status # "none"
    <2> SUFFICES ASSUME NEW j \in Instances \ {i}, NEW r \in told[j]
                 PROVE  row'[r].status # "none"
      OBVIOUS
    <2>1. r \in Rows /\ row[r].status # "none"
      BY <1>1 DEF RestInv
    <2> QED
      BY <2>1 DEF RowsMove
  <1>6. \A j \in Instances, r \in Rows : <<j, r>> \in untold' => row'[r].status # "none"
    BY DEF RestInv, RowsMove
  <1>7. \A j \in Instances : Rest(j)'
    <2> SUFFICES ASSUME NEW j \in Instances PROVE Rest(j)'
      OBVIOUS
    <2>1. CASE j = i
      BY <2>1, <1>2 DEF Rest, Asleep
    <2>2. CASE j # i
      <3>1. \A r \in told[j] : Unfinished(r)' => Unfinished(r) \/ r \in outlived
        <4> SUFFICES ASSUME NEW r \in told[j], Unfinished(r)'
                     PROVE  Unfinished(r) \/ r \in outlived
          OBVIOUS
        <4>1. r \in Rows /\ row[r].status # "none"
          BY <1>1 DEF RestInv
        <4> QED
          BY <4>1 DEF RowsMove
      <3>2. worker'[j] = worker[j] /\ told'[j] = told[j] /\ Instances # {j}
            /\ outlived \subseteq outlived'
        BY <2>2, <1>2 DEF RowsMove
      <3> QED
        BY <3>1, <3>2, SleepOn
    <2> QED
      BY <2>1, <2>2
  <1> QED
    BY <1>3, <1>4, <1>5, <1>6, <1>7 DEF RestInv, RowsMove

LEMMA RowsStay == ASSUME RestInv, row' = row, outlived' = outlived PROVE RowsMove
  BY TypeIs DEF RestInv, RowsMove, Unfinished, Waiting

\* What a worker looks like after a step that ends no call of once.
LEMMA WorkerTouched ==
    ASSUME NEW w \in WorkerTypes
    PROVE  /\ [w EXCEPT !.wake = TRUE] \in WorkerTypes
           /\ [w EXCEPT !.wake = TRUE].wake /\ [w EXCEPT !.wake = TRUE].retry = w.retry
           /\ [w EXCEPT !.pc = "claim"] \in WorkerTypes
           /\ [w EXCEPT !.pc = "claim"].pc = "claim" /\ [w EXCEPT !.pc = "claim"].retry = w.retry
  <1>1. [w EXCEPT !.wake = TRUE] \in WorkerTypes /\ [w EXCEPT !.pc = "claim"] \in WorkerTypes
    BY DEF WorkerTypes
  <1>2. [w EXCEPT !.wake = TRUE].wake /\ [w EXCEPT !.wake = TRUE].retry = w.retry
    BY DEF WorkerTypes
  <1>3. [w EXCEPT !.pc = "claim"].pc = "claim" /\ [w EXCEPT !.pc = "claim"].retry = w.retry
    BY DEF WorkerTypes
  <1> QED
    BY <1>1, <1>2, <1>3

LEMMA WorkerBegins ==
    ASSUME NEW w \in WorkerTypes, NEW v,
           v = [w EXCEPT !.pc = "ask", !.wake = FALSE, !.timer = 0, !.looked = 0,
                         !.turn = 0, !.retry = 0, !.sent = FALSE]
    PROVE  v \in WorkerTypes /\ v.pc = "ask" /\ v.retry = 0
  <1>1. v = [pc |-> "ask", timer |-> 0, wake |-> FALSE, looked |-> 0, turn |-> 0,
             retry |-> 0, sent |-> FALSE, failures |-> w.failures, row |-> w.row,
             tried |-> w.tried, result |-> w.result, held |-> w.held]
    BY DEF WorkerTypes
  <1>2. 0 \in Unseen .. Piggyback /\ 0 \in 0 .. Round - 1
    BY Waits DEF Unseen
  <1>3. v \in WorkerTypes
    <2>1. w.failures \in Nat /\ w.row \in Rows \union {NoRow} /\ w.tried \in Nat
          /\ w.result \in {"none", "accepted", "transient", "permanent"} /\ w.held \in 0 .. Lease + 1
      BY DEF WorkerTypes
    <2>2. /\ 0 \in Nat /\ FALSE \in BOOLEAN
          /\ "ask" \in {"down", "wait", "ask", "claim", "deliver", "record"}
      OBVIOUS
    <2> QED
      BY <1>1, <1>2, <2>1, <2>2 DEF WorkerTypes
  <1> QED
    BY <1>1, <1>3

LEMMA WorkerTakes ==
    ASSUME NEW w \in WorkerTypes, NEW r \in Rows, NEW n \in Nat
    PROVE  LET v == [w EXCEPT !.pc = "deliver", !.row = r, !.tried = n, !.held = 0] IN
           v \in WorkerTypes /\ v.pc = "deliver" /\ v.retry = w.retry
  <1>1. PICK v : v = [w EXCEPT !.pc = "deliver", !.row = r, !.tried = n, !.held = 0]
    OBVIOUS
  <1>2. v = [pc |-> "deliver", timer |-> w.timer, wake |-> w.wake, looked |-> w.looked,
             turn |-> w.turn, retry |-> w.retry, sent |-> w.sent, failures |-> w.failures,
             row |-> r, tried |-> n, result |-> w.result, held |-> 0]
    BY <1>1 DEF WorkerTypes
  <1>3. 0 \in 0 .. Lease + 1
    BY Waits
  <1>4. v \in WorkerTypes
    BY <1>2, <1>3 DEF WorkerTypes
  <1>5. v.pc = "deliver" /\ v.retry = w.retry
    BY <1>2
  <1> QED
    BY <1>1, <1>4, <1>5

LEMMA WorkerDelivers ==
    ASSUME NEW w \in WorkerTypes, NEW result \in {"accepted", "transient", "permanent"}, NEW v,
           v = [w EXCEPT !.pc = "record", !.result = result]
    PROVE  v \in WorkerTypes /\ v.pc = "record" /\ v.retry = w.retry
  BY DEF WorkerTypes

LEMMA NotifyRests ==
    ASSUME RestInv, NEW i \in Instances, NEW r \in Rows, Notify(i, r)
    PROVE  RestInv'
  <1> DEFINE w == [worker[i] EXCEPT !.wake = TRUE]
  <1>1. /\ worker[i] \in WorkerTypes /\ told \in [Instances -> SUBSET Rows]
        /\ accepted \in [Rows -> Nat] /\ excused \in [Rows -> Nat] /\ faults \in 0 .. MaxFaults
    BY TypeIs DEF RestInv
  <1>2. w \in WorkerTypes /\ w.wake /\ w.retry = 0
    BY <1>1, WorkerTouched DEF RestInv
  <1>3. /\ worker' = [worker EXCEPT ![i] = w] /\ row' = row /\ <<i, r>> \in untold
        /\ untold' \subseteq untold
        /\ told' = [told EXCEPT ![i] = told[i] \union {r}]
        /\ UNCHANGED <<accepted, excused, outlived, faults>>
    BY DEF Notify
  <1> HIDE DEF w
  <1>4. \A q \in told'[i] : row'[q].status # "none"
    BY <1>1, <1>3 DEF RestInv
  <1>5. told' \in [Instances -> SUBSET Rows] /\ \A j \in Instances \ {i} : told'[j] = told[j]
    BY <1>1, <1>3
  <1>6. RowsMove
    BY <1>3, RowsStay
  <1> QED
    BY <1>1, <1>2, <1>3, <1>4, <1>5, <1>6, OneActs

\* Steps of a worker that leave the table alone and end no round.
LEMMA AwakeRests ==
    ASSUME RestInv, NEW i \in Instances, NEW w \in WorkerTypes, w.retry = 0,
           w.pc # "wait" \/ w.wake,
           worker' = [worker EXCEPT ![i] = w], RowsMove,
           UNCHANGED <<untold, told>>,
           accepted' \in [Rows -> Nat], excused' \in [Rows -> Nat], faults' \in 0 .. MaxFaults
    PROVE  RestInv'
  <1>1. told \in [Instances -> SUBSET Rows]
    BY TypeIs DEF RestInv
  <1>2. \A r \in told'[i] : row'[r].status # "none"
    BY <1>1 DEF RestInv, RowsMove
  <1> QED
    BY <1>1, <1>2, OneActs

LEMMA FaultIs == ASSUME RestInv, NEW k, Fault(k) PROVE faults' \in 0 .. MaxFaults
  BY TimesAssumption, TypeIs DEF RestInv, Fault

LEMMA InUseRests == ASSUME RestInv, NEW i \in Instances, DatabaseInUse(i) PROVE RestInv'
  <1> DEFINE w == [worker[i] EXCEPT !.wake = TRUE]
  <1>1. /\ worker[i] \in WorkerTypes
        /\ accepted \in [Rows -> Nat] /\ excused \in [Rows -> Nat] /\ faults \in 0 .. MaxFaults
    BY TypeIs DEF RestInv
  <1>2. w \in WorkerTypes /\ w.wake /\ w.retry = 0
    BY <1>1, WorkerTouched DEF RestInv
  <1>3. /\ worker' = [worker EXCEPT ![i] = w] /\ row' = row
        /\ UNCHANGED <<untold, told, accepted, excused, outlived, faults>>
    BY DEF DatabaseInUse
  <1> HIDE DEF w
  <1>4. RowsMove
    BY <1>3, RowsStay
  <1> QED
    BY <1>1, <1>2, <1>3, <1>4, AwakeRests

LEMMA BeginRests == ASSUME RestInv, NEW i \in Instances, Begin(i) PROVE RestInv'
  <1> DEFINE w == [worker[i] EXCEPT !.pc = "ask", !.wake = FALSE, !.timer = 0, !.looked = 0,
                                    !.turn = 0, !.retry = 0, !.sent = FALSE]
  <1>1. /\ worker[i] \in WorkerTypes
        /\ accepted \in [Rows -> Nat] /\ excused \in [Rows -> Nat] /\ faults \in 0 .. MaxFaults
    BY TypeIs DEF RestInv
  <1>2. w \in WorkerTypes /\ w.pc = "ask" /\ w.retry = 0
    BY <1>1, WorkerBegins
  <1>3. /\ worker' = [worker EXCEPT ![i] = w] /\ row' = row
        /\ UNCHANGED <<untold, told, accepted, excused, outlived, faults>>
    BY DEF Begin
  <1> HIDE DEF w
  <1>4. RowsMove
    BY <1>3, RowsStay
  <1> QED
    BY <1>1, <1>2, <1>3, <1>4, AwakeRests

\* A call of once that returned: what i then sleeps for.
LEMMA ReturnRests ==
    ASSUME RestInv, NEW i \in Instances, NEW ok \in BOOLEAN, NEW retryIn \in Nat,
           NEW err \in BOOLEAN, Return(i, ok, retryIn, err),
           ok /\ ~err => retryIn = 0,
           err => retryIn <= Backoff(MaxShift),
           ~ok /\ ~err => /\ row' = row
                          /\ \A r \in told'[i] : Unfinished(r) =>
                                retryIn > 0 /\ (retryIn <= Busy \/ retryIn <= DueIn(r)),
           RowsMove, untold' = untold,
           told' \in [Instances -> SUBSET Rows],
           \A j \in Instances \ {i} : told'[j] = told[j],
           \A r \in told'[i] : row'[r].status # "none",
           accepted' \in [Rows -> Nat], excused' \in [Rows -> Nat], faults' \in 0 .. MaxFaults
    PROVE  RestInv'
  <1>1. worker \in [Instances -> WorkerTypes] /\ worker[i] \in WorkerTypes /\ worker[i].retry = 0
        /\ worker[i].failures \in Nat /\ worker[i].sent \in BOOLEAN
    BY TypeIs DEF RestInv, WorkerTypes
  <1>2. PICK v : v = After(worker[i], ok, retryIn, err)
    OBVIOUS
  <1>3. /\ v \in WorkerTypes /\ v.retry = 0
        /\ v.pc = "wait" => v.failures = IF err THEN worker[i].failures + 1 ELSE 0
        /\ v.pc = "wait" => v.timer = NextPoll(retryIn, worker[i].sent \/ (ok /\ ~err), v.failures)
    <2> DEFINE u == worker[i]
    <2>1. u \in WorkerTypes /\ u.retry = 0
      BY <1>1
    <2> HIDE DEF u
    <2>2. LET x == After(u, ok, retryIn, err) IN
          /\ x \in WorkerTypes /\ x.retry = 0
          /\ x.pc = "wait" => x.failures = IF err THEN u.failures + 1 ELSE 0
          /\ x.pc = "wait" => x.timer = NextPoll(retryIn, u.sent \/ (ok /\ ~err), x.failures)
      BY <2>1, AfterIs
    <2> QED
      BY <1>2, <2>2 DEF u
  <1>4. worker' = [worker EXCEPT ![i] = v] /\ worker'[i] = v
    BY <1>1, <1>2 DEF Return
  <1>5. ASSUME v.pc = "wait", NEW r \in told'[i], Unfinished(r)'
        PROVE  /\ v.timer <= Longest(v)
               /\ v.failures = 0 => v.timer <= Max({Busy, DueIn(r)'})
    <2>1. /\ Longest(v) \in Int /\ Backoff(MaxShift) <= Longest(v) /\ Busy <= Longest(v)
          /\ v.failures > 0 => Busy * Doubled[v.failures - 1] <= Longest(v)
          /\ Backoff(MaxShift) \in Nat /\ Busy \in Nat
      BY <1>3, LongestIs, BackoffIs, Waits
    <2>2. v.failures \in Nat /\ v.timer \in Nat
      BY <1>3 DEF WorkerTypes
    <2>3. PICK s \in BOOLEAN : s = (worker[i].sent \/ (ok /\ ~err))
      OBVIOUS
    <2>4. /\ retryIn > 0 => v.timer = retryIn
          /\ retryIn = 0 /\ s => v.timer = Busy
          /\ retryIn = 0 /\ v.failures > 0 => v.timer <= Busy * Doubled[v.failures - 1]
      <3>1. v.timer = NextPoll(retryIn, s, v.failures)
        BY <1>3, <1>5, <2>3
      <3>2. PICK f \in Nat : f = v.failures
        BY <2>2
      <3>3. v.timer = NextPoll(retryIn, s, f)
        BY <3>1, <3>2
      <3>4. /\ retryIn > 0 => NextPoll(retryIn, s, f) = retryIn
            /\ retryIn = 0 /\ s => NextPoll(retryIn, s, f) = Busy
            /\ retryIn = 0 /\ f > 0 => NextPoll(retryIn, s, f) <= Busy * Doubled[f - 1]
        BY NextPollIs
      <3> QED
        BY <3>2, <3>3, <3>4
    <2>5. CASE err
      <3>1. v.failures > 0 /\ v.failures - 1 \in Nat
        BY <1>1, <1>3, <1>5, <2>5
      <3>2. Busy * Doubled[v.failures - 1] \in Nat
        BY <3>1, PatienceIs
      <3> QED
        BY <2>1, <2>2, <2>4, <2>5, <3>1, <3>2
    <2>6. CASE ok /\ ~err
      <3>1. v.timer = Busy
        BY <2>3, <2>4, <2>6
      <3>2. r \in Rows /\ row'[r] \in RowTypes
        BY DEF RowsMove
      <3>3. DueIn(r)' \in Int
        BY <3>2, Waits DEF DueIn, RowTypes
      <3>4. PICK d \in Int : d = DueIn(r)'
        BY <3>3
      <3>5. Busy \in Int
        BY Waits
      <3>6. Max({Busy, d}) >= Busy /\ Max({Busy, d}) \in {Busy, d}
        BY <3>5, LargerOfTwo
      <3>7. v.timer <= Max({Busy, d})
        BY <3>1, <3>5, <3>6
      <3>8. v.timer <= Longest(v)
        BY <2>1, <3>1
      <3> QED
        BY <3>4, <3>7, <3>8
    <2>7. CASE ~ok /\ ~err
      <3>1. row' = row /\ Unfinished(r) /\ r \in Rows
        BY <1>5, <2>7 DEF Unfinished, Waiting
      <3>2. retryIn > 0 /\ (retryIn <= Busy \/ retryIn <= DueIn(r))
        BY <2>7, <3>1
      <3>3. DueIn(r) \in Int /\ DueIn(r) <= Longest(v) /\ DueIn(r)' = DueIn(r)
        <4>1. DueIn(r)' = DueIn(r)
          BY <3>1 DEF DueIn
        <4> QED
          BY <1>3, <3>1, <4>1, DueIs
      <3>4. PICK d \in Int : d = DueIn(r)
        BY <3>3
      <3>5. Busy \in Int
        BY Waits
      <3>6. /\ Max({Busy, d}) >= Busy /\ Max({Busy, d}) >= d
            /\ Max({Busy, d}) \in {Busy, d}
        BY <3>5, LargerOfTwo
      <3>7. v.timer = retryIn /\ (retryIn <= Busy \/ retryIn <= d)
        BY <2>4, <3>2, <3>4
      <3>8. v.timer <= Max({Busy, d})
        BY <3>5, <3>6, <3>7
      <3>9. v.timer <= Longest(v)
        BY <2>1, <3>3, <3>4, <3>7
      <3> QED
        BY <3>3, <3>4, <3>8, <3>9
    <2> QED
      BY <2>5, <2>6, <2>7
  <1>6. v.pc = "wait" => Rest(i)'
    BY <1>4, <1>5 DEF Rest
  <1> QED
    BY <1>3, <1>4, <1>6, OneActs

LEMMA AskRests == ASSUME RestInv, NEW i \in Instances, Ask(i) PROVE RestInv'
  <1> DEFINE open == {r \in Rows : Unfinished(r)}
             next == Min({DueIn(r) : r \in open})
  <1>1. /\ worker[i] \in WorkerTypes /\ worker[i].retry = 0
        /\ told \in [Instances -> SUBSET Rows]
        /\ accepted \in [Rows -> Nat] /\ excused \in [Rows -> Nat] /\ faults \in 0 .. MaxFaults
    BY TypeIs DEF RestInv
  <1>2. /\ CASE open = {} -> Return(i, FALSE, 0, FALSE)
             [] open # {} /\ next > 0 -> Return(i, FALSE, next, FALSE)
             [] OTHER -> worker' = [worker EXCEPT ![i].pc = "claim"]
        /\ told' = [told EXCEPT ![i] = told[i] \union open]
        /\ UNCHANGED <<row, untold, accepted, excused, outlived, faults>>
    BY DEF Ask
  <1>3. \A r \in Rows : Unfinished(r) <=> r \in open
    OBVIOUS
  <1>4. open # {} => next \in Int /\ \A r \in open : next <= DueIn(r)
    BY FirstDue
  <1>5. \A r \in open : row[r].status # "none"
    BY DEF Unfinished, Waiting
  <1> HIDE DEF next
  <1>6. open \in SUBSET Rows
    OBVIOUS
  <1> HIDE DEF open
  <1>7. /\ told' \in [Instances -> SUBSET Rows] /\ \A j \in Instances \ {i} : told'[j] = told[j]
        /\ told'[i] = told[i] \union open
    BY <1>1, <1>2, <1>6
  <1>8. \A r \in told'[i] : row'[r].status # "none"
    BY <1>1, <1>2, <1>5, <1>7 DEF RestInv
  <1>9. RowsMove
    BY <1>2, RowsStay
  <1>10. CASE open = {}
    <2>1. Return(i, FALSE, 0, FALSE)
      BY <1>2, <1>10
    <2>2. \A r \in told'[i] : ~Unfinished(r)
      BY <1>1, <1>3, <1>7, <1>10
    <2>3. /\ TRUE /\ FALSE \in BOOLEAN /\ 0 \in Nat /\ row' = row /\ untold' = untold
          /\ accepted' \in [Rows -> Nat] /\ excused' \in [Rows -> Nat] /\ faults' \in 0 .. MaxFaults
      BY <1>1, <1>2
    <2> QED
      BY <1>7, <1>8, <1>9, <2>1, <2>2, <2>3, ReturnRests
  <1>11. CASE open # {} /\ next > 0
    <2>1. PICK n \in Nat : n = next
      BY <1>4, <1>11
    <2>2. Return(i, FALSE, n, FALSE)
      <3>1. open # {} /\ next > 0 /\ ~(open = {})
        BY <1>11
      <3>2. Return(i, FALSE, next, FALSE)
        BY <1>2, <3>1
      <3> QED
        BY <2>1, <3>2
    <2>3. \A r \in told'[i] : Unfinished(r) => n > 0 /\ n <= DueIn(r)
      BY <1>1, <1>3, <1>4, <1>7, <1>11, <2>1
    <2>4. /\ row' = row /\ untold' = untold
          /\ accepted' \in [Rows -> Nat] /\ excused' \in [Rows -> Nat] /\ faults' \in 0 .. MaxFaults
      BY <1>1, <1>2
    <2> QED
      BY <1>7, <1>8, <1>9, <2>2, <2>3, <2>4, ReturnRests
  <1>12. CASE ~(open = {}) /\ ~(open # {} /\ next > 0)
    <2> DEFINE w == [worker[i] EXCEPT !.pc = "claim"]
    <2>1. w \in WorkerTypes /\ w.pc = "claim" /\ w.retry = 0
      BY <1>1, WorkerTouched
    <2>2. worker' = [worker EXCEPT ![i] = w]
      BY <1>2, <1>12
    <2> HIDE DEF w
    <2> QED
      BY <1>1, <1>2, <1>7, <1>8, <1>9, <2>1, <2>2, OneActs
  <1> QED
    BY <1>10, <1>11, <1>12

\* A claim moves one row, which was unfinished and stays so.
LEMMA TakeMoves ==
    ASSUME RestInv, NEW r \in Rows, Foremost(r), row' = Take(r), outlived' = outlived
    PROVE  RowsMove
  <1>1. row \in [Rows -> RowTypes] /\ row[r] \in RowTypes
    BY TypeIs DEF RestInv
  <1>2. Unfinished(r)
    BY DEF Foremost, Claimable, Unfinished
  <1> DEFINE v == [row[r] EXCEPT !.status = "processing", !.locked = 0,
                                 !.attempts = row[r].attempts + 1]
  <1>3. v \in RowTypes /\ v.due = row[r].due /\ v.status = "processing"
    <2>1. 0 \in 0 .. Lease + 1
      BY Waits
    <2>2. PICK n \in Nat : n = row[r].attempts + 1
      BY <1>1 DEF RowTypes
    <2>3. PICK u : u = row[r]
      OBVIOUS
    <2>4. u \in RowTypes
      BY <1>1, <2>3
    <2>5. v = [u EXCEPT !.status = "processing", !.locked = 0, !.attempts = n]
      BY <2>2, <2>3
    <2> HIDE DEF v
    <2>6. v = [status |-> "processing", due |-> u.due, locked |-> 0, attempts |-> n]
      BY <2>4, <2>5 DEF RowTypes
    <2>7. u.due \in Int
      BY <2>4 DEF RowTypes
    <2>8. v \in RowTypes
      BY <2>1, <2>6, <2>7 DEF RowTypes
    <2> QED
      BY <2>3, <2>6, <2>8
  <1>4. row' = [row EXCEPT ![r] = v]
    BY DEF Take
  <1> HIDE DEF v
  <1>5. row' \in [Rows -> RowTypes] /\ row'[r] = v /\ \A q \in Rows \ {r} : row'[q] = row[q]
    BY <1>1, <1>3, <1>4
  <1>6. \A q \in Rows : row'[q].due \in Never .. Backoff(MaxShift)
    BY <1>3, <1>5 DEF RestInv
  <1>7. \A q \in Rows : row[q].status # "none" =>
          row'[q].status # "none" /\ (Unfinished(q)' => Unfinished(q))
    BY <1>2, <1>3, <1>5 DEF Unfinished, Waiting
  <1> QED
    BY <1>5, <1>6, <1>7 DEF RowsMove

LEMMA ToldStay ==
    ASSUME RestInv, RowsMove, told' = told, NEW i \in Instances
    PROVE  /\ told' \in [Instances -> SUBSET Rows] /\ \A j \in Instances \ {i} : told'[j] = told[j]
           /\ \A r \in told'[i] : row'[r].status # "none"
  <1>1. told \in [Instances -> SUBSET Rows]
    BY TypeIs DEF RestInv
  <1> QED
    BY <1>1 DEF RestInv, RowsMove

\* A call of once that ends while nobody is told of a row.
LEMMA CallRests ==
    ASSUME RestInv, NEW i \in Instances, NEW ok \in BOOLEAN, NEW retryIn \in Nat,
           NEW err \in BOOLEAN, Return(i, ok, retryIn, err),
           ok /\ ~err => retryIn = 0, err => retryIn <= Backoff(MaxShift),
           ~ok /\ ~err => row' = row /\ retryIn = Busy,
           RowsMove, UNCHANGED <<untold, told>>,
           accepted' \in [Rows -> Nat], excused' \in [Rows -> Nat], faults' \in 0 .. MaxFaults
    PROVE  RestInv'
  <1>1. untold' = untold /\ told' = told
    OBVIOUS
  <1>2. /\ told' \in [Instances -> SUBSET Rows] /\ \A j \in Instances \ {i} : told'[j] = told[j]
        /\ \A r \in told'[i] : row'[r].status # "none"
    BY <1>1, ToldStay
  <1>3. ~ok /\ ~err => retryIn > 0 /\ retryIn <= Busy
    BY Waits
  <1> QED
    BY <1>1, <1>2, <1>3, ReturnRests

LEMMA ClaimRests == ASSUME RestInv, NEW i \in Instances, Claim(i) PROVE RestInv'
  <1>1. /\ worker[i] \in WorkerTypes /\ worker[i].retry = 0 /\ row \in [Rows -> RowTypes]
        /\ accepted \in [Rows -> Nat] /\ excused \in [Rows -> Nat] /\ faults \in 0 .. MaxFaults
    BY TypeIs DEF RestInv
  <1>2. UNCHANGED <<untold, told, accepted, excused, outlived, faults>>
    BY DEF Claim
  <1>3. CASE Return(i, FALSE, Busy, FALSE) /\ UNCHANGED row
    <2>1. RowsMove
      BY <1>2, <1>3, RowsStay
    <2>2. Busy \in Nat /\ Busy > 0
      BY Waits
    <2> QED
      BY <1>1, <1>2, <1>3, <2>1, <2>2, CallRests
  <1>4. ASSUME NEW r \in Rows, Foremost(r), row' = Take(r),
               worker' = [worker EXCEPT ![i] = [@ EXCEPT !.pc = "deliver", !.row = r,
                                                !.tried = row[r].attempts, !.held = 0]]
        PROVE  RestInv'
    <2> DEFINE w == [worker[i] EXCEPT !.pc = "deliver", !.row = r,
                                      !.tried = row[r].attempts, !.held = 0]
    <2>1. row[r].attempts \in Nat
      BY <1>1 DEF RowTypes
    <2>2. worker' = [worker EXCEPT ![i] = w]
      BY <1>4
    <2>3. PICK v : v = w
      OBVIOUS
    <2>4. v \in WorkerTypes /\ v.pc = "deliver" /\ v.retry = 0
      <3>1. PICK u \in WorkerTypes : u = worker[i]
        BY <1>1
      <3>2. PICK n \in Nat : n = row[r].attempts
        BY <2>1
      <3>3. v = [u EXCEPT !.pc = "deliver", !.row = r, !.tried = n, !.held = 0]
        BY <2>3, <3>1, <3>2
      <3>4. /\ [u EXCEPT !.pc = "deliver", !.row = r, !.tried = n, !.held = 0] \in WorkerTypes
            /\ [u EXCEPT !.pc = "deliver", !.row = r, !.tried = n, !.held = 0].pc = "deliver"
            /\ [u EXCEPT !.pc = "deliver", !.row = r, !.tried = n, !.held = 0].retry = u.retry
        BY WorkerTakes
      <3> HIDE DEF w
      <3> QED
        BY <1>1, <3>1, <3>3, <3>4
    <2>5. worker' = [worker EXCEPT ![i] = v]
      BY <2>2, <2>3
    <2> HIDE DEF w
    <2>6. RowsMove
      BY <1>2, <1>4, TakeMoves
    <2> QED
      BY <1>1, <1>2, <2>4, <2>5, <2>6, AwakeRests
  <1> QED
    BY <1>3, <1>4 DEF Claim

LEMMA DatabaseFailsRests == ASSUME RestInv, NEW i \in Instances, DatabaseFails(i) PROVE RestInv'
  <1>1. /\ worker[i] \in WorkerTypes /\ worker[i].retry = 0
        /\ accepted \in [Rows -> Nat] /\ excused \in [Rows -> Nat]
    BY TypeIs DEF RestInv
  <1>2. UNCHANGED <<untold, told, accepted, excused>> /\ faults' \in 0 .. MaxFaults
        /\ Return(i, FALSE, 0, TRUE)
    BY FaultIs DEF DatabaseFails
  <1>3. RowsMove
    BY RowsStay, TakeMoves DEF DatabaseFails
  <1>4. 0 <= Backoff(MaxShift)
    BY BackoffIs
  <1>5. PICK n \in Nat : n = 0
    OBVIOUS
  <1>6. Return(i, FALSE, n, TRUE) /\ n <= Backoff(MaxShift)
    BY <1>2, <1>4, <1>5
  <1> QED
    BY <1>1, <1>2, <1>3, <1>6, CallRests

LEMMA DeliverRests ==
    ASSUME RestInv, HolderInv, NEW i \in Instances, Deliver(i)
    PROVE  RestInv'
  <1>1. /\ worker[i] \in WorkerTypes /\ worker[i].retry = 0
        /\ accepted \in [Rows -> Nat] /\ excused \in [Rows -> Nat] /\ faults \in 0 .. MaxFaults
    BY TypeIs DEF RestInv
  <1>2. PICK result \in {"accepted", "transient", "permanent"}, taken \in BOOLEAN :
          /\ IF result = "accepted" THEN UNCHANGED faults ELSE Fault("provider")
          /\ worker' = [worker EXCEPT ![i] = [@ EXCEPT !.pc = "record", !.result = result]]
          /\ accepted' = [accepted EXCEPT ![worker[i].row] = @ + (IF taken THEN 1 ELSE 0)]
          /\ excused' = [excused EXCEPT ![worker[i].row] =
                           @ + (IF taken /\ result # "accepted" THEN 1 ELSE 0)]
    BY DEF Deliver
  <1>3. UNCHANGED <<row, untold, told, outlived>>
    BY DEF Deliver
  <1>4. faults' \in 0 .. MaxFaults
    BY <1>1, <1>2, FaultIs
  <1>5. accepted' \in [Rows -> Nat] /\ excused' \in [Rows -> Nat]
    <2>1. worker[i].row \in Rows
      BY HeldRow DEF Deliver, Holding
    <2>2. PICK m \in Nat : m = accepted[worker[i].row] + (IF taken THEN 1 ELSE 0)
      BY <1>1, <2>1
    <2>3. PICK n \in Nat : n = excused[worker[i].row]
                              + (IF taken /\ result # "accepted" THEN 1 ELSE 0)
      BY <1>1, <2>1
    <2>4. accepted' = [accepted EXCEPT ![worker[i].row] = m]
      BY <1>2, <2>2
    <2>5. excused' = [excused EXCEPT ![worker[i].row] = n]
      BY <1>2, <2>3
    <2> QED
      BY <1>1, <2>4, <2>5
  <1>6. PICK v : v = [worker[i] EXCEPT !.pc = "record", !.result = result]
    OBVIOUS
  <1>7. v \in WorkerTypes /\ v.pc = "record" /\ v.retry = 0
    BY <1>1, <1>6, WorkerDelivers
  <1>8. worker' = [worker EXCEPT ![i] = v]
    BY <1>2, <1>6
  <1>9. RowsMove
    BY <1>3, RowsStay
  <1> QED
    BY <1>3, <1>4, <1>5, <1>7, <1>8, <1>9, AwakeRests

\* What a record writes into its row.
LEMMA OutcomeIs ==
    ASSUME NEW i \in Instances, worker[i].tried \in Nat, row' = Outcome(worker[i])
    PROVE  \E o \in {"sent", "failed"}, d \in Never .. Backoff(MaxShift) :
              row' = Marked(worker[i].row, o, d)
  <1>1. /\ Backoff(worker[i].tried) \in Nat /\ Backoff(worker[i].tried) <= Backoff(MaxShift)
        /\ Backoff(MaxShift) \in Nat
    BY BackoffIs
  <1>2. PICK b \in Nat, c \in Nat : b = Backoff(worker[i].tried) /\ c = Backoff(MaxShift)
    BY <1>1
  <1>3. b \in Never .. c /\ 0 \in Never .. c /\ Never \in Never .. c
    BY <1>1, <1>2 DEF Never
  <1>4. \/ row' = Marked(worker[i].row, "sent", 0)
        \/ row' = Marked(worker[i].row, "failed", Never)
        \/ row' = Marked(worker[i].row, "failed", b)
    BY <1>2 DEF Outcome
  <1> QED
    BY <1>2, <1>3, <1>4

\* A record settles the row its worker has claimed, or puts it off.
LEMMA OutcomeMoves ==
    ASSUME RestInv, HolderInv, NEW i \in Instances, worker[i].pc = "record",
           outlived' = outlived,
           row' = IF row[worker[i].row].status # "erased" THEN Outcome(worker[i]) ELSE row
    PROVE  RowsMove
  <1>1. PICK r : r = worker[i].row
    OBVIOUS
  <1>2. /\ r \in Rows
        /\ r \notin outlived => row[r].status \in {"erased", "processing"}
    BY <1>1, HeldRow DEF Holding
  <1>3. row \in [Rows -> RowTypes] /\ worker[i] \in WorkerTypes
    BY TypeIs DEF RestInv
  <1>4. CASE row[r].status = "erased"
    <2>1. row' = row
      BY <1>1, <1>4
    <2> QED
      BY <2>1, RowsStay
  <1>5. CASE row[r].status # "erased"
    <2>1. Unfinished(r) \/ r \in outlived
      BY <1>2, <1>5 DEF Unfinished
    <2>2. row' = Outcome(worker[i])
      BY <1>1, <1>5
    <2>3. worker[i].tried \in Nat
      BY <1>3 DEF WorkerTypes
    <2>4. PICK o \in {"sent", "failed"}, d \in Never .. Backoff(MaxShift) : row' = Marked(r, o, d)
      BY <1>1, <2>2, <2>3, OutcomeIs
    <2>5. Shapes
      BY DEF HolderInv
    <2>6. /\ row'[r].status = o /\ row'[r].due = d /\ row'[r].locked = 0
          /\ row'[r].attempts = row[r].attempts
          /\ RowShape(row'[r])
          /\ \A q \in Rows : q # r => row'[q] = row[q]
          /\ row' = [q \in Rows |-> row'[q]]
      BY <1>2, <2>4, <2>5, MarkedRow
    <2>7. d \in Int /\ row[r].attempts \in Nat /\ 0 \in 0 .. Lease + 1
      BY <1>2, <1>3, BackoffIs, Waits DEF Never, RowTypes
    <2>8. row'[r] \in RowTypes
      <3>1. PICK v : v = row'[r]
        OBVIOUS
      <3>2. v = [status |-> o, due |-> d, locked |-> 0, attempts |-> row[r].attempts]
        BY <2>6, <3>1 DEF RowShape
      <3>3. v \in RowTypes
        BY <2>7, <3>2 DEF RowTypes
      <3> QED
        BY <3>1, <3>3
    <2>9. row' \in [Rows -> RowTypes]
      <3>1. \A q \in Rows : row'[q] \in RowTypes
        BY <1>3, <2>6, <2>8
      <3> QED
        BY <2>6, <3>1
    <2>10. \A q \in Rows : row'[q].due \in Never .. Backoff(MaxShift)
      BY <2>4, <2>6 DEF RestInv
    <2>11. \A q \in Rows : row[q].status # "none" =>
             row'[q].status # "none" /\ (Unfinished(q)' => Unfinished(q) \/ q \in outlived)
      BY <2>1, <2>4, <2>6 DEF Unfinished, Waiting
    <2> QED
      BY <2>9, <2>10, <2>11 DEF RowsMove
  <1> QED
    BY <1>4, <1>5

LEMMA RecordRests ==
    ASSUME RestInv, HolderInv, NEW i \in Instances, Record(i)
    PROVE  RestInv'
  <1>1. /\ worker[i] \in WorkerTypes /\ worker[i].retry = 0 /\ worker[i].tried \in Nat
        /\ accepted \in [Rows -> Nat] /\ excused \in [Rows -> Nat] /\ faults \in 0 .. MaxFaults
    BY TypeIs DEF RestInv, WorkerTypes
  <1>2. /\ worker[i].pc = "record"
        /\ row' = IF row[worker[i].row].status # "erased" THEN Outcome(worker[i]) ELSE row
        /\ UNCHANGED <<untold, told, accepted, excused, outlived, faults>>
    BY DEF Record
  <1>3. RowsMove
    BY <1>2, OutcomeMoves
  <1>4. 0 <= Backoff(MaxShift) /\ Backoff(worker[i].tried) \in Nat
        /\ Backoff(worker[i].tried) <= Backoff(MaxShift)
    BY <1>1, BackoffIs
  <1>5. \/ Return(i, TRUE, 0, FALSE) \/ Return(i, TRUE, 0, TRUE)
        \/ Return(i, TRUE, Backoff(worker[i].tried), TRUE)
    <2>1. PICK written \in BOOLEAN : written = (row[worker[i].row].status # "erased")
      OBVIOUS
    <2>2. CASE worker[i].result = "accepted"
      <3>1. Return(i, TRUE, 0, ~written)
        BY <2>1, <2>2 DEF Record
      <3> QED
        BY <3>1
    <2>3. CASE worker[i].result # "accepted"
      BY <2>1, <2>3 DEF Record
    <2> QED
      BY <2>2, <2>3
  <1>6. CASE Return(i, TRUE, 0, FALSE)
    <2>1. PICK n \in Nat : n = 0
      OBVIOUS
    <2>2. Return(i, TRUE, n, FALSE)
      BY <1>6, <2>1
    <2> QED
      BY <1>1, <1>2, <1>3, <2>1, <2>2, CallRests
  <1>7. CASE Return(i, TRUE, 0, TRUE)
    <2>1. PICK n \in Nat : n = 0
      OBVIOUS
    <2>2. Return(i, TRUE, n, TRUE) /\ n <= Backoff(MaxShift)
      BY <1>4, <1>7, <2>1
    <2> QED
      BY <1>1, <1>2, <1>3, <2>2, CallRests
  <1>8. CASE Return(i, TRUE, Backoff(worker[i].tried), TRUE)
    <2>1. PICK b \in Nat : b = Backoff(worker[i].tried)
      BY <1>4
    <2> QED
      BY <1>1, <1>2, <1>3, <1>4, <1>8, <2>1, CallRests
  <1> QED
    BY <1>5, <1>6, <1>7, <1>8

LEMMA ExcuseTyped ==
    ASSUME RestInv, NEW i \in Instances
    PROVE  Excuse(i) \in [Rows -> Nat]
  <1>1. excused \in [Rows -> Nat]
    BY TypeIs DEF RestInv
  <1>2. CASE worker[i].pc = "record" /\ worker[i].result = "accepted"
    <2>1. PICK q : q = worker[i].row
      OBVIOUS
    <2>2. Excuse(i) = [excused EXCEPT ![q] = excused[q] + 1]
      BY <1>2, <2>1 DEF Excuse
    <2>3. q \in Rows => excused[q] + 1 \in Nat
      BY <1>1
    <2> QED
      BY <1>1, <2>2, <2>3
  <1>3. CASE ~(worker[i].pc = "record" /\ worker[i].result = "accepted")
    BY <1>1, <1>3 DEF Excuse
  <1> QED
    BY <1>2, <1>3

LEMMA RecordFailsRests == ASSUME RestInv, NEW i \in Instances, RecordFails(i) PROVE RestInv'
  <1>1. accepted \in [Rows -> Nat]
    BY TypeIs DEF RestInv
  <1>2. /\ UNCHANGED <<row, untold, told, accepted, outlived>> /\ faults' \in 0 .. MaxFaults
        /\ Return(i, TRUE, 0, TRUE) /\ excused' \in [Rows -> Nat]
    BY FaultIs, ExcuseTyped DEF RecordFails
  <1>3. RowsMove
    BY <1>2, RowsStay
  <1>4. 0 <= Backoff(MaxShift)
    BY BackoffIs
  <1> QED
    BY <1>1, <1>2, <1>3, <1>4, CallRests

\* Whoever starts asks within a moment.
LEMMA StartRests ==
    ASSUME RestInv, NEW i \in Instances, NEW c \in {"down", "wait"},
           worker' = [worker EXCEPT ![i] = Fresh(c)], row' = row, outlived' = outlived,
           untold' \subseteq untold,
           told' \in [Instances -> SUBSET Rows],
           \A j \in Instances \ {i} : told'[j] = told[j], told'[i] \subseteq told[i],
           accepted' \in [Rows -> Nat], excused' \in [Rows -> Nat], faults' \in 0 .. MaxFaults
    PROVE  RestInv'
  <1>1. PICK v : v = Fresh(c)
    OBVIOUS
  <1>2. v \in WorkerTypes /\ v.timer = Busy /\ v.retry = 0
    BY <1>1, FreshTyped
  <1>3. worker' = [worker EXCEPT ![i] = v] /\ worker \in [Instances -> WorkerTypes]
        /\ told \in [Instances -> SUBSET Rows]
    BY <1>1, TypeIs DEF RestInv
  <1>4. RowsMove
    BY RowsStay
  <1>5. \A r \in told'[i] : row'[r].status # "none"
    BY <1>3 DEF RestInv
  <1>6. Rest(i)'
    <2> SUFFICES ASSUME NEW r \in told'[i], Unfinished(r)'
                 PROVE  /\ v.timer <= Longest(v)
                        /\ v.timer <= Max({Busy, DueIn(r)'})
      BY <1>3 DEF Rest
    <2>1. r \in Rows /\ row'[r] \in RowTypes
      BY <1>4 DEF RowsMove
    <2>2. DueIn(r)' \in Int
      BY <2>1, Waits DEF DueIn, RowTypes
    <2>3. v.timer <= Longest(v)
      BY <1>2, LongestIs
    <2>4. PICK d \in Int : d = DueIn(r)'
      BY <2>2
    <2>5. Busy \in Int
      BY Waits
    <2>6. Max({Busy, d}) >= Busy /\ Max({Busy, d}) \in {Busy, d}
      BY <2>5, LargerOfTwo
    <2>7. v.timer <= Max({Busy, d})
      BY <1>2, <2>5, <2>6
    <2> QED
      BY <2>3, <2>4, <2>7
  <1> QED
    BY <1>2, <1>3, <1>4, <1>5, <1>6, OneActs

LEMMA CrashRests == ASSUME RestInv, NEW i \in Instances, Crash(i) PROVE RestInv'
  <1>1. accepted \in [Rows -> Nat] /\ told \in [Instances -> SUBSET Rows]
    BY TypeIs DEF RestInv
  <1>2. /\ worker' = [worker EXCEPT ![i] = Fresh("down")] /\ row' = row /\ outlived' = outlived
        /\ untold' \subseteq untold /\ told' = [told EXCEPT ![i] = {}] /\ accepted' = accepted
        /\ excused' \in [Rows -> Nat] /\ faults' \in 0 .. MaxFaults
    BY FaultIs, ExcuseTyped DEF Crash
  <1>3. /\ told' \in [Instances -> SUBSET Rows] /\ told'[i] \subseteq told[i]
        /\ \A j \in Instances \ {i} : told'[j] = told[j]
    BY <1>1, <1>2
  <1> QED
    BY <1>1, <1>2, <1>3, StartRests

LEMMA RestartRests == ASSUME RestInv, NEW i \in Instances, Restart(i) PROVE RestInv'
  <1>1. /\ accepted \in [Rows -> Nat] /\ excused \in [Rows -> Nat] /\ faults \in 0 .. MaxFaults
        /\ told \in [Instances -> SUBSET Rows]
    BY TypeIs DEF RestInv
  <1>2. /\ worker' = [worker EXCEPT ![i] = Fresh("wait")]
        /\ UNCHANGED <<row, untold, told, accepted, excused, outlived, faults>>
    BY DEF Restart
  <1> QED
    BY <1>1, <1>2, StartRests

\* A step of no worker that moves one row.
LEMMA RowActs ==
    ASSUME RestInv, NEW r \in Rows, NEW v \in RowTypes, row' = [row EXCEPT ![r] = v],
           v.due \in Never .. Backoff(MaxShift), v.status # "none",
           v.status = "erased" \/ row[r].status = "none",
           UNCHANGED <<worker, told, accepted, excused, outlived, faults>>,
           untold' \subseteq Instances \X Rows,
           \A i \in Instances, q \in Rows : <<i, q>> \in untold' => <<i, q>> \in untold \/ q = r
    PROVE  RestInv'
  <1>1. /\ row \in [Rows -> RowTypes] /\ worker \in [Instances -> WorkerTypes]
        /\ told \in [Instances -> SUBSET Rows]
    BY TypeIs DEF RestInv
  <1>2. row' \in [Rows -> RowTypes] /\ row'[r] = v /\ \A q \in Rows \ {r} : row'[q] = row[q]
    BY <1>1
  <1>3. TypeOK'
    <2>1. /\ untold' \subseteq Instances \X Rows /\ faults \in 0 .. MaxFaults
          /\ outlived \subseteq Rows /\ accepted \in [Rows -> Nat] /\ excused \in [Rows -> Nat]
      BY TypeIs DEF RestInv
    <2> QED
      BY <1>1, <1>2, <2>1 DEF TypeOK, RowTypes, WorkerTypes
  <1>4. \A q \in Rows : row[q].status # "none" => row'[q].status # "none"
    BY <1>2
  <1>5. \A q \in Rows : row[q].status # "none" /\ Unfinished(q)' => row'[q] = row[q] /\ Unfinished(q)
    BY <1>2 DEF Unfinished, Waiting
  <1>6. \A i \in Instances : \A q \in told[i] : q \in Rows /\ row[q].status # "none"
    BY <1>1 DEF RestInv
  <1>7. \A i \in Instances : Rest(i)'
    <2> SUFFICES ASSUME NEW i \in Instances PROVE Rest(i)'
      OBVIOUS
    <2>1. \A q \in told[i] : Unfinished(q)' => row'[q] = row[q] /\ Unfinished(q)
      BY <1>5, <1>6
    <2> QED
      BY <2>1, SleepOn
  <1>8. \A q \in Rows : row'[q].due \in Never .. Backoff(MaxShift)
    BY <1>2 DEF RestInv
  <1>9. \A i \in Instances, q \in Rows : <<i, q>> \in untold' => row'[q].status # "none"
    BY <1>2, <1>4 DEF RestInv
  <1>10. \A i \in Instances : \A q \in told'[i] : row'[q].status # "none"
    BY <1>4, <1>6
  <1> QED
    BY <1>3, <1>7, <1>8, <1>9, <1>10 DEF RestInv

LEMMA EnqueueRests ==
    ASSUME RestInv, NEW i \in Instances, NEW r \in Rows, Enqueue(i, r)
    PROVE  RestInv'
  <1>1. row \in [Rows -> RowTypes] /\ row[r] \in RowTypes /\ untold \subseteq Instances \X Rows
    BY TypeIs DEF RestInv
  <1>2. PICK v : v = [row[r] EXCEPT !.status = "pending"]
    OBVIOUS
  <1>3. v \in RowTypes /\ v.status = "pending" /\ v.due = row[r].due
    BY <1>1, <1>2 DEF RowTypes
  <1>4. /\ row' = [row EXCEPT ![r] = v] /\ row[r].status = "none"
        /\ untold' = untold \union {<<i, r>>}
        /\ UNCHANGED <<worker, told, accepted, excused, outlived, faults>>
    BY <1>2 DEF Enqueue
  <1>5. v.due \in Never .. Backoff(MaxShift)
    BY <1>3 DEF RestInv
  <1>6. untold' \subseteq Instances \X Rows
        /\ \A j \in Instances, q \in Rows : <<j, q>> \in untold' => <<j, q>> \in untold \/ q = r
    BY <1>1, <1>4
  <1> QED
    BY <1>3, <1>4, <1>5, <1>6, RowActs

LEMMA EraseRests == ASSUME RestInv, NEW r \in Rows, Erase(r) PROVE RestInv'
  <1>1. PICK v : v = Bare("erased", 0)
    OBVIOUS
  <1>2. v \in RowTypes /\ v.status = "erased" /\ v.due = 0
    BY <1>1, BareTyped
  <1>3. /\ row' = [row EXCEPT ![r] = v]
        /\ UNCHANGED <<worker, untold, told, accepted, excused, outlived, faults>>
    BY <1>1 DEF Erase
  <1>4. v.due \in Never .. Backoff(MaxShift)
    BY <1>2, BackoffIs DEF Never
  <1>5. untold' \subseteq Instances \X Rows
    BY <1>3, TypeIs DEF RestInv
  <1> QED
    BY <1>2, <1>3, <1>4, <1>5, RowActs

\* A tick: what is owed comes nearer, by as much as who waits for it.
LEMMA OlderIs ==
    ASSUME NEW r \in RowTypes, r.due \in Never .. Backoff(MaxShift)
    PROVE  /\ Older(r) \in RowTypes /\ Older(r).status = r.status
           /\ Older(r).due \in Never .. Backoff(MaxShift)
           /\ Older(r).due = Never <=> r.due = Never
           /\ r.due - 1 <= Older(r).due
           /\ Lease - r.locked - 1 <= Lease - Older(r).locked
  <1>1. PICK d : d = IF r.status \in {"pending", "failed", "processing"}
                        /\ r.due # Never /\ r.due > Overdue THEN r.due - 1 ELSE r.due
    OBVIOUS
  <1>2. PICK k : k = IF r.status = "processing" /\ r.locked <= Lease
                     THEN r.locked + 1 ELSE r.locked
    OBVIOUS
  <1>3. r.due \in Int /\ r.locked \in 0 .. Lease + 1 /\ r.attempts \in Nat
        /\ r.status \in {"none", "pending", "processing", "sent", "failed", "erased"}
    BY DEF RowTypes
  <1>4. Backoff(MaxShift) \in Nat /\ Lease \in Nat
    BY BackoffIs, Waits
  <1>5. k \in 0 .. Lease + 1 /\ k <= r.locked + 1
    BY <1>2, <1>3, <1>4
  <1>6. d \in Never .. Backoff(MaxShift) /\ (d = Never <=> r.due = Never) /\ r.due - 1 <= d
        /\ d \in Int
    BY <1>1, <1>3, <1>4 DEF Never, Overdue
  <1>7. PICK v : v = Older(r)
    OBVIOUS
  <1>8. v = [r EXCEPT !.due = d, !.locked = k]
    BY <1>1, <1>2, <1>7 DEF Older
  <1>9. v = [status |-> r.status, due |-> d, locked |-> k, attempts |-> r.attempts]
    BY <1>8 DEF RowTypes
  <1>10. v \in RowTypes
    BY <1>3, <1>5, <1>6, <1>9 DEF RowTypes
  <1>11. v.status = r.status /\ v.due = d /\ v.locked = k
    BY <1>9
  <1>12. Lease - r.locked - 1 <= Lease - k
    BY <1>3, <1>4, <1>5
  <1> QED
    BY <1>6, <1>7, <1>10, <1>11, <1>12

LEMMA LaterIs ==
    ASSUME NEW w \in WorkerTypes
    PROVE  /\ Later(w) \in WorkerTypes /\ Later(w).pc = w.pc /\ Later(w).wake = w.wake
           /\ Later(w).retry = w.retry /\ Later(w).failures = w.failures
           /\ w.pc = "wait" => Later(w).timer = IF w.timer > 0 THEN w.timer - 1 ELSE 0
  <1>1. PICK t : t = IF w.pc = "wait" /\ w.timer > 0 THEN w.timer - 1 ELSE w.timer
    OBVIOUS
  <1>2. PICK l : l = IF w.pc # "down" /\ w.looked # Unseen /\ w.looked < Piggyback
                     THEN w.looked + 1 ELSE w.looked
    OBVIOUS
  <1>3. PICK h : h = IF w.pc \in {"deliver", "record"} /\ w.held <= Lease
                     THEN w.held + 1 ELSE w.held
    OBVIOUS
  <1>4. w.timer \in Nat /\ w.looked \in Unseen .. Piggyback /\ w.held \in 0 .. Lease + 1
    BY DEF WorkerTypes
  <1>5. t \in Nat
    BY <1>1, <1>4
  <1>6. l \in Unseen .. Piggyback
    BY <1>2, <1>4, Waits DEF Unseen
  <1>7. h \in 0 .. Lease + 1
    BY <1>3, <1>4, Waits
  <1>8. PICK v : v = Later(w)
    OBVIOUS
  <1>9. v = [w EXCEPT !.timer = t, !.looked = l, !.held = h]
    BY <1>1, <1>2, <1>3, <1>8 DEF Later
  <1>10. v = [pc |-> w.pc, timer |-> t, wake |-> w.wake, looked |-> l, turn |-> w.turn,
              retry |-> w.retry, sent |-> w.sent, failures |-> w.failures, row |-> w.row,
              tried |-> w.tried, result |-> w.result, held |-> h]
    BY <1>9 DEF WorkerTypes
  <1>11. v \in WorkerTypes
    BY <1>5, <1>6, <1>7, <1>10 DEF WorkerTypes
  <1>12. v.pc = w.pc /\ v.wake = w.wake /\ v.retry = w.retry /\ v.failures = w.failures
         /\ v.timer = t
    BY <1>10
  <1> QED
    BY <1>1, <1>4, <1>8, <1>11, <1>12

LEMMA TickRests == ASSUME RestInv, HolderInv, Tick PROVE RestInv'
  <1>1. /\ row \in [Rows -> RowTypes] /\ worker \in [Instances -> WorkerTypes]
        /\ told \in [Instances -> SUBSET Rows]
    BY TypeIs DEF RestInv
  <1>2. /\ row' = [r \in Rows |-> Older(row[r])]
        /\ worker' = [i \in Instances |-> Later(worker[i])]
        /\ UNCHANGED <<untold, told, accepted, excused>> /\ outlived \subseteq outlived'
    BY DEF Tick
  <1>a. faults' \in 0 .. MaxFaults
    <2>1. Fault("stall") \/ faults' = faults
      BY DEF Tick
    <2>2. faults \in 0 .. MaxFaults
      BY TypeIs DEF RestInv
    <2> QED
      BY <2>1, <2>2, FaultIs
  <1>b. outlived' \subseteq Rows
    <2>1. outlived \subseteq Rows
      BY TypeIs DEF RestInv
    <2>2. \A i \in Instances : Overdrawn(i) => worker[i].row \in Rows
      BY HeldRow DEF Overdrawn
    <2> QED
      BY <2>1, <2>2 DEF Tick
  <1>3. \A r \in Rows :
          /\ row'[r] \in RowTypes /\ row'[r].status = row[r].status
          /\ row'[r].due \in Never .. Backoff(MaxShift)
          /\ row'[r].due = Never <=> row[r].due = Never
          /\ row[r].due - 1 <= row'[r].due
          /\ Lease - row[r].locked - 1 <= Lease - row'[r].locked
    BY <1>1, <1>2, OlderIs DEF RestInv
  <1>4. \A i \in Instances :
          /\ worker'[i] \in WorkerTypes /\ worker'[i].pc = worker[i].pc
          /\ worker'[i].wake = worker[i].wake
          /\ worker'[i].retry = worker[i].retry /\ worker'[i].failures = worker[i].failures
          /\ worker[i].pc = "wait" =>
               worker'[i].timer = IF worker[i].timer > 0 THEN worker[i].timer - 1 ELSE 0
    BY <1>1, <1>2, LaterIs
  <1>5. row' \in [Rows -> RowTypes] /\ worker' \in [Instances -> WorkerTypes]
    BY <1>2, <1>3, <1>4
  <1>6. TypeOK'
    <2>1. /\ untold \subseteq Instances \X Rows
          /\ accepted \in [Rows -> Nat] /\ excused \in [Rows -> Nat]
      BY TypeIs DEF RestInv
    <2> QED
      BY <1>1, <1>2, <1>a, <1>b, <1>5, <2>1 DEF TypeOK, RowTypes, WorkerTypes
  <1>7. \A r \in Rows : Unfinished(r)' = Unfinished(r)
    BY <1>3 DEF Unfinished, Waiting
  <1>8. ASSUME NEW r \in Rows, Unfinished(r)
        PROVE  DueIn(r) - 1 <= DueIn(r)' /\ DueIn(r) \in Int /\ DueIn(r)' \in Int
    <2>1. /\ row[r].due \in Int /\ row[r].locked \in Nat /\ row'[r].due \in Int
          /\ row'[r].locked \in Nat /\ Lease \in Nat
      BY <1>1, <1>3, Waits DEF RowTypes
    <2> QED
      BY <1>3, <2>1 DEF DueIn
  <1>9. ASSUME NEW i \in Instances
        PROVE  Rest(i)'
    <2> SUFFICES ASSUME Asleep(i), NEW r \in told[i], Unfinished(r)
                 PROVE  /\ r \notin outlived' => worker'[i].timer <= Longest(worker'[i])
                        /\ Instances = {i} /\ worker[i].failures = 0
                               => worker'[i].timer <= Max({Busy, DueIn(r)'})
      BY <1>1, <1>2, <1>4, <1>7 DEF Rest, Asleep
    <2>1. r \in Rows /\ worker[i].timer \in Nat /\ worker[i] \in WorkerTypes
          /\ worker'[i].timer \in Nat /\ worker'[i].timer <= worker[i].timer
          /\ worker'[i].timer = IF worker[i].timer > 0 THEN worker[i].timer - 1 ELSE 0
      BY <1>1, <1>4 DEF Asleep, WorkerTypes
    <2>2. /\ r \notin outlived => worker[i].timer <= Longest(worker[i])
          /\ Instances = {i} /\ worker[i].failures = 0
               => worker[i].timer <= Max({Busy, DueIn(r)})
      BY DEF RestInv, Rest
    <2>3. Longest(worker'[i]) = Longest(worker[i]) /\ Longest(worker[i]) \in Int
      BY <1>4, <2>1, LongestIs DEF Longest
    <2>4. r \notin outlived' => worker'[i].timer <= Longest(worker'[i])
      BY <1>2, <2>1, <2>2, <2>3
    <2>5. DueIn(r) - 1 <= DueIn(r)' /\ DueIn(r) \in Int /\ DueIn(r)' \in Int
      BY <1>8, <2>1
    <2>6. /\ Max({Busy, DueIn(r)}) \in {Busy, DueIn(r)}
          /\ Max({Busy, DueIn(r)'}) \in Int
          /\ Max({Busy, DueIn(r)'}) >= Busy /\ Max({Busy, DueIn(r)'}) >= DueIn(r)'
          /\ Busy \in Nat
      <3>1. PICK d \in Int, e \in Int : d = DueIn(r) /\ e = DueIn(r)'
        BY <2>5
      <3>2. Busy \in Nat /\ Busy \in Int
        BY Waits
      <3>3. /\ Max({Busy, d}) \in {Busy, d} /\ Max({Busy, e}) \in {Busy, e}
            /\ Max({Busy, e}) >= Busy /\ Max({Busy, e}) >= e
        BY <3>2, LargerOfTwo
      <3> QED
        BY <3>1, <3>2, <3>3
    <2>7. ASSUME Instances = {i}, worker[i].failures = 0
          PROVE  worker'[i].timer <= Max({Busy, DueIn(r)'})
      BY <2>1, <2>2, <2>5, <2>6, <2>7
    <2> QED
      BY <2>4, <2>7
  <1> QED
    BY <1>1, <1>2, <1>3, <1>4, <1>6, <1>9 DEF RestInv

LEMMA InitRests == Init => RestInv
  <1> SUFFICES ASSUME Init PROVE RestInv
    OBVIOUS
  <1>1. PICK f : f = Fresh("wait")
    OBVIOUS
  <1>2. PICK b : b = Bare("none", 0)
    OBVIOUS
  <1>3. f \in WorkerTypes /\ f.retry = 0 /\ b \in RowTypes /\ b.due = 0
    BY <1>1, <1>2, FreshTyped, BareTyped
  <1>4. /\ row = [r \in Rows |-> b] /\ worker = [i \in Instances |-> f]
        /\ untold = {} /\ told = [i \in Instances |-> {}]
        /\ accepted = [r \in Rows |-> 0] /\ excused = [r \in Rows |-> 0]
        /\ outlived = {} /\ faults = 0
    BY <1>1, <1>2 DEF Init
  <1>5. MaxFaults \in Nat /\ Backoff(MaxShift) \in Nat
    BY TimesAssumption, BackoffIs
  <1>6. TypeOK
    BY <1>3, <1>4, <1>5, TypeIs
  <1>7. 0 \in Never .. Backoff(MaxShift)
    BY <1>5 DEF Never
  <1> QED
    BY <1>3, <1>4, <1>6, <1>7 DEF RestInv, Rest

LEMMA RestStep == HolderInv /\ RestInv /\ [Next]_vars => RestInv'
  <1> SUFFICES ASSUME HolderInv, RestInv, [Next]_vars PROVE RestInv'
    OBVIOUS
  <1>1. CASE UNCHANGED vars
    BY <1>1 DEF vars, RestInv, TypeOK, Rest, Asleep, Unfinished, Waiting, DueIn
  <1>2. CASE Next
    BY <1>2, NotifyRests, InUseRests, BeginRests, AskRests, ClaimRests, DatabaseFailsRests,
       DeliverRests, RecordRests, RecordFailsRests, CrashRests, RestartRests, EnqueueRests,
       EraseRests, TickRests DEF Next
  <1> QED
    BY <1>1, <1>2

LEMMA Rested == Spec => [](HolderInv /\ RestInv)
  BY InitHolder, HolderStep, InitRests, RestStep, PTL DEF Spec

\* A worker that knows of an unfinished row never waits longer than for a
\* lease, a retry or its failed rounds, unless a worker has outlived its lease
\* on that row, for any number of instances, rows, faults and erasures; every
\* variable has its type.
THEOREM NoRowIsForgottenHolds == Spec => []NoRowIsForgotten
  BY Rested, RestSaysIt, PTL

\* An instance alone, whose last round did not fail, is awake by the time the
\* first row it knows of can be claimed.
THEOREM RetryIsWaitedForHolds == Spec => []RetryIsWaitedFor
  BY Rested, RestSaysIt, PTL
=============================================================================
