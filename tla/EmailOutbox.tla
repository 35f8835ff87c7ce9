---------------------------- MODULE EmailOutbox ----------------------------
(***************************************************************************)
(* The mail outbox: a table of messages written in the transaction of the  *)
(* request that wants them sent (internal/auth, internal/feedback), and    *)
(* the worker of every instance that drains it (internal/email Worker).    *)
(*                                                                         *)
(* A row is claimed in a transaction of its own and delivered outside any, *)
(* so what keeps two workers off one row is a lease: a claimed row may be  *)
(* taken over only once its claim is Lease old.  Time is relative: every   *)
(* age and every wait is counted in ticks from now, so no clock grows.     *)
(***************************************************************************)
EXTENDS Integers, FiniteSets, FiniteSetsExt

CONSTANTS
    Rows,         \* the messages requests want sent
    Instances,    \* the API processes, one worker each
    Lease,        \* age at which a claim may be taken over (5 minutes)
    SendLimit,    \* the provider's time (10 s), and all that a delivery takes
                  \* unless a fault stalls it
    Minute,       \* unit of the retry backoff
    MaxShift,     \* largest exponent of the backoff (8)
    MaxAttempts,  \* deliveries after which a row is given up (10)
    Round,        \* rows one wake-up takes at most (10)
    Busy,         \* emailPollBusy
    Idle,         \* emailPollIdle
    Piggyback,    \* emailPollPiggyback
    NoRow,        \* what a worker holds when it holds none
    FaultKinds,   \* which of "crash", "db", "provider", "stall" may happen
    MaxErased,    \* bound: how many rows are erased in a behaviour
    MaxFaults     \* bound: how many of them in a behaviour

ASSUME TimesAssumption ==
    /\ {Lease, SendLimit, Minute, Busy, Idle, Piggyback} \subseteq Nat \ {0}
    /\ SendLimit < Lease
    /\ NoRow \notin Rows
    /\ MaxShift \in Nat /\ MaxAttempts \in Nat \ {0} /\ Round \in Nat \ {0}
    /\ FaultKinds \subseteq {"crash", "db", "provider", "stall"}
    /\ {MaxFaults, MaxErased} \subseteq Nat

VARIABLES
    row,       \* the table: email_outbox
    worker,    \* the workers' goroutines
    untold,    \* rows committed whose writer has not called Notify yet
    told,      \* history: rows an instance was told of, or found at a look
    accepted,  \* history: times the provider took the message
    excused,   \* history: faults that hid from the outbox that it did
    outlived,  \* history: rows a worker has held for longer than its lease
    faults     \* bound: faults so far

vars == <<row, worker, untold, told, accepted, excused, outlived, faults>>

Overdue == -1            \* bound: due before now, however long ago
Never == -2              \* available_at = 'infinity'
Unseen == -1             \* lastPoll = 0: this process has not looked yet

\* 1 << n, and what the loop of nextPoll multiplies its wait by in n turns.
Doubled[n \in Nat] == IF n = 0 THEN 1 ELSE 2 * Doubled[n - 1]

Backoff(n) == Minute * Doubled[IF n < MaxShift THEN n ELSE MaxShift]

(***************************************************************************)
(* The table                                                               *)
(***************************************************************************)
GivenUp(r) == row[r].status = "failed" /\ row[r].due = Never
Waiting(r) == row[r].status \in {"pending", "failed"} /\ row[r].due # Never

Unfinished(r) == Waiting(r) \/ row[r].status = "processing"

\* How long until the row can be claimed, as the look computes it.
DueIn(r) == IF row[r].status = "processing" THEN Lease - row[r].locked
                                            ELSE row[r].due

\* Mutant form: a claimed row may be taken at once, without its lease.
ClaimableWithoutLease(r) ==
    \/ Waiting(r) /\ row[r].due <= 0
    \/ row[r].status = "processing"

\* Mutant form: a claim nobody finished is not taken over.
ClaimableOnce(r) == Waiting(r) /\ row[r].due <= 0

\* The WHERE of the claim.  A claim is taken over only when older than the
\* lease: at exactly that age the look finds it and the claim does not.
Claimable(r) ==
    \/ Waiting(r) /\ row[r].due <= 0
    \/ row[r].status = "processing" /\ row[r].locked > Lease

\* ORDER BY available_at: a claimed row keeps the one it was claimed with.
Foremost(r) == Claimable(r) /\ \A q \in Rows : Claimable(q) => row[r].due <= row[q].due

\* A row whose other columns nothing reads.
Bare(status, due) == [status |-> status, due |-> due, locked |-> 0, attempts |-> 0]

\* A goroutine that has just started, or none.
Fresh(pc) == [pc |-> pc, timer |-> Busy, wake |-> FALSE, looked |-> Unseen,
          turn |-> 0, retry |-> 0, sent |-> FALSE, failures |-> 0,
          row |-> NoRow, tried |-> 0, result |-> "none",
          held |-> 0]

Init ==
    /\ row = [r \in Rows |-> Bare("none", 0)]
    /\ worker = [i \in Instances |-> Fresh("wait")]
    /\ untold = {}
    /\ told = [i \in Instances |-> {}]
    /\ accepted = [r \in Rows |-> 0]
    /\ excused = [r \in Rows |-> 0]
    /\ outlived = {} /\ faults = 0

Running(i) == worker[i].pc # "down"
Holding(i) == worker[i].pc \in {"deliver", "record"}

\* Consumes one of the behaviour's faults.
Fault(kind) == kind \in FaultKinds /\ faults < MaxFaults /\ faults' = faults + 1

(***************************************************************************)
(* Writers                                                                 *)
(***************************************************************************)
\* RequestCode, a first sign-in and Submit commit a row with their own
\* transaction, on the instance that serves the request.
Enqueue(i, r) ==
    /\ Running(i) /\ row[r].status = "none"
    /\ row' = [row EXCEPT ![r].status = "pending"]
    /\ untold' = untold \union {<<i, r>>}
    /\ UNCHANGED <<worker, told, accepted, excused, outlived, faults>>

\* ... and call Notify after the commit: a non-blocking send on a channel
\* that holds one nudge.
Notify(i, r) ==
    /\ <<i, r>> \in untold
    /\ untold' = untold \ {<<i, r>>}
    /\ worker' = [worker EXCEPT ![i].wake = TRUE]
    /\ told' = [told EXCEPT ![i] = @ \union {r}]
    /\ UNCHANGED <<row, accepted, excused, outlived, faults>>

\* DatabaseInUse, when this process has an answer for some other reason.
DatabaseInUse(i) ==
    /\ Running(i) /\ ~worker[i].wake
    /\ worker[i].looked = Piggyback
    /\ worker' = [worker EXCEPT ![i].wake = TRUE]
    /\ UNCHANGED <<row, untold, told, accepted, excused, outlived, faults>>

\* DeleteAccount removes the rows of the address whatever their status; the
\* retention sweep removes old rows that are sent or failed.
Erase(r) ==
    /\ row[r].status \notin {"none", "erased"}
    /\ Cardinality({q \in Rows : row[q].status = "erased"}) < MaxErased
    /\ row' = [row EXCEPT ![r] = Bare("erased", 0)]
    /\ UNCHANGED <<worker, untold, told, accepted, excused, outlived, faults>>

(***************************************************************************)
(* Run: one wake-up is a round of at most Round calls of once              *)
(***************************************************************************)
\* Mutant form: a round that failed waits like an empty one.
NextPollAfterFailure(due, sent, failures) ==
    IF due > 0 THEN due ELSE IF sent THEN Busy ELSE Idle

NextPoll(due, sent, failures) ==
    IF due > 0 THEN due
    ELSE IF sent THEN Busy
    ELSE IF failures > 0 THEN Min({Busy * Doubled[failures - 1], Idle})
    ELSE Idle

Begin(i) ==
    /\ worker[i].pc = "wait" /\ (worker[i].wake \/ worker[i].timer = 0)
    /\ worker' = [worker EXCEPT ![i] = [@ EXCEPT !.pc = "ask", !.wake = FALSE,
                                                  !.timer = 0, !.looked = 0, !.turn = 0,
                                                  !.retry = 0, !.sent = FALSE]]
    /\ UNCHANGED <<row, untold, told, accepted, excused, outlived, faults>>

\* The worker after a call of once that returned (ok, retryIn, err).
After(w, ok, retryIn, err) ==
    LET due == IF retryIn > 0 /\ (w.retry = 0 \/ retryIn < w.retry)
               THEN retryIn ELSE w.retry
        sent == w.sent \/ (ok /\ ~err)
        failures == IF err THEN w.failures + 1 ELSE 0
        over == err \/ ~ok \/ w.turn + 1 = Round
    IN  IF over
        THEN [w EXCEPT !.pc = "wait", !.timer = NextPoll(due, sent, failures),
                       !.failures = failures, !.turn = 0, !.retry = 0,
                       !.sent = FALSE, !.row = NoRow, !.tried = 0,
                       !.result = "none", !.held = 0]
        ELSE [w EXCEPT !.pc = "ask", !.turn = @ + 1, !.retry = due, !.sent = sent,
                       !.row = NoRow, !.tried = 0, !.result = "none", !.held = 0]

Return(i, ok, retryIn, err) ==
    worker' = [worker EXCEPT ![i] = After(@, ok, retryIn, err)]

\* Mutant form: an outbox with nothing due yet is taken for an empty one.
AskForgetsRetries(i) ==
    LET open == {r \in Rows : Unfinished(r)} IN
    /\ worker[i].pc = "ask"
    /\ IF \E r \in open : DueIn(r) <= 0
       THEN worker' = [worker EXCEPT ![i].pc = "claim"]
       ELSE Return(i, FALSE, 0, FALSE)
    /\ told' = [told EXCEPT ![i] = @ \union open]
    /\ UNCHANGED <<row, untold, accepted, excused, outlived, faults>>

\* The look: one statement, outside any transaction.
Ask(i) ==
    LET open == {r \in Rows : Unfinished(r)}
        next == Min({DueIn(r) : r \in open})
    IN  /\ worker[i].pc = "ask"
        /\ CASE open = {} -> Return(i, FALSE, 0, FALSE)
             [] open # {} /\ next > 0 -> Return(i, FALSE, next, FALSE)
             [] OTHER -> worker' = [worker EXCEPT ![i].pc = "claim"]
        /\ told' = [told EXCEPT ![i] = @ \union open]
        /\ UNCHANGED <<row, untold, accepted, excused, outlived, faults>>

Take(r) == [row EXCEPT ![r] = [@ EXCEPT !.status = "processing", !.locked = 0,
                                        !.attempts = row[r].attempts + 1]]

\* The claim: SELECT ... FOR UPDATE SKIP LOCKED, UPDATE and commit.
Claim(i) ==
    /\ worker[i].pc = "claim"
    /\ \/ /\ \A r \in Rows : ~Claimable(r)
          /\ Return(i, FALSE, Busy, FALSE)
          /\ UNCHANGED row
       \/ \E r \in Rows :
            /\ Foremost(r)
            /\ row' = Take(r)
            /\ worker' = [worker EXCEPT ![i] = [@ EXCEPT !.pc = "deliver", !.row = r,
                                        !.tried = row[r].attempts, !.held = 0]]
    /\ UNCHANGED <<untold, told, accepted, excused, outlived, faults>>

\* The database fails the look or the claim.  A commit whose answer is lost
\* has happened: the row is claimed, and nobody delivers it.
DatabaseFails(i) ==
    /\ worker[i].pc \in {"ask", "claim"} /\ Fault("db")
    /\ \/ UNCHANGED row
       \/ worker[i].pc = "claim" /\ \E r \in Rows : Foremost(r) /\ row' = Take(r)
    /\ Return(i, FALSE, 0, TRUE)
    /\ UNCHANGED <<untold, told, accepted, excused, outlived>>

\* render and Send.  The provider takes the message, or refuses it for now or
\* for good (so does a message that cannot be rendered); it may take it and
\* its answer be lost, which the worker sees as a transient failure.
Deliver(i) ==
    LET r == worker[i].row IN
    /\ worker[i].pc = "deliver"
    /\ \E result \in {"accepted", "transient", "permanent"}, taken \in BOOLEAN :
         /\ result = "accepted" => taken
         /\ result = "permanent" => ~taken
         /\ IF result = "accepted" THEN UNCHANGED faults ELSE Fault("provider")
         /\ worker' = [worker EXCEPT ![i] = [@ EXCEPT !.pc = "record", !.result = result]]
         /\ accepted' = [accepted EXCEPT ![r] = @ + (IF taken THEN 1 ELSE 0)]
         /\ excused' = [excused EXCEPT ![r] =
                          @ + (IF taken /\ result # "accepted" THEN 1 ELSE 0)]
    /\ UNCHANGED <<row, untold, told, outlived>>

\* The UPDATE that records the outcome: by id, whatever the row has become,
\* another worker's claim or another's record included.
Marked(r, status, due) == [row EXCEPT ![r] = [@ EXCEPT !.status = status, !.locked = 0,
                                                       !.due = due]]

GiveUp(w) == w.result = "permanent" \/ w.tried + 1 >= MaxAttempts

\* Mutant form: the limit on attempts is looked at before the result.
OutcomeLimitFirst(w) ==
    IF GiveUp(w) THEN Marked(w.row, "failed", Never)
    ELSE IF w.result = "accepted" THEN Marked(w.row, "sent", 0)
    ELSE Marked(w.row, "failed", Backoff(w.tried))

Outcome(w) ==
    IF w.result = "accepted" THEN Marked(w.row, "sent", 0)
    ELSE IF GiveUp(w) THEN Marked(w.row, "failed", Never)
    ELSE Marked(w.row, "failed", Backoff(w.tried))

\* A delivery that failed returns its error to Run even when it was recorded,
\* so the round ends there.  The row of an erased account cannot be recorded:
\* email_deliveries refers to it.
Record(i) ==
    LET w == worker[i]
        written == row[w.row].status # "erased"
    IN  /\ w.pc = "record"
        /\ row' = IF written THEN Outcome(w) ELSE row
        /\ CASE w.result = "accepted" -> Return(i, TRUE, 0, ~written)
             [] w.result # "accepted" /\ (~written \/ GiveUp(w)) -> Return(i, TRUE, 0, TRUE)
             [] OTHER -> Return(i, TRUE, Backoff(w.tried), TRUE)
        /\ UNCHANGED <<untold, told, accepted, excused, outlived, faults>>

\* What a lost acceptance leaves behind: the row still looks undelivered.
Excuse(i) == IF worker[i].pc = "record" /\ worker[i].result = "accepted"
             THEN [excused EXCEPT ![worker[i].row] = @ + 1] ELSE excused

\* The record is refused: the row stays claimed until its lease runs out.
RecordFails(i) ==
    /\ worker[i].pc = "record" /\ Fault("db")
    /\ Return(i, TRUE, 0, TRUE)
    /\ excused' = Excuse(i)
    /\ UNCHANGED <<row, untold, told, accepted, outlived>>

(***************************************************************************)
(* Processes and time                                                      *)
(***************************************************************************)
\* An instance dies or is stopped: main waits for the HTTP server, not for
\* the worker.  What its writers had not told it is told to nobody.
Crash(i) ==
    /\ Running(i) /\ Fault("crash")
    /\ worker' = [worker EXCEPT ![i] = Fresh("down")]
    /\ untold' = {n \in untold : n[1] # i}
    /\ told' = [told EXCEPT ![i] = {}]
    /\ excused' = Excuse(i)
    /\ UNCHANGED <<row, accepted, outlived>>

Restart(i) ==
    /\ worker[i].pc = "down"
    /\ worker' = [worker EXCEPT ![i] = Fresh("wait")]
    /\ UNCHANGED <<row, untold, told, accepted, excused, outlived, faults>>

Older(r) ==
    [r EXCEPT !.due = IF r.status \in {"pending", "failed", "processing"}
                         /\ @ # Never /\ @ > Overdue THEN @ - 1 ELSE @,
              !.locked = IF r.status = "processing" /\ @ <= Lease THEN @ + 1 ELSE @]

Later(w) ==
    [w EXCEPT !.timer = IF w.pc = "wait" /\ @ > 0 THEN @ - 1 ELSE @,
              !.looked = IF w.pc # "down" /\ @ # Unseen /\ @ < Piggyback
                         THEN @ + 1 ELSE @,
              !.held = IF w.pc \in {"deliver", "record"} /\ @ <= Lease THEN @ + 1 ELSE @]

Overdrawn(i) == Holding(i) /\ worker[i].held >= Lease

\* Send is cut off by its own timeout.  The statements that record what came of
\* it have none, and the process may stop in between: a worker that is stalled
\* beyond SendLimit stays so for any time, its lease or longer.
Tick ==
    /\ row' = [r \in Rows |-> Older(row[r])]
    /\ worker' = [i \in Instances |-> Later(worker[i])]
    /\ outlived' = outlived \union {worker[i].row : i \in {j \in Instances : Overdrawn(j)}}
    /\ IF \E i \in Instances : Holding(i) /\ worker[i].held = SendLimit
       THEN Fault("stall") ELSE UNCHANGED faults
    /\ UNCHANGED <<untold, told, accepted, excused>>

Next ==
    \/ \E i \in Instances, r \in Rows : Enqueue(i, r) \/ Notify(i, r)
    \/ \E r \in Rows : Erase(r)
    \/ \E i \in Instances :
         \/ DatabaseInUse(i) \/ Begin(i) \/ Ask(i) \/ Claim(i)
         \/ DatabaseFails(i) \/ Deliver(i) \/ Record(i) \/ RecordFails(i)
         \/ Crash(i) \/ Restart(i)
    \/ Tick

Spec == Init /\ [][Next]_vars

\* The goroutines run, the platform starts an instance again, time passes.
\* Nobody is obliged to write, to use the database or to erase; no fault is.
FairSpec ==
    /\ Spec
    /\ WF_vars(Tick)
    /\ \A i \in Instances :
         /\ WF_vars(Begin(i)) /\ WF_vars(Ask(i)) /\ WF_vars(Claim(i))
         /\ WF_vars(Deliver(i)) /\ WF_vars(Record(i)) /\ WF_vars(Restart(i))

(***************************************************************************)
(* What the outbox promises                                                *)
(***************************************************************************)
TypeOK ==
    /\ row \in [Rows -> [status : {"none", "pending", "processing", "sent",
                                   "failed", "erased"},
                         due : Int, locked : 0 .. Lease + 1, attempts : Nat]]
    /\ worker \in [Instances ->
         [pc : {"down", "wait", "ask", "claim", "deliver", "record"},
          timer : Nat, wake : BOOLEAN, looked : Unseen .. Piggyback,
          turn : 0 .. Round - 1, retry : Nat, sent : BOOLEAN, failures : Nat,
          row : Rows \union {NoRow}, tried : Nat,
          result : {"none", "accepted", "transient", "permanent"},
          held : 0 .. Lease + 1]]
    /\ untold \subseteq Instances \X Rows
    /\ told \in [Instances -> SUBSET Rows]
    /\ accepted \in [Rows -> Nat] /\ excused \in [Rows -> Nat]
    /\ outlived \subseteq Rows /\ faults \in 0 .. MaxFaults

\* A row is in the hands of one worker at a time, through crashes, refused
\* records, takeovers and retries, until a worker has held it for longer than
\* its lease: nothing but the lease keeps the next one off it.
OneHolder ==
    \A i, j \in Instances :
        Holding(i) /\ Holding(j) /\ worker[i].row = worker[j].row
        => i = j \/ worker[i].row \in outlived

\* What a row says has become of its message.
MailOf(r) == CASE row[r].status = "none" -> "unwritten"
               [] Unfinished(r) -> "owed"
               [] GivenUp(r) -> "given up"
               [] OTHER -> row[r].status

Promise == INSTANCE MailPromise WITH
    mail <- [r \in Rows |-> MailOf(r)], copies <- accepted, doubts <- excused,
    lapsed <- outlived

\* The workers keep the promise the outbox makes: a row is marked sent only
\* when the provider is known to have taken the message and given up only when
\* it is not, no second copy leaves while the first may be known of, and what
\* is settled stays settled, whatever order the workers' records come in and
\* whoever takes a claim over.  All that is left of a row a worker has held for
\* longer than its lease is that it is marked sent after a copy was taken, and
\* that an erased one stays erased.
Promised == Promise!Spec

\* The longest wait of a worker that has something to wait for: a claim or a
\* retry that is not due yet, or a round that failed.
Longest(w) ==
    Max({Lease, Backoff(MaxShift),
         Busy * Doubled[IF w.failures = 0 THEN 0 ELSE w.failures - 1]})

\* No wake-up is lost: a worker that was told of a row, or found it at a
\* look, never settles down for the idle ceiling while the row is unfinished,
\* on its own hands or on another's.  Only a worker that has outlived its lease
\* can take a settled row up again behind one that sleeps.  Everything has its
\* type besides.
NoRowIsForgotten ==
    /\ TypeOK
    /\ \A i \in Instances : \A r \in told[i] \ outlived :
         worker[i].pc = "wait" /\ ~worker[i].wake /\ Unfinished(r)
             => worker[i].timer <= Longest(worker[i])

\* A waiting row is waited for exactly: with one instance and no round that
\* failed, the worker sleeps no longer than until the first row it knows of
\* can be claimed, other mail having gone out in between or not.
RetryIsWaitedFor ==
    \A i \in Instances : \A r \in told[i] :
        /\ Instances = {i}
        /\ worker[i].pc = "wait" /\ ~worker[i].wake /\ worker[i].failures = 0
        /\ Unfinished(r)
        => worker[i].timer <= Max({Busy, DueIn(r)})

\* "A queue with mail is still drained at once": a worker whose database
\* answers, and that no writer is about to nudge, does not sleep beyond
\* emailPollBusy over a row that is due.
DrainedAtOnce ==
    \A i \in Instances : \A r \in told[i] :
        /\ worker[i].pc = "wait" /\ ~worker[i].wake /\ <<i, r>> \notin untold
        /\ Waiting(r) /\ row[r].due <= 0
        => worker[i].timer <= Busy

\* Every message written is in the end sent, given up or erased, through the
\* death of the instance that wrote it or claimed it.
EveryMailSettles == \A r \in Rows : Unfinished(r) ~> ~Unfinished(r)

=============================================================================
