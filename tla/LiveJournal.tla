---------------------------- MODULE LiveJournal ----------------------------
(***************************************************************************)
(* What the live helper keeps of one session: the snapshot folded from the *)
(* session's append-only journal (live/session-store.mjs), and the queue   *)
(* of events that wait for an agent (live-server.mjs, live/poll-lanes.mjs).*)
(*                                                                         *)
(* A snapshot is changed by nothing but the operators below, one for each  *)
(* kind of journal entry.  Only the fields some decision reads are kept:   *)
(*   known     the session has a journal                                   *)
(*   phase     where the session stands                                    *)
(*   canceled  generationCanceled: the user has accepted or discarded      *)
(*   finished  generationCompletedAt: the variants are all published       *)
(*   arrived   variants the journal believes to be on the page             *)
(*   rev       the newest checkpoint revision of the browser               *)
(*   pending   the event a restarted helper would queue again              *)
(***************************************************************************)
EXTENDS Naturals, Sequences, FiniteSets, SequencesExt

CONSTANTS Count,    \* variants asked for by every session
          None      \* no event, no session, no saved record

ASSUME CountAssumption == Count \in Nat \ {0}

(* An event is identified by its session, its type and its variant; "ready" *)
(* says that the scaffold of a generate event has been computed.            *)
EventOf(type, id, variant) ==
    [type |-> type, id |-> id, variant |-> variant, ready |-> FALSE]

-----------------------------------------------------------------------------
(* The journal. *)

BlankSnapshot ==
    [known |-> FALSE, phase |-> "new", canceled |-> FALSE, finished |-> FALSE,
     arrived |-> 0, rev |-> 0, pending |-> None]

CompletedPhases == {"completed", "discarded"}

FencedPhases == CompletedPhases \union
    {"accept_requested", "discard_requested", "carbonize_required"}

(* Generation has been overtaken by the user's decision. *)
Fenced(sn) == sn.canceled \/ sn.phase \in FencedPhases

Touched(sn) == [sn EXCEPT !.known = TRUE]

Generated(sn, e) ==
    [Touched(sn) EXCEPT !.phase = "generate_requested", !.pending = e]

(* Mutant form: an accept is journaled and not marked to be answered. *)
AcceptedUnanswered(sn, e) ==
    [Touched(sn) EXCEPT !.phase = "accept_requested", !.canceled = TRUE,
                        !.pending = None]

Accepted(sn, e) ==
    [Touched(sn) EXCEPT !.phase = "accept_requested", !.canceled = TRUE,
                        !.pending = e]

DiscardRequested(sn, e) ==
    [Touched(sn) EXCEPT !.phase = "discard_requested", !.canceled = TRUE,
                        !.pending = e]

Discarded(sn) == [Touched(sn) EXCEPT !.phase = "discarded", !.pending = None]

Completed(sn) == [Touched(sn) EXCEPT !.phase = "completed", !.pending = None]

(* A publication that comes after the decision is noted and not applied,    *)
(* except the reply to an accept that leaves cleanup to the agent.          *)
AgentDone(sn, carbonize) ==
    IF Fenced(sn) /\ ~(carbonize /\ sn.phase = "accept_requested")
    THEN Touched(sn)
    ELSE [Touched(sn) EXCEPT
            !.phase = IF carbonize THEN "carbonize_required" ELSE "variants_ready",
            !.finished = TRUE, !.arrived = Count, !.pending = None]

(* The failure of a generation the user has decided about is not applied;   *)
(* source is the type of the event the reply has acknowledged, or None.     *)
AgentFailed(sn, source) ==
    IF sn.canceled /\ source = "generate"
    THEN Touched(sn)
    ELSE [Touched(sn) EXCEPT !.phase = "agent_error", !.pending = None]

(* Mutant form: the latest failure hides what waits. *)
MountFailedHides(sn, e) == [Touched(sn) EXCEPT !.pending = e]

(* A mount failure waits for an agent too, but never hides what waits. *)
MountFailed(sn, e) ==
    [Touched(sn) EXCEPT !.pending = IF @ = None THEN e ELSE @]

(* Mutant form: the progress of the page is noted whatever was decided. *)
CheckpointedUnfenced(sn, c) ==
    IF c.rev < sn.rev
    THEN Touched(sn)
    ELSE [Touched(sn) EXCEPT !.phase = c.phase, !.rev = c.rev,
                             !.arrived = c.arrived]

Checkpointed(sn, c) ==
    IF Fenced(sn) \/ c.rev < sn.rev
    THEN Touched(sn)
    ELSE [Touched(sn) EXCEPT !.phase = c.phase, !.rev = c.rev,
                             !.arrived = c.arrived]

(* listActiveSessions, and what of it a page may resume. *)
Active(sn) == sn.known /\ sn.phase \notin CompletedPhases

Resumable(sn) ==
    Active(sn) /\ sn.phase \notin {"accept_requested", "discard_requested"}

Adoptable(sn) ==
    /\ sn.phase \in {"generate_requested", "variants_ready", "generating", "cycling"}
    /\ sn.finished

(* A page that reports fewer variants than were published has missed the    *)
(* announcement; it is announced again.                                     *)
MissedCompletion(sn, c) ==
    /\ c.phase = "generating" /\ c.arrived < Count
    /\ sn.finished /\ ~Fenced(sn)

-----------------------------------------------------------------------------
(* The queue: a sequence of entries [ev, leased], oldest first. *)

Priority(type) ==
    CASE type \in {"accept", "discard"} -> 0
      [] type = "generate"              -> 2
      [] OTHER                          -> 3

SameEvent(d, e) ==
    /\ d.id = e.id /\ d.type = e.type
    /\ e.type = "variant_mount_failed" => d.variant = e.variant

(* enqueueEvent without the delivery that follows it. *)
Enqueued(q, e) ==
    IF \E i \in DOMAIN q : SameEvent(q[i].ev, e)
    THEN q
    ELSE Append(q, [ev |-> e, leased |-> FALSE])

(* The entries a poll may be given, the most urgent and then the oldest. *)
Available(q) == {i \in DOMAIN q : ~q[i].leased}

Before(q, i, j) ==
    LET pi == Priority(q[i].ev.type)
        pj == Priority(q[j].ev.type)
    IN  pi < pj \/ (pi = pj /\ i < j)

(* The place of an entry among those, 1 for the one to be given next. *)
Rank(q, i) == 1 + Cardinality({j \in Available(q) : Before(q, j, i)})

(* Mutant form: a generate event is claimed once its scaffold is there. *)
LeasedOnceReady(q, given) ==
    [i \in DOMAIN q |->
        [q[i] EXCEPT !.leased = @ \/ (i \in given /\ (q[i].ev.ready \/ q[i].ev.type # "generate"))]]

(* leaseEvent claims an entry before it waits for anything. *)
Leased(q, given) ==
    [i \in DOMAIN q |-> [q[i] EXCEPT !.leased = @ \/ i \in given]]

(* Mutant form: the decision leaves the generation in the queue. *)
RetiredNothing(q, id) == q

(* What is left of a sequence without some elements, in its order. *)
Without(seq, gone) ==
    LET Kept[n \in 0 .. Len(seq)] ==
            IF n = 0 THEN <<>>
            ELSE IF seq[n] \in gone THEN Kept[n - 1] ELSE Append(Kept[n - 1], seq[n])
    IN  Kept[Len(seq)]

(* retirePendingGeneration *)
Retired(q, id) ==
    Without(q, {q[i] : i \in {j \in DOMAIN q : q[j].ev.id = id /\ q[j].ev.type = "generate"}})

TypesQueued(q, id) == {q[i].ev.type : i \in {j \in DOMAIN q : q[j].ev.id = id}}

(* The entries of a session a reply may acknowledge; any of them when the   *)
(* reply names no type.                                                     *)
Answerable(q, id, type) ==
    {i \in DOMAIN q : q[i].ev.id = id /\ type \in {None, q[i].ev.type}}

FirstOf(indices) == CHOOSE i \in indices : \A j \in indices : i <= j

(* inferSourceEventType: what a reply that does not say so is the reply to. *)
Inferred(q, id, reply) ==
    LET types  == TypesQueued(q, id)
        leased == {i \in DOMAIN q : q[i].ev.id = id /\ q[i].leased}
    IN  CASE reply = "discarded" -> "discard"
          [] reply = "complete"  ->
                IF "accept" \in types THEN "accept"
                ELSE IF "generate" \in types THEN "generate" ELSE None
          [] reply \in {"done", "agent_done"} ->
                IF "generate" \notin types /\ "variant_mount_failed" \in types
                THEN "variant_mount_failed" ELSE "generate"
          [] reply = "error"     ->
                IF leased # {} THEN q[FirstOf(leased)].ev.type ELSE "generate"
=============================================================================
