---------------------------- MODULE LiveSession ----------------------------
(***************************************************************************)
(* Live mode of the bundled design tooling: a page in the browser asks for *)
(* variants of an element, a helper server journals and queues what the    *)
(* page asks, agents poll the helper, write the variants into the source   *)
(* and reply, and the page shows, accepts or discards them.                *)
(*                                                                         *)
(*   the helper   live-server.mjs over live/session-store.mjs              *)
(*   an agent     live-poll.mjs, live-complete.mjs and the model behind it *)
(*   the page     live-browser.js over live-browser-session.js             *)
(*                                                                         *)
(* The page's requests are concurrent: "net" is a set and any of them may  *)
(* arrive next.  The answer to a request is back before anything else      *)
(* happens, unless it is lost.  The journal survives the helper, the saved *)
(* record survives a reload of the page, and agents come and go.           *)
(***************************************************************************)
EXTENDS LiveJournal

CONSTANTS Sessions,       \* ids, each used by one click of Go
          Agents,
          FaultKinds,     \* what may go wrong
          MaxFaults,      \* bound: how often
          MaxInFlight     \* bound: requests of the page on their way

(* What an agent may be asked: variants, a decision, a repair. *)
Events ==
    [type : {"generate", "accept", "discard", "variant_mount_failed"},
     id : Sessions, variant : 0..Count, ready : BOOLEAN]

ASSUME SessionsAssumption ==
    IsFiniteSet(Sessions) /\ None \notin Sessions /\ None \notin Events

ASSUME BoundsAssumption ==
    /\ FaultKinds \subseteq {"reload", "connection", "crash", "agent", "lapse",
                             "lost", "mount", "edit"}
    /\ {MaxFaults, MaxInFlight} \subseteq Nat

VARIABLES
    snap,     \* the helper's journal of every session, folded
    up,       \* the helper runs
    queue,    \* its pendingEvents
    parked,   \* its pendingPolls, as the agents that wait
    agent,    \* what each agent is doing, and with which event
    source,   \* variants of a session written into the source
    settled,  \* sessions whose decision has been carried out in the source
    page,     \* the one tab
    net,      \* requests of the page on their way
    faults,   \* bound: what has gone wrong so far
    mounted,  \* the sessions whose preview mounts component modules
    relet,    \* history: sessions whose events may be handed out again
    strayed,  \* history: sessions a reply to something else was taken for
    dropped,  \* history: sessions the page gave up as another project's
    misled,   \* history: sessions shown as another's accept was found to have failed
    unclean   \* history: sessions whose agent died before its cleanup

vars == <<snap, up, queue, parked, agent, source, settled, page, net, faults,
          mounted, relet, strayed, dropped, misled, unclean>>

serverVars == <<snap, up, queue, parked>>
workVars   == <<agent, source, settled>>
history    == <<mounted, relet, strayed, dropped, misled, unclean>>

-----------------------------------------------------------------------------
(* The page. *)

NothingSaved == [id |-> None, st |-> "PICKING", arrived |-> 0, file |-> FALSE]

FreshPage ==
    [cur |-> None, st |-> "PICKING", arrived |-> 0, file |-> FALSE,
     conn |-> FALSE, pulls |-> {}, capture |-> None, rev |-> 0,
     stored |-> NothingSaved, handled |-> None,
     deciding |-> None, awaiting |-> None, token |-> TRUE]

Saved(p) ==
    [p EXCEPT !.stored = [id |-> p.cur, st |-> p.st, arrived |-> p.arrived,
                          file |-> p.file]]

(* cleanup, and cleanup after markSessionHandled *)
Cleaned(p) ==
    [p EXCEPT !.cur = None, !.st = "PICKING", !.arrived = 0, !.file = FALSE,
              !.stored = NothingSaved]

LetGo(p) ==
    Cleaned([p EXCEPT !.handled = IF p.cur = None THEN @ ELSE p.cur])

Pulling(p, id, why) == [p EXCEPT !.pulls = @ \union {[id |-> id, why |-> why]}]

(* A progress request waits for the session's creation when that is on its *)
(* way already; "heard" is lost when the page that asked is gone, "valid"   *)
(* when the helper whose token it bears is.                                 *)
CreationUnderWay == \E r \in net : r.kind = "generate" /\ r.heard

Request(kind, id) ==
    [kind |-> kind, id |-> id, variant |-> 0, orphaned |-> FALSE,
     phase |-> "", arrived |-> 0, rev |-> 0,
     gated |-> CreationUnderWay /\ kind # "generate", heard |-> TRUE,
     valid |-> page.token]

CheckpointOf(p) ==
    [Request("checkpoint", p.cur) EXCEPT
        !.phase = IF p.st = "CYCLING" THEN "cycling" ELSE "generating",
        !.arrived = p.arrived, !.rev = p.rev]

(* A page keeps the token it was loaded with; every helper has its own. *)
Reachable == up /\ page.token

NextRevision(p) == [p EXCEPT !.rev = @ + 1]

(* The accept of a session has been answered with success, or not at all:   *)
(* pendingAcceptedSession is gone; awaitingAcceptResult waits for the rest.  *)
AcceptConfirmed(p, id) ==
    IF p.deciding = id
    THEN [LetGo(p) EXCEPT !.deciding = None, !.awaiting = id] ELSE p

AcceptFailed(p, id) ==
    [p EXCEPT !.st = "CYCLING", !.deciding = IF @ = id THEN None ELSE @]

(* The page of another session is told that there are variants to choose. *)
Misleads(id) ==
    misled' = IF page.cur \in {id, None} THEN misled ELSE misled \union {page.cur}

(* The announcements of the helper, each as the page that hears it. *)

HearDone(p, id) ==
    LET told == IF p.cur = id THEN [p EXCEPT !.file = TRUE] ELSE p
    IN  IF p.cur = id /\ id \in mounted
        THEN Pulling(told, id, "component")
        ELSE IF p.cur # None /\ p.arrived = Count
        THEN [told EXCEPT !.st = IF @ = "GENERATING" THEN "CYCLING" ELSE @]
        ELSE IF p.cur = id /\ p.st = "GENERATING"
        THEN Pulling(told, id, "done")
        ELSE told

HearDiscarded(p, id) == IF p.cur = id THEN LetGo(p) ELSE p

(* complete, and the agent_done of an accept that leaves cleanup *)
HearAccepted(p, id) ==
    LET told == [p EXCEPT !.awaiting = IF @ = id THEN None ELSE @]
        over == [told EXCEPT !.deciding = None]
    IN  IF p.deciding # id THEN told
        ELSE IF p.cur \in {id, None} THEN LetGo(over) ELSE over

HearError(p, id) ==
    IF p.deciding = id THEN [AcceptFailed(p, id) EXCEPT !.awaiting = None]
    ELSE IF p.awaiting = id THEN [p EXCEPT !.awaiting = None]
    ELSE IF p.cur = id THEN LetGo(p)
    ELSE [p EXCEPT !.st = "PICKING",
                   !.stored = IF @.id = id THEN NothingSaved ELSE @]

(* Taking a session up again.  "summaries" are the sessions the helper says *)
(* are active, {} when it says none or has not been asked.                  *)

Restores(p, saved, summaries) ==
    /\ saved.id # None /\ saved.id # p.handled
    /\ saved.st \in {"GENERATING", "CYCLING"}
    /\ summaries # {} => saved.id \in summaries /\ Resumable(snap[saved.id])

Restored(p, saved, summaries) ==
    LET id      == saved.id
        file    == saved.file \/ (id \in summaries /\ snap[id].finished)
        arrived == IF saved.arrived > 0 THEN saved.arrived
                   ELSE IF id \in mounted /\ file THEN Count
                   ELSE IF id \in summaries THEN snap[id].arrived ELSE 0
        why     == IF id \in mounted THEN "component"
                   ELSE IF saved.st = "CYCLING" THEN "orphan" ELSE "restore"
        taken   == Saved([p EXCEPT !.cur = id, !.st = "GENERATING",
                                   !.arrived = arrived, !.file = file])
    IN  IF file THEN Pulling(taken, id, why) ELSE taken

(* Without a record of its own a page adopts what the helper has for it. *)
AdoptionOf(id) ==
    [id |-> id, st |-> "GENERATING", arrived |-> snap[id].arrived, file |-> TRUE]

Adopted(p, summaries) ==
    {AdoptionOf(id) : id \in {i \in summaries : i # p.handled /\ Adoptable(snap[i])}}

(* The wrapper of variants in the source, and so in a page just loaded. *)
Wrapped(id) == source[id] > 0 /\ id \notin settled

ShowsVariants(p) == p.cur # None /\ p.st \in {"CYCLING", "SAVING"}

(* recoverMissedGenerationCompletion *)
CaughtUp(p, summaries) ==
    IF /\ p.cur \in summaries /\ p.st = "GENERATING" /\ p.arrived < Count
       /\ Resumable(snap[p.cur]) /\ snap[p.cur].finished /\ ~snap[p.cur].canceled
    THEN Pulling([p EXCEPT !.file = TRUE], p.cur,
                 IF p.cur \in mounted THEN "component" ELSE "done")
    ELSE p

-----------------------------------------------------------------------------
(* Delivery: parked polls are served in the order they came. *)

Handed(e) ==
    [at |-> IF e.type = "generate" /\ ~e.ready THEN "scaffolding" ELSE "holding",
     ev |-> e]

(* Mutant form: what is queued waits for the next poll. *)
FlushNobody(q, agents) == queue' = q /\ agent' = agents /\ UNCHANGED parked

(* flushPendingPolls: the polls that wait are served in the order they came, *)
(* each with the next of the entries that are free.                          *)
Flush(q, agents) ==
    LET given  == {i \in Available(q) : Rank(q, i) <= Len(parked)}
        For(a) == {i \in given : parked[Rank(q, i)] = a}
    IN  /\ queue' = Leased(q, given)
        /\ parked' = SubSeq(parked, Cardinality(given) + 1, Len(parked))
        /\ agent' = [a \in Agents |->
                        IF For(a) # {} THEN Handed(q[CHOOSE i \in For(a) : TRUE].ev)
                        ELSE agents[a]]

Idle == [at |-> "idle", ev |-> None]

Fault(kind) ==
    kind \in FaultKinds /\ faults < MaxFaults /\ faults' = faults + 1

Sends(requests) == Cardinality(requests) <= MaxInFlight /\ net' = requests

(* The page when it can be reached by an announcement, and unchanged when not. *)
Announced(p) == page' = IF page.conn THEN p ELSE page

-----------------------------------------------------------------------------
TypeOK ==
    /\ \A s \in Sessions :
        /\ snap[s].phase \in FencedPhases \union
               {"new", "generate_requested", "generating", "cycling",
                "variants_ready", "agent_error"}
        /\ snap[s].arrived \in 0..Count
        /\ snap[s].pending # None => snap[s].pending.id = s
    /\ up \in BOOLEAN
    /\ \A i \in DOMAIN queue : queue[i].ev.id \in Sessions /\ queue[i].leased \in BOOLEAN
    /\ \A i \in DOMAIN parked : agent[parked[i]].at = "parked"
    /\ \A a \in Agents :
        /\ agent[a].at \in {"idle", "parked", "scaffolding", "hungup", "holding", "cutoff", "cleanup"}
        /\ (agent[a].ev = None) = (agent[a].at \in {"idle", "parked"})
    /\ source \in [Sessions -> 0..Count]
    /\ settled \subseteq Sessions
    /\ page.cur \in Sessions \union {None}
    /\ page.st \in {"PICKING", "GENERATING", "CYCLING", "SAVING"}
    /\ page.arrived \in 0..Count
    /\ \A r \in net : r.id \in Sessions
    /\ faults \in 0..MaxFaults
    /\ mounted \subseteq Sessions

Init ==
    /\ snap = [s \in Sessions |-> BlankSnapshot]
    /\ up = TRUE /\ queue = <<>> /\ parked = <<>>
    /\ agent = [a \in Agents |-> Idle]
    /\ source = [s \in Sessions |-> 0] /\ settled = {}
    /\ page = [FreshPage EXCEPT !.conn = TRUE]
    /\ net = {} /\ faults = 0
    /\ mounted \in SUBSET Sessions
    /\ relet = {} /\ strayed = {} /\ dropped = {} /\ misled = {} /\ unclean = {}

-----------------------------------------------------------------------------
(* What the user does at the page. *)

Unused(s) == page.cur # s /\ ~snap[s].known /\ s \notin dropped /\ page.handled # s
             /\ ~\E r \in net : r.id = s

(* Go: the session's first checkpoint leaves at once.  Without annotations  *)
(* the generate request leaves with it; with annotations it has to wait for *)
(* the screenshot.                                                          *)
Go(s, annotated) ==
    /\ page.st = "PICKING" /\ page.capture = None /\ Unused(s)
    /\ LET p == NextRevision(Saved([page EXCEPT !.cur = s, !.st = "GENERATING",
                                                !.arrived = 0, !.file = FALSE,
                                                !.deciding = None, !.awaiting = None]))
       IN  /\ page' = [p EXCEPT !.capture = IF annotated THEN s ELSE None]
           /\ Sends(net \union {CheckpointOf(p)}
                       \union (IF annotated THEN {} ELSE {Request("generate", s)}))
    /\ UNCHANGED <<serverVars, workVars, faults, history>>

CaptureDone ==
    /\ page.capture # None
    /\ Sends(net \union {Request("generate", page.capture)})
    /\ page' = [page EXCEPT !.capture = None]
    /\ UNCHANGED <<serverVars, workVars, faults, history>>

Accept ==
    /\ page.cur # None /\ page.st = "CYCLING" /\ page.arrived > 0
    /\ page.deciding = None
    /\ page' = Saved([page EXCEPT !.st = "SAVING", !.deciding = page.cur])
    /\ Sends(net \union {Request("accept", page.cur)})
    /\ UNCHANGED <<serverVars, workVars, faults, history>>

Discard ==
    /\ page.cur # None /\ page.st = "CYCLING"
    /\ ~\E r \in net : r.kind = "discard" /\ r.id = page.cur
    /\ Sends(net \union {Request("discard", page.cur)})
    /\ UNCHANGED <<serverVars, workVars, page, faults, history>>

-----------------------------------------------------------------------------
(* What happens at the page by itself. *)

(* The variant observer: the framework has put new variants into the page. *)
Observe ==
    /\ page.cur # None /\ page.cur \notin mounted
    /\ Wrapped(page.cur) /\ source[page.cur] > page.arrived
    /\ LET p == NextRevision(Saved([page EXCEPT !.arrived = source[page.cur],
                                                !.st = "CYCLING"]))
       IN  page' = p /\ Sends(net \union {CheckpointOf(p)})
    /\ UNCHANGED <<serverVars, workVars, faults, history>>

(* A read of the source that finds the variants, or finds none. *)
Inject(pl) ==
    /\ pl \in page.pulls /\ pl.why # "component"
    /\ LET p == [page EXCEPT !.pulls = @ \ {pl}]
           due == /\ Reachable /\ page.cur = pl.id
                  /\ pl.why = "done" => page.st = "GENERATING" /\ page.arrived < Count
       IN  \/ /\ due /\ Wrapped(pl.id)
              /\ page' = Saved([p EXCEPT !.arrived = source[pl.id], !.st = "CYCLING"])
              /\ net' = net
           \/ /\ due /\ ~Wrapped(pl.id) /\ pl.why = "orphan"
              /\ page' = LetGo(p)
              /\ Sends(net \union {[Request("discard", pl.id) EXCEPT !.orphaned = TRUE]})
           \/ /\ ~due \/ (~Wrapped(pl.id) /\ pl.why # "orphan")
              /\ page' = p /\ net' = net
    /\ UNCHANGED <<serverVars, workVars, faults, history>>

(* Component modules are mounted from the manifest, or cannot be. *)
Mount(pl) ==
    /\ pl \in page.pulls /\ pl.why = "component" /\ page.cur = pl.id
    /\ Reachable /\ Wrapped(pl.id)
    /\ page' = Saved([page EXCEPT !.pulls = @ \ {pl}, !.arrived = Count,
                                  !.st = "CYCLING", !.file = TRUE])
    /\ UNCHANGED <<serverVars, workVars, net, faults, history>>

MountFails(pl, v) ==
    /\ pl \in page.pulls /\ pl.why = "component" /\ page.cur = pl.id
    /\ IF Reachable /\ Wrapped(pl.id) THEN Fault("mount") ELSE UNCHANGED faults
    /\ page' = Saved([page EXCEPT !.pulls = @ \ {pl},
                        !.st = IF @ = "CYCLING" THEN @ ELSE "GENERATING"])
    /\ Sends(net \union {[Request("variant_mount_failed", pl.id) EXCEPT !.variant = v]})
    /\ UNCHANGED <<serverVars, workVars, history>>

PullIsStale(pl) ==
    /\ pl \in page.pulls /\ pl.why = "component" /\ page.cur # pl.id
    /\ page' = [page EXCEPT !.pulls = @ \ {pl}]
    /\ UNCHANGED <<serverVars, workVars, net, faults, history>>

(* The user cycles to a variant that does not mount. *)
CycleFails(v) ==
    /\ page.cur \in mounted /\ page.st = "CYCLING"
    /\ Fault("mount")
    /\ Sends(net \union
                {[Request("variant_mount_failed", page.cur) EXCEPT !.variant = v]})
    /\ UNCHANGED <<serverVars, workVars, page, history>>

Retry ==
    /\ page.cur \in mounted /\ page.st = "GENERATING" /\ page.file
    /\ page' = Pulling(page, page.cur, "component")
    /\ page' # page
    /\ UNCHANGED <<serverVars, workVars, net, faults, history>>

(* A reload: the page forgets, its promises are gone, its requests may or   *)
(* may not have left.  init resumes from the wrapper or from the record.    *)
(* The framework reloads a page whose variants have gone from the source,    *)
(* and the user one that another helper no longer knows; the helper serves   *)
(* the script, so without it there is no page to speak of.                   *)
Reloaded ==
    [FreshPage EXCEPT !.stored = page.stored, !.handled = page.handled,
                      !.rev = IF page.stored.id # None THEN page.rev ELSE 0]

ResumedFromWrapper(id) ==
    [Reloaded EXCEPT !.cur = id, !.st = "CYCLING", !.arrived = source[id],
                     !.file = page.stored.id = id /\ page.stored.file]

Reports(p, kept) ==
    /\ page' = NextRevision(p)
    /\ Sends(kept \union {[CheckpointOf(NextRevision(p)) EXCEPT !.gated = FALSE]})

Reload ==
    /\ up
    /\ IF \/ ~page.token
          \/ ShowsVariants(page) /\ page.cur \notin mounted /\ ~Wrapped(page.cur)
       THEN UNCHANGED faults ELSE Fault("reload")
    /\ \E sent \in SUBSET {r \in net : ~r.gated} :
        LET kept  == {[r EXCEPT !.heard = FALSE] : r \in sent}
            shown == {s \in Sessions \ mounted : Wrapped(s)}
        IN  \/ \E id \in shown \ {page.handled} :
                  Reports(Saved(ResumedFromWrapper(id)), kept)
            \/ /\ page.handled \in shown
               /\ page' = Reloaded /\ net' = kept
            \/ /\ shown = {} /\ Restores(Reloaded, page.stored, {})
               /\ Reports(Restored(Reloaded, page.stored, {}), kept)
            \/ /\ shown = {} /\ ~Restores(Reloaded, page.stored, {})
               /\ page' = [Reloaded EXCEPT !.stored = NothingSaved, !.handled = None]
               /\ net' = kept
    /\ UNCHANGED <<serverVars, workVars, history>>

ConnectionLost ==
    /\ page.conn /\ Fault("connection")
    /\ page' = [page EXCEPT !.conn = FALSE]
    /\ UNCHANGED <<serverVars, workVars, net, history>>

(* The helper greets a page that connects with the sessions it has open. *)
Connect ==
    /\ Reachable /\ ~page.conn
    /\ LET p       == [page EXCEPT !.conn = TRUE]
           summary == {s \in Sessions : Active(snap[s])}
           records == IF p.stored.id # None THEN {p.stored} ELSE Adopted(p, summary)
           usable  == {r \in records : ~ShowsVariants(p) /\ Restores(p, r, summary)}
       IN  \/ \E r \in usable :
                LET q == NextRevision(Restored(p, r, summary))
                IN  /\ page' = CaughtUp(q, summary)
                    /\ Sends(net \union {CheckpointOf(q)})
           \/ /\ usable = {}
              /\ page' = CaughtUp(p, summary) /\ net' = net
    /\ UNCHANGED <<serverVars, workVars, faults, history>>

(* A request finds no helper, or one that does not know its token. *)
RequestFails(r) ==
    /\ r \in net /\ ~(up /\ r.valid)
    /\ net' = net \ {r}
    /\ IF r.kind = "accept" /\ r.heard
       THEN page' = AcceptFailed(page, r.id) /\ Misleads(r.id)
       ELSE UNCHANGED <<page, misled>>
    /\ UNCHANGED <<serverVars, workVars, faults, mounted, relet, strayed, dropped, unclean>>

(* Someone takes the wrapper out of the source by hand. *)
EditedAway(s) ==
    /\ s \notin mounted /\ Wrapped(s) /\ Fault("edit")
    /\ source' = [source EXCEPT ![s] = 0]
    /\ UNCHANGED <<serverVars, agent, settled, page, net, history>>

-----------------------------------------------------------------------------
(* POST /events: the helper journals what the page reports, and queues what *)
(* an agent has to answer.                                                  *)

Arrives(r, kind) ==
    /\ up /\ r \in net /\ r.kind = kind /\ r.valid
    /\ r.gated => ~CreationUnderWay

Journal(s, sn) == snap' = [snap EXCEPT ![s] = sn]

ReceiveGenerate(r) ==
    /\ Arrives(r, "generate")
    /\ LET e == EventOf("generate", r.id, 0)
       IN  Journal(r.id, Generated(snap[r.id], e)) /\ Flush(Enqueued(queue, e), agent)
    /\ net' = net \ {r}
    /\ UNCHANGED <<up, source, settled, page, faults, history>>

ReceiveCheckpoint(r) ==
    /\ Arrives(r, "checkpoint") /\ snap[r.id].known
    /\ Journal(r.id, Checkpointed(snap[r.id], r))
    /\ net' = net \ {r}
    /\ IF MissedCompletion(snap[r.id], r) THEN Announced(HearDone(page, r.id))
       ELSE UNCHANGED page
    /\ UNCHANGED <<up, queue, parked, workVars, faults, history>>

(* Progress of a session the helper has no journal of is refused, and the   *)
(* page that reported it takes the session for another project's.           *)
RefuseCheckpoint(r) ==
    /\ Arrives(r, "checkpoint") /\ ~snap[r.id].known
    /\ net' = net \ {r}
    /\ IF r.heard /\ page.cur = r.id
       THEN page' = LetGo(page) /\ dropped' = dropped \union {r.id}
       ELSE UNCHANGED <<page, dropped>>
    /\ UNCHANGED <<serverVars, workVars, faults, mounted, relet, strayed, misled,
                   unclean>>

(* The answer is back at once, unless it is lost on its way. *)
ReceiveAccept(r, lost) ==
    /\ Arrives(r, "accept") /\ snap[r.id].known
    /\ LET e == EventOf("accept", r.id, 0)
       IN  /\ Journal(r.id, Accepted(snap[r.id], e))
           /\ Flush(Enqueued(Retired(queue, r.id), e), agent)
    /\ net' = net \ {r}
    /\ IF lost THEN Fault("lost") ELSE UNCHANGED faults
    /\ IF r.heard /\ lost
       THEN page' = AcceptFailed(page, r.id) /\ Misleads(r.id)
       ELSE /\ page' = IF r.heard THEN AcceptConfirmed(page, r.id) ELSE page
            /\ UNCHANGED misled
    /\ UNCHANGED <<up, source, settled, mounted, relet, strayed, dropped, unclean>>

ReceiveDiscard(r, lost) ==
    /\ Arrives(r, "discard") /\ ~r.orphaned /\ snap[r.id].known
    /\ LET e == EventOf("discard", r.id, 0)
       IN  /\ Journal(r.id, DiscardRequested(snap[r.id], e))
           /\ Flush(Enqueued(Retired(queue, r.id), e), agent)
    /\ net' = net \ {r}
    /\ IF lost THEN Fault("lost") ELSE UNCHANGED faults
    /\ page' = IF r.heard /\ ~lost THEN LetGo(page) ELSE page
    /\ UNCHANGED <<up, source, settled, history>>

(* Nobody has to clean up after a wrapper that is gone already. *)
ReceiveOrphaned(r) ==
    /\ Arrives(r, "discard") /\ r.orphaned /\ snap[r.id].known
    /\ Journal(r.id, Discarded(DiscardRequested(snap[r.id],
                                                EventOf("discard", r.id, 0))))
    /\ queue' = Retired(queue, r.id)
    /\ net' = net \ {r}
    /\ UNCHANGED <<up, parked, workVars, page, faults, history>>

ReceiveMountFailure(r) ==
    /\ Arrives(r, "variant_mount_failed") /\ snap[r.id].known
    /\ LET e == EventOf("variant_mount_failed", r.id, r.variant)
       IN  /\ Journal(r.id, MountFailed(snap[r.id], e))
           /\ Flush(Enqueued(queue, e), agent)
    /\ net' = net \ {r}
    /\ UNCHANGED <<up, source, settled, page, faults, history>>

-----------------------------------------------------------------------------
(* GET /poll and the work of an agent. *)

(* A generate event is claimed before its scaffold is computed, and handed  *)
(* out when the scaffold is there.                                          *)
Poll(a) ==
    /\ up /\ agent[a].at = "idle"
    /\ \/ /\ Available(queue) = {}
          /\ parked' = Append(parked, a)
          /\ agent' = [agent EXCEPT ![a] = [at |-> "parked", ev |-> None]]
          /\ UNCHANGED queue
       \/ \E i \in Available(queue) :
          /\ Rank(queue, i) = 1
          /\ queue' = Leased(queue, {i})
          /\ agent' = [agent EXCEPT ![a] = Handed(queue[i].ev)]
          /\ UNCHANGED parked
    /\ UNCHANGED <<snap, up, source, settled, page, net, faults, history>>

ScaffoldLands(a) ==
    /\ agent[a].at \in {"scaffolding", "hungup"} /\ up
    /\ LET e == [agent[a].ev EXCEPT !.ready = TRUE]
       IN  /\ queue' = [i \in DOMAIN queue |->
                          IF queue[i].ev = agent[a].ev
                          THEN [ev |-> e, leased |-> TRUE] ELSE queue[i]]
           /\ Journal(e.id, Generated(snap[e.id], e))
           /\ agent' = [agent EXCEPT ![a] = IF @.at = "hungup" THEN Idle
                                            ELSE [at |-> "holding", ev |-> e]]
    /\ UNCHANGED <<up, parked, source, settled, page, net, faults, history>>

Write(a) ==
    /\ agent[a].at = "holding" /\ agent[a].ev.type = "generate"
    /\ LET s == agent[a].ev.id
       IN  /\ s \notin settled
           /\ \E n \in IF s \in mounted THEN {Count} ELSE 1..Count :
                n > source[s] /\ source' = [source EXCEPT ![s] = n]
    /\ UNCHANGED <<serverVars, agent, settled, page, net, faults, history>>

(* POST /poll.  The reply acknowledges the event it is taken to answer, is  *)
(* journaled unless the session is over, and is told to the page.  The page *)
(* does nothing for an agent_done that leaves no cleanup.                   *)
JournalOf(reply, sn, acked, carbonize) ==
    CASE reply = "discarded" -> Discarded(sn)
      [] reply = "complete"  -> Completed(sn)
      [] reply = "error"     -> AgentFailed(sn, acked)
      [] reply \in {"done", "agent_done"} -> AgentDone(sn, carbonize)

PageOf(reply, id, carbonize) ==
    CASE reply = "discarded" -> HearDiscarded(page, id)
      [] reply = "complete"  -> HearAccepted(page, id)
      [] reply = "error"     -> HearError(page, id)
      [] reply = "done"      -> HearDone(page, id)
      [] reply = "agent_done" -> IF carbonize THEN HearAccepted(page, id) ELSE page

Decisions == {"accept", "discard"}

Reply(a, reply, named, carbonize, next) ==
    LET id    == agent[a].ev.id
        type  == IF named # None THEN named ELSE Inferred(queue, id, reply)
        hits  == Answerable(queue, id, type)
        acked == IF hits = {} THEN None ELSE queue[FirstOf(hits)].ev.type
        rest  == IF hits = {} THEN queue ELSE RemoveAt(queue, FirstOf(hits))
        over  == hits = {} /\ snap[id].phase \in CompletedPhases
    IN  /\ up
        /\ Journal(id, IF over THEN snap[id]
                       ELSE JournalOf(reply, snap[id], acked, carbonize))
        /\ Flush(rest, [agent EXCEPT ![a] = next])
        /\ Announced(PageOf(reply, id, carbonize))
        /\ strayed' = IF (reply = "error" \/ carbonize)
                         /\ TypesQueued(rest, id) \intersect Decisions # {}
                      THEN strayed \union {id} ELSE strayed
        /\ IF reply = "error" /\ page.conn /\ page.deciding = id
           THEN Misleads(id) ELSE UNCHANGED misled
        /\ UNCHANGED <<up, net, mounted, relet, dropped, unclean>>

(* An agent that does not see the answer to its reply replies again. *)
Afterwards(a, lost) == IF lost THEN agent[a] ELSE Idle

Works(a, types) == agent[a].at = "holding" /\ agent[a].ev.type \in types

ReplyDone(a, lost) ==
    /\ Works(a, {"generate", "variant_mount_failed"})
    /\ agent[a].ev.type = "generate" =>
         source[agent[a].ev.id] = Count \/ agent[a].ev.id \in settled
    /\ IF lost THEN Fault("lost") ELSE UNCHANGED faults
    /\ Reply(a, "done", None, FALSE, Afterwards(a, lost))
    /\ UNCHANGED <<source, settled>>

ReplyError(a) ==
    /\ Works(a, {"generate", "variant_mount_failed"}) /\ Fault("agent")
    /\ Reply(a, "error", None, FALSE, Idle)
    /\ UNCHANGED <<source, settled>>

(* A component that does not compile is bounced after its event has been    *)
(* acknowledged: the agent repairs it and replies again.                    *)
Bounced(a) ==
    /\ Works(a, {"generate", "variant_mount_failed"}) /\ up
    /\ agent[a].ev.id \in mounted /\ Fault("agent")
    /\ LET id   == agent[a].ev.id
           hits == Answerable(queue, id, Inferred(queue, id, "done"))
       IN  hits # {} /\ queue' = RemoveAt(queue, FirstOf(hits))
    /\ UNCHANGED <<snap, up, parked, workVars, page, net, history>>

(* The poller carries a decision out itself, and says which event it means.  *)
(* It replies to the helper it polled: to another one it is a stranger.      *)
CarryOut(a, cleanup) ==
    /\ agent[a].at \in {"holding", "cutoff"} /\ agent[a].ev.type \in Decisions
    /\ LET e    == agent[a].ev
           next == IF cleanup THEN [at |-> "cleanup", ev |-> e] ELSE Idle
       IN  /\ settled' = settled \union {e.id}
           /\ cleanup => e.type = "accept"
           /\ IF up /\ agent[a].at = "holding"
              THEN IF cleanup THEN Reply(a, "agent_done", "accept", TRUE, next)
                   ELSE Reply(a, IF e.type = "accept" THEN "complete" ELSE "discarded",
                              e.type, FALSE, next)
              ELSE /\ agent' = [agent EXCEPT ![a] = next]
                   /\ UNCHANGED <<serverVars, page, net, history>>
    /\ UNCHANGED <<source, faults>>

(* The script could not: it failed, or leaves an accept to the agent. *)
CarryOutFails(a, byHand) ==
    /\ Works(a, Decisions) /\ Fault("agent")
    /\ LET e == agent[a].ev
       IN  IF byHand
           THEN /\ e.type = "accept" /\ e.id \notin mounted
                /\ Reply(a, "agent_done", "accept", FALSE, [at |-> "cleanup", ev |-> e])
           ELSE Reply(a, "error", e.type, FALSE, Idle)
    /\ UNCHANGED <<source, settled>>

(* live-complete, through the helper or into the journal without it. *)
CleanUp(a) ==
    /\ agent[a].at = "cleanup"
    /\ settled' = settled \union {agent[a].ev.id}
    /\ IF up THEN Reply(a, "complete", None, FALSE, Idle)
       ELSE /\ Journal(agent[a].ev.id, Completed(snap[agent[a].ev.id]))
            /\ agent' = [agent EXCEPT ![a] = Idle]
            /\ UNCHANGED <<up, queue, parked, page, net, history>>
    /\ UNCHANGED <<source, faults>>

AgentDies(a) ==
    /\ agent[a].at # "idle" /\ agent[a].at # "hungup" /\ Fault("agent")
    /\ parked' = Without(parked, {a})
    /\ agent' = [agent EXCEPT ![a] = IF @.at = "scaffolding"
                                     THEN [@ EXCEPT !.at = "hungup"] ELSE Idle]
    /\ unclean' = IF agent[a].at = "cleanup" THEN unclean \union {agent[a].ev.id}
                  ELSE unclean
    /\ UNCHANGED <<snap, up, queue, source, settled, page, net, mounted, relet,
                   strayed, dropped, misled>>

(* Mutant form: nobody looks at the parked polls when a lease runs out. *)
LeaseLapsesUnseen(i) ==
    /\ up /\ i \in DOMAIN queue /\ queue[i].leased
    /\ IF \E a \in Agents : agent[a].ev = queue[i].ev
       THEN Fault("lapse") ELSE UNCHANGED faults
    /\ relet' = relet \union {queue[i].ev.id}
    /\ queue' = [queue EXCEPT ![i].leased = FALSE]
    /\ UNCHANGED <<snap, up, parked, agent, source, settled, page, net, mounted,
                   strayed, dropped, misled, unclean>>

(* The lease on an event runs out, with nobody there to answer or while an  *)
(* agent still works on it: it may be handed out again.                     *)
LeaseLapses(i) ==
    /\ up /\ i \in DOMAIN queue /\ queue[i].leased
    /\ IF \E a \in Agents : agent[a].ev = queue[i].ev
       THEN Fault("lapse") ELSE UNCHANGED faults
    /\ ~\E a \in Agents : agent[a].at \in {"scaffolding", "hungup"} /\ agent[a].ev = queue[i].ev
    /\ relet' = relet \union {queue[i].ev.id}
    /\ Flush([queue EXCEPT ![i].leased = FALSE], agent)
    /\ UNCHANGED <<snap, up, source, settled, page, net, mounted, strayed, dropped,
                   misled, unclean>>

-----------------------------------------------------------------------------
(* The helper. *)

Crash ==
    /\ up /\ Fault("crash")
    /\ up' = FALSE /\ queue' = <<>> /\ parked' = <<>>
    /\ agent' = [a \in Agents |->
                   CASE agent[a].at = "holding" /\ agent[a].ev.type \in Decisions ->
                          [agent[a] EXCEPT !.at = "cutoff"]
                     [] agent[a].at \in {"scaffolding", "hungup", "parked"} -> Idle
                     [] OTHER -> agent[a]]
    /\ page' = [page EXCEPT !.conn = FALSE]
    /\ UNCHANGED <<snap, source, settled, net, history>>

(* Every active session's pending event is queued again; the token is new. *)
Restart ==
    /\ ~up
    /\ up' = TRUE
    /\ LET waiting == {s \in Sessions : Active(snap[s]) /\ snap[s].pending # None}
       IN  \E order \in SetToSeqs(waiting) :
              queue' = [i \in DOMAIN order |->
                           [ev |-> snap[order[i]].pending, leased |-> FALSE]]
          /\ relet' = relet \union waiting
    /\ page' = [page EXCEPT !.token = FALSE]
    /\ net' = {[r EXCEPT !.valid = FALSE] : r \in net}
    /\ UNCHANGED <<snap, parked, workVars, faults, mounted, strayed, dropped,
                   misled, unclean>>

-----------------------------------------------------------------------------
PageNext ==
    \/ \E s \in Sessions, annotated \in BOOLEAN : Go(s, annotated)
    \/ CaptureDone \/ Accept \/ Discard \/ Observe \/ Retry
    \/ \E pl \in page.pulls : Inject(pl) \/ Mount(pl) \/ PullIsStale(pl)
    \/ \E pl \in page.pulls, v \in 1..Count : MountFails(pl, v)
    \/ \E v \in 1..Count : CycleFails(v)
    \/ Reload \/ ConnectionLost \/ Connect
    \/ \E s \in Sessions : EditedAway(s)

HelperNext ==
    \/ \E r \in net :
        \/ RequestFails(r)
        \/ ReceiveGenerate(r) \/ ReceiveCheckpoint(r) \/ RefuseCheckpoint(r)
        \/ ReceiveOrphaned(r) \/ ReceiveMountFailure(r)
        \/ \E lost \in BOOLEAN : ReceiveAccept(r, lost) \/ ReceiveDiscard(r, lost)
    \/ \E i \in DOMAIN queue : LeaseLapses(i)
    \/ Crash \/ Restart

AgentNext ==
    \E a \in Agents :
        \/ Poll(a) \/ ScaffoldLands(a) \/ Write(a) \/ ReplyError(a) \/ Bounced(a)
        \/ \E lost \in BOOLEAN : ReplyDone(a, lost)
        \/ \E cleanup \in BOOLEAN : CarryOut(a, cleanup)
        \/ \E byHand \in BOOLEAN : CarryOutFails(a, byHand)
        \/ CleanUp(a) \/ AgentDies(a)

Next == PageNext \/ HelperNext \/ AgentNext

Spec == Init /\ [][Next]_vars

(* Requests arrive or fail, the page's own work and its reconnection go on,  *)
(* the helper is started again, abandoned leases run out, and an agent that  *)
(* lives polls and finishes what it holds.  The user is not obliged to       *)
(* anything, and nothing has to go wrong.                                    *)
Arrived(r) ==
    \/ RequestFails(r) \/ ReceiveGenerate(r) \/ ReceiveCheckpoint(r)
    \/ RefuseCheckpoint(r) \/ ReceiveOrphaned(r) \/ ReceiveMountFailure(r)
    \/ ReceiveAccept(r, FALSE) \/ ReceiveDiscard(r, FALSE)

Abandoned(i) ==
    /\ i \in DOMAIN queue /\ ~\E a \in Agents : agent[a].ev = queue[i].ev
    /\ LeaseLapses(i)

FairSpec ==
    /\ Spec
    /\ WF_vars(\E r \in net : Arrived(r))
    /\ WF_vars(CaptureDone) /\ WF_vars(Observe) /\ WF_vars(Connect)
    /\ WF_vars(\E pl \in page.pulls : Inject(pl) \/ Mount(pl))
    /\ WF_vars(\E pl \in page.pulls : ~Wrapped(pl.id) /\ MountFails(pl, 1))
    /\ WF_vars(Restart) /\ WF_vars(\E i \in DOMAIN queue : Abandoned(i))
    /\ \A a \in Agents :
        /\ WF_vars(Poll(a)) /\ WF_vars(ScaffoldLands(a)) /\ WF_vars(Write(a))
        /\ WF_vars(ReplyDone(a, FALSE)) /\ WF_vars(CarryOut(a, FALSE))
        /\ WF_vars(CleanUp(a))

-----------------------------------------------------------------------------
(* Two agents have one session's generation in hand only when the event was *)
(* handed out again on purpose: its lease ran out, or the helper was started *)
(* again.  leaseEvent claims an entry before it waits for the scaffold.      *)
GeneratedTwiceOnlyWhenRelet ==
    \A a, b \in Agents :
        a # b /\ agent[a].ev # None /\ agent[b].ev # None
        /\ agent[a].ev.type = "generate" /\ SameEvent(agent[a].ev, agent[b].ev)
        => agent[a].ev.id \in relet

(* No agent waits in a poll while an event waits in the queue: every step   *)
(* that queues an event or gives one back looks at the parked polls.        *)
(* Everything has its type besides.                                         *)
NobodyWaitsBesideWork ==
    /\ TypeOK
    /\ parked # <<>> => Available(queue) = {}

(* Once the user has accepted or discarded, the session's generation is not *)
(* in the queue: nothing is generated for a session that was decided, unless *)
(* another session's accept failed while the page showed it generating.      *)
DecisionRetiresGeneration ==
    \A i \in DOMAIN queue :
        queue[i].ev.type = "generate" /\ queue[i].ev.id \notin misled
            => ~snap[queue[i].ev.id].canceled

(* A session that was decided is never again one to be generated, resumed or *)
(* adopted, whatever is published, reported or scaffolded afterwards: a      *)
(* failure of the agent is all that may still be told of it.  The exception  *)
(* is a session decided before it was scaffolded, because another session's  *)
(* accept failed while the page showed it.                                   *)
DecidedStaysDecided ==
    [][\A s \in Sessions \ misled : Fenced(snap[s]) =>
          /\ snap'[s].canceled = snap[s].canceled
          /\ snap'[s].phase \in FencedPhases \union {"agent_error"}]_vars

(* A queued decision of an open session is also the event a restarted       *)
(* helper would queue again.                                                *)
DecisionsSurviveRestart ==
    \A i \in DOMAIN queue :
        LET s == queue[i].ev.id
        IN  queue[i].ev.type \in Decisions /\ Active(snap[s])
            => snap[s].pending # None /\ snap[s].pending.type \in Decisions

(* ... unless the reply to another event of the session, a failure or an    *)
(* accept that leaves cleanup, was journaled while the decision was queued,  *)
(* or the decision came before the scaffold.                                *)
ForgottenDecisionWasStrayed ==
    \A i \in DOMAIN queue :
        LET s == queue[i].ev.id
        IN  queue[i].ev.type \in Decisions /\ Active(snap[s]) /\ s \notin strayed \union misled
            => snap[s].pending # None /\ snap[s].pending.type \in Decisions

(* Only a session of another project is given up as one: a checkpoint never *)
(* overtakes the event that creates its session.                            *)
OnlyForeignSessionsDropped == dropped = {}

(* A page that waits for variants does not wait for ever: it shows them, or  *)
(* lets the session go, or the journal says why none are to come: the agent  *)
(* failed, or the session was decided before the page took it up again.  A   *)
(* page whose helper was replaced has to be reloaded first.                  *)
WaitingEnds ==
    \A s \in Sessions :
        page.cur = s /\ page.st = "GENERATING"
            ~> \/ page.cur # s \/ page.st # "GENERATING"
               \/ snap[s].phase = "agent_error" \/ Fenced(snap[s]) \/ ~page.token

(* What the user has decided is carried out and its session closed, through  *)
(* a restart of the helper and the death of the agent that had it, unless    *)
(* the agent fails, or dies with the accept acknowledged and its cleanup     *)
(* still to be done: no event is left that would ask another one for it.     *)
DecisionsEnd ==
    \A s \in Sessions :
        snap[s].canceled
            ~> snap[s].phase \in CompletedPhases \union {"agent_error"} \/ s \in unclean
=============================================================================
