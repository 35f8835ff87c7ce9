--------------------------- MODULE CatalogHolder ---------------------------
(***************************************************************************)
(* One process's in-memory copy of the catalogue: store.Catalog with the   *)
(* readers that answer from it and the writes that make it out of date     *)
(* (internal/store/catalog.go, internal/store/snapshot.go).                *)
(*                                                                         *)
(* The catalogue's contents are abstracted to one version number per       *)
(* topic: a shop's own page, or AnyList, standing for every list a full    *)
(* change can move.  A reader is a goroutine serving one anonymous request *)
(* and takes one step per shared-memory operation of Catalog.Current, so   *)
(* writes and other readers fall between any two of them.                  *)
(*                                                                         *)
(* Time is relative: a copy carries its age, saturating at MaxAge because  *)
(* no comparison in the code tells older copies apart.                     *)
(***************************************************************************)
EXTENDS Naturals

CONSTANTS
    Stores,      \* shops with a page of their own
    AnyList,     \* the topic that stands for every catalogue list
    Readers,     \* anonymous requests being served
    Writers,     \* requests that write to the catalogue in this process
    NoCopy,      \* the nil *Snapshot
    MaxAge,      \* Catalog.maxAge, in ticks
    FreshFor,    \* Catalog.freshFor, in ticks
    ReloadEvery, \* catalogReloadEvery, in ticks
    RetryAfter,  \* catalogRetryAfter, in ticks
    MaxWrites    \* bound: no write starts once this many have taken a number

Topics == Stores \cup {AnyList}
Versions == [Topics -> Nat]
Unread == [t \in Topics |-> 0]

Copies == [epoch : Nat, age : 0 .. MaxAge, saw : Versions]
Blank == [epoch |-> 0, age |-> 0, saw |-> Unread]

ASSUME HolderAssumption ==
    /\ MaxAge \in Nat \ {0}
    /\ FreshFor \in 0 .. MaxAge
    /\ ReloadEvery \in Nat
    /\ RetryAfter \in Nat
    /\ MaxWrites \in Nat
    /\ AnyList \notin Stores
    /\ NoCopy \notin Copies

VARIABLES
    db,       \* committed version of every topic
    told,     \* versions whose writers have finished invalidating here
    epoch,    \* Catalog.epoch
    stale,    \* Catalog.stale
    dirty,    \* Catalog.dirty: shop -> number of its last page change, 0 if absent
    current,  \* Catalog.current
    loading,  \* Catalog.loading
    retryIn,  \* ticks until Catalog.retryAt
    pc,       \* reader -> where it is in Current
    want,     \* reader -> the topic it asks for
    floor,    \* reader -> what was told of that topic when its request arrived
    held,     \* reader -> the *Snapshot it holds
    reason,   \* reader -> why it refreshes
    draft,    \* reader -> the copy it is reading from the database
    wpc,      \* writer -> where it is
    scope,    \* writer -> the topics its write changes
    made,     \* writer -> db, as its write committed it
    mark      \* writer -> the number it took from epoch

readerVars == <<pc, want, floor, held, reason, draft>>
writerVars == <<wpc, scope, made, mark>>
catalogVars == <<epoch, stale, dirty, current, loading, retryIn>>
vars == <<db, told, catalogVars, readerVars, writerVars>>

ReaderStates == {"idle", "pick", "judge", "retry", "acquire", "begin", "load",
                 "install", "clean", "repick", "answer", "copy", "database"}
Reasons == {"missing", "invalidated", "max_age", "awake"}
Scopes == {{s} : s \in Stores} \cup {T \in SUBSET Topics : AnyList \in T}

Larger(a, b) == IF a >= b THEN a ELSE b

-----------------------------------------------------------------------------
(* Startup: Load reads the catalogue before the port opens; when that fails *)
(* there is no copy and the first request may not try again at once.        *)

Load ==
    \/ /\ current = Blank
       /\ retryIn = 0
    \/ /\ current = NoCopy
       /\ retryIn = RetryAfter

Init ==
    /\ db = Unread
    /\ told = Unread
    /\ epoch = 0
    /\ stale = 0
    /\ dirty = [s \in Stores |-> 0]
    /\ Load
    /\ loading = FALSE
    /\ pc = [r \in Readers |-> "idle"]
    /\ want = [r \in Readers |-> AnyList]
    /\ floor = [r \in Readers |-> 0]
    /\ held = [r \in Readers |-> NoCopy]
    /\ reason = [r \in Readers |-> "missing"]
    /\ draft = [r \in Readers |-> Blank]
    /\ wpc = [w \in Writers |-> "idle"]
    /\ scope = [w \in Writers |-> {AnyList}]
    /\ made = [w \in Writers |-> Unread]
    /\ mark = [w \in Writers |-> 0]

-----------------------------------------------------------------------------
(* Writers: a committed write, then Invalidate or InvalidateStore.          *)

\* The database commits a write to every topic in T.
Commit(w) ==
    /\ wpc[w] = "idle"
    /\ epoch < MaxWrites
    /\ \E T \in Scopes :
        /\ db' = [t \in Topics |-> IF t \in T THEN db[t] + 1 ELSE db[t]]
        /\ scope' = [scope EXCEPT ![w] = T]
    /\ made' = [made EXCEPT ![w] = db']
    /\ wpc' = [wpc EXCEPT ![w] = "committed"]
    /\ UNCHANGED <<told, catalogVars, readerVars, mark>>

\* mark := c.epoch.Add(1), the first step of Invalidate and of InvalidateStore.
TakeNumber(w) ==
    /\ wpc[w] = "committed"
    /\ epoch' = epoch + 1
    /\ mark' = [mark EXCEPT ![w] = epoch + 1]
    /\ wpc' = [wpc EXCEPT ![w] = "numbered"]
    /\ UNCHANGED <<db, told, stale, dirty, current, loading, retryIn,
                   readerVars, scope, made>>

\* The write returns: from here on its author expects to see it.
Tell(w) ==
    /\ told' = [t \in Topics |-> IF t \in scope[w] THEN Larger(told[t], made[w][t])
                                                   ELSE told[t]]
    /\ wpc' = [wpc EXCEPT ![w] = "idle"]
    /\ scope' = [scope EXCEPT ![w] = {AnyList}]
    /\ made' = [made EXCEPT ![w] = Unread]
    /\ mark' = [mark EXCEPT ![w] = 0]
    /\ UNCHANGED <<db, epoch, current, loading, retryIn, readerVars>>

\* A form of the raise that lets a lower number land last.
RaiseStaleBlindly(w) ==
    /\ wpc[w] = "numbered"
    /\ AnyList \in scope[w]
    /\ stale' = mark[w]
    /\ UNCHANGED dirty
    /\ Tell(w)

\* Invalidate's loop: stale is raised, never lowered.
RaiseStale(w) ==
    /\ wpc[w] = "numbered"
    /\ AnyList \in scope[w]
    /\ stale' = Larger(stale, mark[w])
    /\ UNCHANGED dirty
    /\ Tell(w)

\* InvalidateStore's loop: the shop's entry is raised, never lowered.
RaiseDirty(w) ==
    /\ wpc[w] = "numbered"
    /\ AnyList \notin scope[w]
    /\ dirty' = [s \in Stores |-> IF s \in scope[w] THEN Larger(dirty[s], mark[w])
                                                    ELSE dirty[s]]
    /\ UNCHANGED stale
    /\ Tell(w)

-----------------------------------------------------------------------------
(* Readers: one anonymous catalogue read, through Catalog.Current.          *)

Goto(r, label) == pc' = [pc EXCEPT ![r] = label]
Invalid(copy) == copy = NoCopy \/ copy.epoch < stale

Arrive(r) ==
    /\ pc[r] = "idle"
    /\ \E t \in Topics :
        /\ want' = [want EXCEPT ![r] = t]
        /\ floor' = [floor EXCEPT ![r] = told[t]]
    /\ Goto(r, "pick")
    /\ UNCHANGED <<db, told, catalogVars, held, reason, draft, writerVars>>

\* snap := c.current.Load()
Pick(r) ==
    /\ pc[r] = "pick"
    /\ held' = [held EXCEPT ![r] = current]
    /\ Goto(r, "judge")
    /\ UNCHANGED <<db, told, catalogVars, want, floor, reason, draft, writerVars>>

\* snap is not used again until Current loads it anew.
Refresh(r, why) ==
    /\ reason' = [reason EXCEPT ![r] = why]
    /\ held' = [held EXCEPT ![r] = NoCopy]
    /\ Goto(r, "retry")

\* The switch of Current without its comparison with stale.
JudgeByAgeAlone(r) ==
    /\ pc[r] = "judge"
    /\ IF held[r] = NoCopy
       THEN Refresh(r, "missing")
       ELSE \/ /\ held[r].age >= MaxAge
               /\ Refresh(r, "max_age")
            \/ /\ held[r].age < MaxAge
               /\ Goto(r, "answer")
               /\ UNCHANGED <<reason, held>>
    /\ UNCHANGED <<db, told, catalogVars, want, floor, draft, writerVars>>

\* The switch of Current.  Whether the database is awake for somebody else is
\* not this process's to choose: an old enough copy may or may not be replaced.
Judge(r) ==
    /\ pc[r] = "judge"
    /\ LET snap == held[r] IN
       \/ /\ snap = NoCopy
          /\ Refresh(r, "missing")
       \/ /\ snap # NoCopy /\ Invalid(snap) /\ snap.age < ReloadEvery
          /\ Goto(r, "database")
          /\ UNCHANGED <<reason, held>>
       \/ /\ snap # NoCopy /\ Invalid(snap) /\ snap.age >= ReloadEvery
          /\ Refresh(r, "invalidated")
       \/ /\ ~Invalid(snap) /\ snap.age >= MaxAge
          /\ Refresh(r, "max_age")
       \/ /\ ~Invalid(snap) /\ snap.age \in FreshFor .. (MaxAge - 1)
          /\ Refresh(r, "awake")
       \/ /\ ~Invalid(snap) /\ snap.age < MaxAge
          /\ Goto(r, "answer")
          /\ UNCHANGED <<reason, held>>
    /\ UNCHANGED <<db, told, catalogVars, want, floor, draft, writerVars>>

\* refresh's first condition: not within catalogRetryAfter of a failed read.
CheckRetry(r) ==
    /\ pc[r] = "retry"
    /\ Goto(r, IF retryIn > 0 THEN "repick" ELSE "acquire")
    /\ UNCHANGED <<db, told, catalogVars, want, floor, held, reason, draft, writerVars>>

\* refresh without the compare-and-swap on loading.
AcquireAlways(r) ==
    /\ pc[r] = "acquire"
    /\ loading' = TRUE
    /\ Goto(r, "begin")
    /\ UNCHANGED <<db, told, epoch, stale, dirty, current, retryIn, want, floor,
                   held, reason, draft, writerVars>>

\* refresh's second condition, loading.CompareAndSwap(false, true).
Acquire(r) ==
    /\ pc[r] = "acquire"
    /\ loading' = TRUE
    /\ Goto(r, IF loading THEN "repick" ELSE "begin")
    /\ UNCHANGED <<db, told, epoch, stale, dirty, current, retryIn, want, floor,
                   held, reason, draft, writerVars>>

\* reload takes the number and the time before it reads anything.
ReadEpoch(r) ==
    /\ pc[r] = "begin"
    /\ draft' = [draft EXCEPT ![r] = [Blank EXCEPT !.epoch = epoch]]
    /\ Goto(r, "load")
    /\ UNCHANGED <<db, told, catalogVars, want, floor, held, reason, writerVars>>

\* c.load: one repeatable-read transaction sees one state of the database.
ReadDatabase(r) ==
    /\ pc[r] = "load"
    /\ draft' = [draft EXCEPT ![r].saw = db]
    /\ Goto(r, "install")
    /\ UNCHANGED <<db, told, catalogVars, want, floor, held, reason, writerVars>>

\* A failed read that leaves loading set.
FailAndStayLoading(r) ==
    /\ pc[r] = "load"
    /\ retryIn' = RetryAfter
    /\ Goto(r, "repick")
    /\ UNCHANGED <<db, told, epoch, stale, dirty, current, loading, want, floor,
                   held, reason, draft, writerVars>>

\* A failed read that puts the next one off from where the last left it.
FailAndAddWait(r) ==
    /\ pc[r] = "load"
    /\ retryIn' = retryIn + RetryAfter
    /\ loading' = FALSE
    /\ Goto(r, "repick")
    /\ UNCHANGED <<db, told, epoch, stale, dirty, current, want, floor, held,
                   reason, draft, writerVars>>

\* c.load fails, or passes catalogLoadTimeout: the copy held stays.
FailToRead(r) ==
    /\ pc[r] = "load"
    /\ retryIn' = RetryAfter
    /\ loading' = FALSE
    /\ Goto(r, "repick")
    /\ UNCHANGED <<db, told, epoch, stale, dirty, current, want, floor, held,
                   reason, draft, writerVars>>

\* c.current.Store(snap)
Install(r) ==
    /\ pc[r] = "install"
    /\ current' = draft[r]
    /\ Goto(r, "clean")
    /\ UNCHANGED <<db, told, epoch, stale, dirty, loading, retryIn, want, floor,
                   held, reason, draft, writerVars>>

\* Every page entry dropped, whatever its number.
CleanAll(r) ==
    /\ pc[r] = "clean"
    /\ dirty' = [s \in Stores |-> 0]
    /\ loading' = FALSE
    /\ Goto(r, "repick")
    /\ UNCHANGED <<db, told, epoch, stale, current, retryIn, want, floor, held,
                   reason, draft, writerVars>>

\* dirty.Range drops the page entries the new copy covers; refresh returns.
\* Each entry is judged on its own, so the order among them shows nowhere.
Clean(r) ==
    /\ pc[r] = "clean"
    /\ dirty' = [s \in Stores |-> IF dirty[s] <= draft[r].epoch THEN 0 ELSE dirty[s]]
    /\ loading' = FALSE
    /\ Goto(r, "repick")
    /\ UNCHANGED <<db, told, epoch, stale, current, retryIn, want, floor, held,
                   reason, draft, writerVars>>

\* After refresh, Current loads the copy again and checks only what sent it there.
Repick(r) ==
    /\ pc[r] = "repick"
    /\ held' = [held EXCEPT ![r] = current]
    /\ LET usable == CASE reason[r] \in {"missing", "invalidated"} -> ~Invalid(current)
                       [] reason[r] = "max_age" -> current.age < MaxAge
                       [] OTHER -> TRUE
       IN  Goto(r, IF usable THEN "answer" ELSE "database")
    /\ reason' = [reason EXCEPT ![r] = "missing"]
    /\ draft' = [draft EXCEPT ![r] = Blank]
    /\ UNCHANGED <<db, told, catalogVars, want, floor, writerVars>>

ChangedSince(copy, s) == dirty[s] > copy.epoch

\* The copy answers: any list, or a page not changed since the copy was read.
AnswerFromCopy(r) ==
    /\ pc[r] = "answer"
    /\ want[r] \in Stores => ~ChangedSince(held[r], want[r])
    /\ Goto(r, "copy")
    /\ UNCHANGED <<db, told, catalogVars, want, floor, held, reason, draft, writerVars>>

\* The copy leaves a page to the database: changed since, or a shop it does not
\* know or that has posts, which is any shop as far as this model can tell.
LeaveToDatabase(r) ==
    /\ pc[r] = "answer"
    /\ want[r] \in Stores
    /\ Goto(r, "database")
    /\ UNCHANGED <<db, told, catalogVars, want, floor, held, reason, draft, writerVars>>

\* The request ends, answered from the copy or from the database.
Leave(r) ==
    /\ pc[r] \in {"copy", "database"}
    /\ Goto(r, "idle")
    /\ want' = [want EXCEPT ![r] = AnyList]
    /\ floor' = [floor EXCEPT ![r] = 0]
    /\ held' = [held EXCEPT ![r] = NoCopy]
    /\ UNCHANGED <<db, told, catalogVars, reason, draft, writerVars>>

-----------------------------------------------------------------------------

Older(copy) == IF copy = NoCopy THEN NoCopy
               ELSE [copy EXCEPT !.age = IF @ < MaxAge THEN @ + 1 ELSE MaxAge]

\* The clock.
Tick ==
    /\ current' = Older(current)
    /\ held' = [r \in Readers |-> Older(held[r])]
    /\ draft' = [r \in Readers |-> Older(draft[r])]
    /\ retryIn' = IF retryIn > 0 THEN retryIn - 1 ELSE 0
    /\ UNCHANGED <<db, told, epoch, stale, dirty, loading, pc, want, floor,
                   reason, writerVars>>

Write(w) == Commit(w) \/ TakeNumber(w) \/ RaiseStale(w) \/ RaiseDirty(w)
Reload(r) == ReadEpoch(r) \/ ReadDatabase(r) \/ FailToRead(r) \/ Install(r) \/ Clean(r)
Current(r) == Pick(r) \/ Judge(r) \/ CheckRetry(r) \/ Acquire(r) \/ Reload(r) \/ Repick(r)
Serve(r) == Current(r) \/ AnswerFromCopy(r) \/ LeaveToDatabase(r) \/ Leave(r)

Next ==
    \/ \E w \in Writers : Write(w)
    \/ \E r \in Readers : Arrive(r) \/ Serve(r)
    \/ Tick

Spec == Init /\ [][Next]_vars

\* Requests keep arriving and are served to their end, writes finish, time
\* passes, and a read of the database that keeps being tried succeeds some time.
Fairness ==
    /\ WF_vars(Tick)
    /\ \A w \in Writers : WF_vars(TakeNumber(w) \/ RaiseStale(w) \/ RaiseDirty(w))
    /\ \A r \in Readers : WF_vars(Arrive(r)) /\ WF_vars(Serve(r)) /\ SF_vars(ReadDatabase(r))

FairSpec == Spec /\ Fairness

-----------------------------------------------------------------------------
(* Properties.                                                              *)

\* Every variable holds a value of its type.
TypeOK ==
    /\ db \in Versions /\ told \in Versions
    /\ epoch \in Nat /\ stale \in Nat /\ dirty \in [Stores -> Nat]
    /\ current \in Copies \cup {NoCopy}
    /\ loading \in BOOLEAN /\ retryIn \in 0 .. RetryAfter
    /\ pc \in [Readers -> ReaderStates]
    /\ want \in [Readers -> Topics]
    /\ floor \in [Readers -> Nat]
    /\ held \in [Readers -> Copies \cup {NoCopy}]
    /\ reason \in [Readers -> Reasons]
    /\ draft \in [Readers -> Copies]
    /\ wpc \in [Writers -> {"idle", "committed", "numbered"}]
    /\ scope \in [Writers -> Scopes]
    /\ made \in [Writers -> Versions]
    /\ mark \in [Writers -> Nat]

\* A list answered from the copy shows every full change whose write had
\* returned, in this process, when the reader's request arrived: "whoever made
\* the change sees it on the next page they open".
ListsFresh ==
    \A r \in Readers :
        pc[r] = "copy" /\ want[r] = AnyList => held[r].saw[AnyList] >= floor[r]

\* The copy in place, where Current and Store would answer from it, has read
\* every change whose write has returned: the number a write takes after it
\* commits and the number a reload takes before it reads never cross.
CopyInPlaceIsFresh ==
    ~Invalid(current) =>
        /\ current.saw[AnyList] >= told[AnyList]
        /\ \A s \in Stores : ~ChangedSince(current, s) => current.saw[s] >= told[s]

\* A reload puts in place a copy at least as new as the one it replaces: two
\* loads never overlap, so a slow one cannot bring an older catalogue back.
CopyNeverGoesBack ==
    [][current # NoCopy =>
        /\ current' # NoCopy
        /\ current'.epoch >= current.epoch
        /\ \A t \in Topics : current'.saw[t] >= current.saw[t]]_vars

AnswersPage(r) == pc[r] = "answer" /\ pc'[r] = "copy" /\ want[r] \in Stores

\* A shop's page answered from the copy shows every change to that page whose
\* write had returned when the reader's request arrived (the comment on
\* InvalidateStore: "That page goes to the database until a copy read after
\* this moment is in place").
PagesFresh ==
    [][\A r \in Readers :
        AnswersPage(r) => held[r].saw[want[r]] >= floor[r]]_vars

\* What the code does ensure of pages: an answer older than a returned write
\* comes only from a copy that has been replaced since the reader took it up.
StalePageOnlyFromReplacedCopy ==
    [][\A r \in Readers :
        AnswersPage(r) =>
            \/ held[r].saw[want[r]] >= floor[r]
            \/ current.epoch > held[r].epoch]_vars

\* Once writes stop, a copy that covers them all comes into place for good.
CopyCatchesUp == <>[](~Invalid(current))

=============================================================================
