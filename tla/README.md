# Formal models of the HOME API

TLA+ models of the Go service in this repository (the API behind bosagezme.com)
and of the concurrent part of the design tooling that lives beside it
(`.agents/skills/impeccable`), the TLC configurations that check them on small
instances, and theorems about them that TLAPS checks for every instance.

Every definition names the code it stands for in `PROJECT.json` under `map`. The
models keep the control of the code -- every state change, guard, early return
and error path, and the order they come in -- and abstract its data to what the
properties tell apart.

## 1. The system

One Go binary (`cmd/api`) serves HTTP, drains the mail outbox, sweeps personal
data past its retention and rolls up daily metrics. It runs as several instances
on Cloud Run over one PostgreSQL database. The database suspends itself after five
quiet minutes and the service is built to let it: anonymous catalogue reads are
answered from memory, and the instances tell each other what they wrote through
one object in Cloud Storage. The interesting behaviour is therefore in how copies
in memory, the database and other instances fall out of step and come together
again.

| Component | State it keeps | Operations | What makes it correct |
|---|---|---|---|
| Catalogue copy (`internal/store/catalog.go`, `snapshot.go`) | a pointer to an immutable copy of the catalogue; the write counter `epoch`; `stale`, `dirty`; the flag `loading`; `retryAt` | `Load`, `Current`, `refresh`, `reload`, `Invalidate`, `InvalidateStore` | a copy never answers for a write that has returned and that it has not read; loads do not overlap; the copy catches up |
| Answer cache (`internal/readcache`) | entries, a recency list, a group index, a byte count, the drop counter | `Get`, `Mark`, `Put`, `Drop`, `DropKeys`, `Clear` | the parts agree; the budget holds; no entry outlives a write of it |
| Change marker (`internal/changes`) | one object per environment: run, sequence number, last entries; per instance what it has seen and what it could not tell | `Publish`, `Check`, `Flush` over conditional writes | news is never dropped or overwritten; a look leaves nothing told before it undropped; every instance hears |
| Server (`internal/server`) | none of its own | HTTP handlers; `answer`, `fromCatalog`, `changed`, `forget`, `catchUp` | what a write announces covers what it changed |
| Sign-in (`internal/auth`, `internal/security`) | codes, sessions and identities in the database | request, verify, refresh, logout, change of address, account deletion | codes are single use and limited; a replayed token revokes its family |
| Mail outbox (`internal/email`) | `email_outbox` rows | enqueue, claim, send, record | every message is sent, or given up with a reason; leases exclude two senders while they last |
| Reviews (`internal/social`, `internal/moderation`) | posts, comments, likes, follows, visit proofs, `store_stats` | create, delete, verify a visit, like, follow, comment | counts agree with rows; a visit proof is used once |
| Search (`internal/search`, `internal/textnorm`) | searches, results, suggestions | parse, retrieve, rank, record | ordering is total and stable |
| Catalogue import (`internal/catalog`, `internal/brand`) | stores, external sources, the match queue | harvest, match, import, merge, retire | one row per physical shop; a retired shop is not resurrected by mistake |
| Administration (`internal/admin`) | catalogue rows, moderation state, audit log | editorial writes, merges, decisions | every write is audited and announced |
| Reporting (`internal/reporting`) | events, day aggregates | record, aggregate, rebuild | an event counts once |
| Privacy sweep (`internal/privacy`) | retention deadlines | sweep | nothing outlives its retention |
| Media (`internal/media`) | uploads and objects | sign, complete, publish | only completed uploads are shown |
| Live mode sessions (`.agents/skills/impeccable/scripts`: `live-server.mjs`, `live/session-store.mjs`, `live-poll.mjs`, `live-browser.js`) | the helper's journal, event queue and parked polls; the page's session and its saved record; what each agent has in hand | Go, generate, checkpoint, accept, discard, mount failure, poll, lease, reply, complete; reload, restart | a generation is in one agent's hands; no poll waits beside work; what the user decides stays decided and is carried out |
| Live mode source writers (`live/source-lock.mjs`, `live-accept.mjs`, `live/svelte-component.mjs`, `live/manual-apply.mjs`) | the source file, the lock file, receipts, component manifests, the snapshot of a manual edit | acquire, sweep, release; find, read, write, record; roll back | one writer at a time; a decision is applied once; a receipt says what the file shows |
| Design tooling (the rest of `.agents`) | none the service sees | detectors, prompts, hooks | see section 7 |
| Feedback, notification, user, location, i18n, config, middleware, observability | rows or process configuration | reads and single statements | see section 7 |

How they interact: an anonymous read calls `catchUp` (the marker), then the catalogue
copy, then the answer cache, then the database. A write commits in the database,
then `changed` drops what it made out of date here (`forget`: cache first, then
copy) and tells the others (`Publish`). Another instance learns of it in the
`catchUp` of a reader of its own and runs the same `forget`.

What is hard: several goroutines share the copy and the cache without a common lock;
a write's commit and its drops are separate steps with builds of answers in
between; instances start, stop and are killed at any point of this; Cloud Storage
refuses, conflicts, or takes a write and loses the answer.

The design tooling is a program of its own: a page in the browser, a helper process on
the developer's machine and agents that poll it, over files. There the hard things are a
page that is reloaded, a helper that is restarted, agents that die with work in hand, answers
that are lost, and several short-lived processes that rewrite one source file.

## 2. The modules

| Module | Models | State | Actions |
|---|---|---|---|
| `CatalogHolder` | `store.Catalog` in one process, with readers and writers | the fields of `Catalog`; per reader its place in `Current` and the copy it holds; per writer its number | one per shared-memory operation of `Current`, `refresh`, `reload`, `Invalidate`, `InvalidateStore` |
| `ReadCache` | `readcache.Cache` in one process, with `Server.answer` and `Server.forget` | the fields of `Cache`; per request its mark and answer; per write the calls `forget` has yet to make | one per critical section |
| `ChangeMarker` | `changes.Marker` in several instances over one object | the object; per instance the fields of `Marker`; per write its place in `Publish` | one per request to Cloud Storage or section under `Marker.mu` |
| `EmailOutbox` | `email_outbox`, the `email.Worker` of every instance and the requests that write rows | the rows; per worker its place in `Run` and `once`, its timer, its nudge and the row in its hands; writes not announced yet | one per statement, per call of the provider, per nudge; crashes, restarts, the clock and workers it leaves stalled |
| `MailPromise` | what the outbox promises whoever writes into it | per message what became of it, how many copies the provider took and of how many the outbox never hears | write, reach, doubt, settle, give up, erase; lapse and overwrite |
| `ShopRecords` | `posts`, `store_visit_verifications`, `favorites`, `store_stats` and the transactions of `social`, `store`, `admin` and `user` that write them | the committed rows, their newest versions, who holds each; per request its place in its transaction | one per statement, or per group of statements no other can tell apart; commit and abort |
| `SignIn` | codes, identities, sessions and accounts, and the transactions of `auth`, `user` and `admin` that write them | the committed rows, their newest versions, who holds each; per request its place, what it read, what it is about to write | one per statement, or per group of statements no other can tell apart; commit, abort, retry |
| `LiveJournal` | `live/session-store.mjs` and the queue of `live-server.mjs` as operators: what each journaled event makes of a session's snapshot, and what enqueueing, leasing and retiring make of the queue | | |
| `LiveSession` | one live session between the page, the helper and the agents; extends `LiveJournal` | the snapshots, the queue, the parked polls; per agent what it has; the page with its saved record; the requests on their way | one per request sent, per request received, per poll, reply and step of an agent; reload, crash, restart, lapse |
| `SourceLock` | `withSourceLockSync` | the lock file; per process its place in the function | one per call on the file system, death, a minute going by |
| `AcceptScript` | the runs of `live-accept.mjs` on one source file with the rollback of a manual edit; extends `SourceLock` | the file, manifests, receipts; per run its decision, its place and the file as it read it; the snapshot | one per read or write of a file |
| `CatalogHolderProofs`, `ReadCacheProofs`, `ChangeMarkerProofs`, `EmailOutboxProofs`, `ShopRecordsProofs`, `SignInProofs`, `LiveSessionProofs`, `AcceptScriptProofs` | theorems about eight of them | | |
| `MC...` | instances for TLC | | |

### CatalogHolder

The catalogue's contents are one version number per *topic*: a shop's own page, or
`AnyList`, which stands for every list a full change can move. A write increments
the versions of its topics and then takes the two steps of `Invalidate` (a number
from `epoch`, then the raise of `stale`) or of `InvalidateStore` (a number, then the
shop's entry of `dirty`). The raise is a compare-and-swap loop in the code; its
result is one atomic step, which is what the model takes. A reader is a goroutine in
`Current`: it loads the pointer, judges the copy, may pass the two conditions of
`refresh`, reads the epoch, reads the database, installs, cleans `dirty`, loads the
pointer again. Time is relative: a copy carries its age, which saturates at `MaxAge`
because no comparison in the code tells older copies apart. The sleep of the
database (`awake`) is a free choice of `Judge`.

`told` is a history variable: the versions whose writers have finished invalidating.
`floor` is what was told of a reader's topic when it arrived. The promises of the code's
comments ("whoever made the change sees it on the next page they open") are about
these.

### ReadCache

An answer is the number of the last write that changed it. The entries of the cache
are kept as the code keeps them: the map, the recency list (as the pairs of entries of which the
first is nearer to the front), the index by group and the byte count, so that `removeLocked`, eviction and expiry can go wrong in the model the way
they can in the code. The keys are given: which group a key belongs to (`GroupOf`) and
how many bytes it takes are constants. A merge of shops that changes which shop a
reference resolves to is not modelled, nor is the key of the popular cities, which no
change drops by name. `imported` is a history variable: the keys an import changed without
announcing them (see section 6).

### ChangeMarker

News is a set of writes; merging two `Change`s is their union and `everything()` is the
set of all writes. Whatever an instance may still answer from before a write is in
`owes`: it grows when another instance's write commits and shrinks when `forget` runs.
The object is a run, a first and a last sequence number and the entries between. A
`Marker` loops over Read and Write in `write` exactly as the code does, with the store
free to refuse, to conflict, and to take a write whose answer is lost; `GiveUp` covers
every error return and the timeout. Check is split at every request to the store. Clocks of
the instances agree in the model and `clockSkew` is 0; the code's ten seconds only make
the first look take more entries. An instance that is told to stop finishes its
requests and flushes; one that is killed, or that runs out of its ten seconds, is `Crash`.

### EmailOutbox

A worker's round is the loop of `Run`: `Begin` takes the nudge or the timer, `Ask` is the
look outside any transaction, `Claim` the `FOR UPDATE SKIP LOCKED` statement and its update,
`Deliver` the rendering and the call of the provider, `Record` the statement that writes the
outcome. `After` is the rest of the loop body, with `NextPoll`, so that the sleep a round
chooses is the one the code chooses. Time is counted in ticks from now: a row carries how long
until it is due and how old its claim is, a worker how long it still sleeps and how long it
has held its row. The provider may take a message and lose its answer, refuse it for now or
for good; the database may fail a look, a claim (whose commit may have happened) or a record;
an instance may die anywhere, and what its writers had not announced (`untold`) dies with it.
`MaxFaults` of these happen in a behaviour. A row is written by one request, so rows are not
reused after they settle; an erased row stands for one removed with its account or by the
retention sweep. What a message says is not modelled.

`Send` has a timeout, `SendLimit`; the statements that record what came of it have none, and nothing
in them looks at whose row it has become (`Marked` writes by id). A worker that holds its row beyond `SendLimit`
is stalled, which is a fault like the others and may last for the lease or longer; another
worker may take the row over meanwhile, and the two then record in any order. From the tick at which a worker has held its row
for its lease the row is in `outlived`.

`told`, `accepted`, `excused` and `outlived` are history variables: the rows an instance was told of or has
seen, how often the provider took a message, how often a fault hid that from the outbox, and the
rows whose worker outlived its lease.

`MailPromise` has nothing of workers and leases. A message is owed until it is sent, given up or
erased; a copy may leave only while no earlier copy can still be known to have arrived; it is marked
sent only when a copy is known to have arrived, given up only when none is. `EmailOutbox` maps a row
to what it says has become of its message (`MailOf`), the provider's count to `copies` and the hidden
ones to `doubts`; its property `Promised` is the refinement. A delivery is a `Reach`, a record a
`Settle` or a `GiveUp`, a crash between the two a `Doubt`, and claims, retries and the clock stutter. Nothing but the lease keeps
two workers off a row, so a message whose worker outlived it has lapsed (`Lapse`): more copies may leave, and an overtaken worker may
write its own outcome over another's (`Overwrite`). What is left of the promise then is that a message is marked sent
only after a copy was taken, and that an erased one stays erased.

### ShopRecords

A request is a transaction at READ COMMITTED, which is what `pgx` opens by default and what every
`s.db.Begin` here gets. `db` is what is committed, `draft` the newest version of each row, `lock`
the transaction that wrote that version. A statement sees `Sees(j, r)`: its own writes on top
of what is committed. It writes a row only when nobody else holds it (`Free`); a row whose
foreign key it takes is referred to (`refs`), which excludes only another's `FOR UPDATE`
(`Firm`). Waiting for a row is the guard of an action, so a deadlock is two requests whose next
actions are both disabled; PostgreSQL ends one of them, which is `Abort`, and so are the refusals,
the cancelled requests and the failures of the database. A request that is over stays `done`.

The recount of `store_stats` is the one statement whose two halves matter: the reviews are
counted in the snapshot the statement starts with (`Recount`) and the row is written when it
is free (`Write`), by then over whatever was added to it. The half that shows is kept in the row:
`missed` says which of its numbers a recount wrote that was already out of date.

What is coarser than the code: `Wipe` is the whole list of statements of `DeleteAccount`, `Insert`
the review with the use of its proof, `Begin` the lock of the proof with the look at the shop; a
proof's expiry is an `Abort`; a renewed proof is the old one, so the renewal is no step; the
average is not modelled beside the count, since the same statements write both. The
author's standing is read when the request arrives, before the moderation check, as the code does.
Initial states are those that reviews written and proofs given one after the other leave.

`uncounted` is a history variable: the numbers an account's deletion left as they were.

### SignIn

Rows, locks and statements are those of `ShopRecords`, with two isolation levels. `VerifyCode`, `Google` and
`ChangeEmail` open SERIALIZABLE transactions: what they read is settled when they begin (`Start`), and they fail
on a row that was committed since (`moved`, which `Commit` fills for whoever has begun). The other
requests are READ COMMITTED: an `UPDATE ... WHERE` finds its rows as the statement starts (`Hunt`,
`LookForCodes`) and writes them when they are free, if they are still what it looks for (`Strike`,
`ReplaceCodes`). A new session refers to its user (`refs`): that waits for, and holds up, another's
`FOR UPDATE` of the user (`Firm`) and passes an `UPDATE` that touches no key (`Refer`). Every other
refusal -- a conflict PostgreSQL sees beyond that, an expired code or session, a limit per visitor -- is
`Abort`, which may always happen; `Again` is the retry of `identityRace`.

What a request makes is named after the request: its code, its session and the family that starts with
it, its account. A session made by a rotation keeps the family of the one it replaces. Initial states are
those earlier requests leave one after the other: per account a family in which each session
has replaced the one before, per address one code.

`uses` and `wrong` count per code the transactions that used it up and the guesses answered with
"wrong"; `ended` are the families that a replayed token, a logout, a suspension or a deletion ended, and
`outlived` those of them one of whose sessions was being rotated as the statement looked.

Left out: `LinkVisitor`, the sweep of old rows, profile fields, the limits per visitor and network address, the
mail a code travels in (it is an `EmailOutbox` row) and everything cryptographic. A guess is one of the
open codes of the address or none. `Moving` compares values, so a row written back as it was is no conflict in
the model, as it would be in PostgreSQL; that allows more than the database does.

### LiveJournal and LiveSession

A session's snapshot is the fold of its journal, as `session-store.mjs` computes it; appending an
event and folding it are one step. The queue keeps the order and the priorities of
`pendingEvents`, and `Flush` hands out freed events to parked polls wherever the code calls
`flushPendingPolls`. The page sends its requests without waiting for one another, so `net` is a
set and any may arrive next; its answer comes back in the same step, or is lost. What the
page keeps in `sessionStorage` survives a reload, the journal survives the helper. An agent
polls, has its scaffold made while the lease runs, writes the variants, replies, carries out decisions
and cleans up; it may fail or die in any of these. A lease that lapses gives the event
back. `relet`, `strayed`, `dropped`, `misled` and `unclean` are history variables: events handed out again, sessions a
reply to another event was taken for, sessions the page gave up, sessions shown while another's accept was found to
have failed (section 6), cleanups nobody did.

Coarser than the code: a fetch of the source by the page is one step; the revisions of
checkpoints are kept, their 120 ms delay and the twenty retries after a lost server are not; the port of a
restarted helper is the old one. Left out: steering, exit, prefetch, the staging of manual
edits, poll lanes (an agent asks for every type), acknowledgements of mounted variants, the
observer of scouts, progress broadcasts and the list of mount failures kept for display.

### SourceLock and AcceptScript

One step is one call on the file system. The lock file is created empty and written afterwards; a
waiter reads it, then asks for the age of what is there by then (`Stat`), then unlinks what is there by *then* (`Sweep`),
so the sweep of a dead lock can hit a living one. Any lock file grows old (`Age`), written or not. A run is a process and runs once; process numbers are not
reused. The source is a state per session of that file -- undecided, original, a variant, or a component
put in twice -- and `Torn` between being emptied and being filled. `ReadMarked` and
`ReadComponent` are the second reading, under the lock; `Truncate` and `Fill` the two halves of
`writeFileSync`; `Unmount` the removal of the preview, which may fail without the run taking notice (`Removes`, a fault); `Emit` the receipt. `Ends` kills a run anywhere, as the
poller does after thirty seconds. `Snapshot`, `Commit` and `RollBack` are a manual edit, which writes the
whole file back without the lock.

An accepted component replaces lines or is inserted, and an emptied file has a line to be inserted at.
`judged`, `stalled`, `undone` and `halfway` are history variables; the last is the sessions whose preview a run
has left behind. Left out: the line numbers a component's
accept took when it was wrapped, edits by agents themselves and by `live-wrap` and `live-insert`, which
do not take the lock, and the text.

## 3. The runs

| Run | Instance | Shows |
|---|---|---|
| `holder_readers` | 2 readers, 1 writer, 1 shop, age up to 2 | types, `CopyInPlaceIsFresh`, `CopyNeverGoesBack`, `StalePageOnlyFromReplacedCopy` |
| `holder_writers` | 1 reader, 2 writers, full changes only | `ListsFresh`; under fairness `CopyCatchesUp` |
| `readcache` | 2 requests, 1 writer, 2 shops, 4 keys, room for 2 or 3 entries | `IndexExact` (with the types), `StoredFresh` |
| `marker` | 2 instances, 2 writes sent to one of them, 1 entry kept, 2 starts, 1 lost answer or broken object | `NewsKept` (with the types), `UnbrokenLooksCatchUp`, `EntriesOnlyAdded`, `FollowersLoseNothing` |
| `marker_live` | 2 instances, 1 write, no fault | under fairness `NewsArrives` and `KeptNewsIsTold` |
| `outbox` | 2 instances, 1 message, 3 faults of any kind, rounds of 1 | `OneHolder`, `NoRowIsForgotten` (with the types); the refinement `Promised` |
| `outbox_live` | 1 instance, 2 messages, 2 faults, rounds of 2 | `RetryIsWaitedFor`; under fairness `EveryMailSettles` |
| `shops` | 3 requests of any kind, 1 user, 2 shops, 2 reviews, 2 proofs | `ProofUsedOnce`, `DriftHasACause` (with the types), `DecisionsStand` |
| `sign_in` | 3 requests of any kind, 1 account, 2 addresses, 1 Google account, 1 code, 2 sessions, 2 guesses, 2 attempts | types, `CodeUsedOnce`, `GuessesCounted`, `OneLivePerFamily`, `DeletionEndsSessions`, `EndedUnlessOutlived` |
| `live` | 1 session of 2 variants, 2 agents, 2 requests in flight, any 1 fault of 8 kinds | `GeneratedTwiceOnlyWhenRelet`, `NobodyWaitsBesideWork` (with the types), `DecisionRetiresGeneration`, `ForgottenDecisionWasStrayed`, `DecidedStaysDecided` |
| `live_ends` | 1 session of 1 variant, 1 agent, 1 fault | under fairness `WaitingEnds` and `DecisionsEnd` |
| `source` | 3 runs, 2 sessions, 1 variant, 1 fault | types, `OneWriter`, `AppliedOnce`, `DoubledWhenLeftBehind`, `ReceiptsHold` |

### Bounds

Two of everything that can race is enough for the properties above: each is broken by one
actor overtaking another once, and every mutant of `PROJECT.json` (a plausible slip in one
definition) is caught inside these bounds. Ages go up to 2 so that fresh, due and expired
copies are distinct. The answer cache has room for two small answers and one answer that fits
the budget while its entry (with its key) does not, so that eviction of one, of several, and
of the new entry itself occur. The object keeps a single entry in `marker`, so that trimming
happens at the second write. In the outbox's runs the times keep the order they have in the code where it
matters: a delivery is shorter than the lease unless a fault stalls it, and in `outbox` the idle ceiling is longer
than the lease, the longest backoff and the busy interval after any number of failures the
faults allow, so that forgetting a row shows; a row is given up at its second attempt, so
that a retry, a giving up and a claim taken over all occur; a row may be erased in both. One message in the hands of two
instances is enough for a takeover and for one record over another, two messages for a retry that other mail goes past. Three faults let a worker
stall beyond its lease (two ticks, a fault each) and one more thing go wrong.
Three requests let two race while a third has come before or comes between: a review, a recount and a
merge, or two recounts and a review. One user is enough for a proof to be contended and for an
account to be deleted under its own requests; that favourites of several users add up is the sum of
the same statement. Two agents and one session are enough for an event to be handed out twice and for
a reply to answer the wrong event of the session; sessions share only the queue, where they do
not touch each other's events. In `sign_in` the three requests are enough for a request that ends sessions to meet a rotation
while a third brings the token back, and for a code to be asked for, guessed and used at once; the account's
session and the one that replaced it let a replayed token find its family. `MaxTries` is 2 where the code has 5, `Turns` 2
where it has 3: a limit is reached, a retry happens. Two variants let one mount and the other fail. Three runs of the
accept script let a run die, a second sweep its lock and a third come in between; two sessions let a
writer take back another's. The theorems of section 5 hold without the bounds.

`CHECK_DEADLOCK FALSE` is set where a behaviour may end: `ReadCache`, `ChangeMarker`, `ShopRecords` and `SignIn`,
whose bounds on writes, starts and requests end it, and `LiveSession` and `AcceptScript`, whose sessions
and runs do. Symmetry is used in `outbox`, `marker` (the two
writes, which go to one instance), `shops`, `sign_in` (the requests), `live` (the agents) and `source` (runs and sessions), which
check no liveness.

## 4. Fairness

* `CatalogHolder!Fairness`: requests keep arriving and a request that is running goes on (Go
  schedules its goroutine); writes finish; time passes; a reload that is tried again and again
  succeeds some time (strong fairness of `ReadDatabase` against `FailToRead`). The code itself
  retries only when a reader comes, which is why arrivals are fair.
* `ChangeMarker!Fairness`: a request under way goes on; readers keep arriving at an
  instance that is up (strong fairness of `Look`, which a flush or a restart may disable for a
  while); Cloud Storage answers again and again (strong fairness of the reads and writes). No
  fairness is assumed of `Commit`, `Start`, `Stop`, `Crash` or any failure.
* `EmailOutbox!FairSpec`: time passes, the worker's goroutine goes on, and the platform starts a
  stopped instance again. No writer, no nudge and no `DatabaseInUse` is fair: `EveryMailSettles`
  rests on the worker's own timer. A message a provider refuses for ever is given up; a database
  that fails for ever is outside the model, which has `MaxFaults` faults. Time passes a stalled
  worker by only as far as the faults allow.
* `LiveSession!FairSpec`: requests on their way arrive, the page's screenshot and its observer come to
  an end, `EventSource` reconnects, sources fetched are put in or found not to mount; a crashed helper is
  started again; an agent that lives polls, writes, replies, carries out and cleans up, and a lease nobody
  holds any more runs out. The user is not obliged to decide, to retry or to reload; no fault is fair.

## 5. What is proved

`CatalogHolderProofs` proves for any number of readers, writers, shops and any time bounds:
types, `ListsFresh`, `CopyInPlaceIsFresh` and `CopyNeverGoesBack`. The inductive invariant says
of every copy anywhere -- in place, held, being read -- that it has read each topic up to every
write whose number is at most the copy's epoch, that numbers taken are at most `epoch`, and that
a topic told beyond a copy is covered by `stale` or by `dirty`; `loading` admits one reader
between `begin` and `clean`. It needs the order the code keeps: the write takes its number after
it commits, the reload takes its number before it reads.

The same module proves that a page is answered out of date only from a copy that was replaced while its
reader held it (`StalePageOnlyFromReplacedCopy`). The invariant (`PageInv`) follows the entries of `dirty`: while the copy in
place does not cover a write of a shop that has returned, the shop has an entry, and a reader that finds it does not
answer from that copy; `Clean` takes an entry out only when the copy in place covers it, so that a reader whose copy does
not holds an older one. Readers sent to `refresh` by the age of the copy take what they find there and
compare it with nothing, so that the copy in place, and the one being read for them, must show them their page.

`ReadCacheProofs` proves for any keys, requests, writers and budget that no stored answer is
older than a write that was answered (`StoredFresh`), and that no reader is served one, imports
aside. The invariant says of every key a running write changed that either a call of `forget`
that covers it is still to come, or what is stored and what may still be stored shows the
write; a drop refuses every mark taken before it. Which entries the budget evicts plays no part
in this.

It plays the main part in `IndexExact`, which the same module proves for any keys, sizes and budget (`PartsAgree`,
types included): the recency list has every entry in one place, the groups are those of the entries, and the count
is the sum of their bytes and within the budget. The sum of the community modules is defined by a recursive function over the
subsets of a set; that there is such a function, that one suffices for all sets, and that a sum splits into those of two
parts (`AdderAdds`, `AddersAgree`, `SumSplit`) is shown by induction over finite sets (`SetInduction`), stated
of a set of sets and resting on the least member of a set of numbers (`LeastNumber`). Then each critical section keeps
the parts together, whichever entries it removes (`ExactWithout`), so that what an eviction takes matters only for the
budget: of the entries that stay the one furthest back has nothing behind it but what goes, and without that the count
was within the budget (`BudgetMet`); if none stays the count is zero.

`ChangeMarkerProofs` proves for any instances, topics, writes, faults and restarts that news once posted stays
(`EntriesOnlyAdded`, and `NewsKept` for the news a write has told), that an instance whose object is unbroken
catches up whenever it looks (`UnbrokenLooksCatchUp`), and that the followers of an object lose nothing of what
was told through it (`FollowersLoseNothing`). The inductive invariant first says what the conditional writes
of Cloud Storage give: a generation stands for one version of the object and no other (`Version`), so that
whatever is remembered, compared or in flight with that generation is that version. Stamps rise with the entries
of one run of the object, and the name of a run is fresh, so that a broken object is never taken for one that was followed.
On that it builds what an instance owes: only writes of others, stamped after it started (`Owing`); and that each of
them is an entry after the last one the instance has seen, or the instance cannot tell and forgets everything
(`Following`, `Unbroken`).

`EmailOutboxProofs` proves for any instances, messages, faults, stalls and times that a message is in
the hands of one worker at a time until a worker has held it for longer than its lease (`OneHolder`). The invariant says of every
row that is not in `outlived` that the worker that holds it finds it claimed or erased, that its claim is exactly as old as its worker's
hold on it and no older than `Lease`, and that two holders never hold it: a claim is taken over only when older
than `Lease`, by which tick the row is in `outlived`, and a worker that records gives its row up in the same step.

The same module builds on that and proves the refinement (`WorkersKeepThePromise`): every step of any number
of workers is a step of `MailPromise` or none. The invariant it adds (`Ledger`) balances the books of the rows that are not
in `outlived`: a message was taken as often as faults hid it, or once more; it was taken once more exactly when its row says sent,
or while the row is claimed (or erased) and the worker that has it knows. That a claim takes a row nobody
knows anything of, that a worker about to deliver has nothing in doubt, and that its record finds the row as
it claimed it, all rest on `OneHolder`. Of the others the books keep only that what a worker is about to mark sent was
taken: a worker overtaken by another settles such a message a second time, which is the `Overwrite` of `MailPromise`, and the tick that
makes a row one of them is its `Lapse`.

A third invariant (`RestInv`) bounds the sleep of the workers, and with it `NoRowIsForgotten` (types included)
and `RetryIsWaitedFor` are proved. Whoever was told of a row was told of one that is written, and what is settled stays
settled, `outlived` rows aside, so that no other row becomes unfinished behind a worker that sleeps; a round never goes on after
a call that found a retry, so that the wait is the last call's; and the call waits for what the look found first, for a
moment, or for as long as failed rounds double it to. A tick then brings a row and the worker that waits for it nearer
alike. What doubles is written as a recursive function (`Doubled`): that it is defined, and grows, is shown by
induction, stated of the least member of a set of numbers (`LeastMember`). `EveryMailSettles` is model-checked.

`AcceptScriptProofs` proves, for any runs, sessions and variants and any number of faults, that the
lock file admits one writer at a time (`LockExcludes`), that the scripts' runs use it as its users do
(`RunsTakeTheLock`), and from that `OneWriter`, `AppliedOnce`, `DoubledWhenLeftBehind`, `ReceiptsHold` and
types. The lock's invariant: while no lock was judged stale twice and no minute cost a living process its lock (passing while that was
empty, or while another process paused between its look and its stat), whoever is
inside owns the lock file, whoever is about to sweep is right about what it sweeps, and an old lock that anybody may
still find old is a dead process's. The runs' invariant says that the file, and every reading of it
that is about to be written back, is faithful to the receipts and to the runs that have applied; a reading taken under the
lock stays current until it is written because nobody else writes, a rollback is accounted for by `undone`, and a preview that outlives its acceptance by `halfway`.

`ShopRecordsProofs` proves for any users, shops, reviews, proofs and requests that a proof is used by
one committed review at most (`ProofUsedOnce`). The invariant looks at the newest versions of the
rows, not at the committed ones only: no two reviews have one proof there, and a proof a review has is
spent there. That a transaction may be undone makes it say two things more: a committed review's
proof is never forgotten by a newer version, and a review and its proof are committed together or
held by one transaction, so that neither is undone without the other. A review about to be
inserted holds its proof, which is open, and so no review has it. `SeesNewest` is the
lemma about the isolation level that everything rests on: a row a transaction may write is seen in
its newest version.

The same module proves that the numbers of a shop drift only for a cause the code shows (`DriftHasACause`,
types included) and that a decision about a review stands (`DecisionsStand`). The books are kept per
transaction (`Books`): one that has changed what is shown of a shop, or who likes it, still owes that shop
the count, has written its numbers, has merged the shop away, or is the deletion `uncounted` records; the
numbers a transaction has written agree with the rows as that transaction sees them, unless `missed` says a
recount was overtaken; and a transaction that may commit owes nothing. What another request commits is then
counted already, so nobody else's numbers are put out by it. A shop that is gone stays gone in every
version (`Gone`), and the newest version of a review's state is one the committed state may still become
(`Decisions`). Numbers are cardinalities, so this needs that a table holds finitely many rows
(`FinitenessAssumption`).

`SignInProofs` proves for any accounts, codes, sessions and requests that a family has one live session
(`OneLivePerFamily`), that a deleted account has none (`DeletionEndsSessions`), and that a family that was ended
has none unless a rotation outlived it (`EndedUnlessOutlived`). The invariant compares the two versions of every
session. A committed session keeps its user and its family; two sessions of a family that are live, one in the
newest version and one in the committed, are those of one rotation, so that undoing or committing it never leaves
both. A session not yet committed is its own family's first, or replaces one that its writer has rotated (`Newborn`), and
its writer refers to its user or holds the user's row. That reference is why a deletion, which takes the
user `FOR UPDATE` first, finds every session of the account: who else holds the user touches no key of it
(`KeepersInv`). A statement that ends sessions has found, from the time it starts, every live session of a
family or the one a rotation has replaced since (`Found`); the latter is what `outlived` records.

On that invariant rests that a code is used once (`CodeUsedOnce`) and that no
wrong answer about it goes uncounted or beyond the limit (`GuessesCounted`), for any limit, codes and requests (the second part of `SignInProofs`). A request that is
about to take its code saw it open, or the code has moved since and PostgreSQL refuses the request; one that has compared
it holds its row, whose newest version is the committed one after that guess (`CodeOf`). So what is committed with the
answer is the answer: in between nobody else writes the row, and a request that is undone leaves no trace
in either. The one other way to a code's row, the deletion of an account, goes by the address, and a row not
committed yet has none that it could find (`Reachable`, `Unsent`).

The types of the tables come last (`TypesHold`), for they need the rest: what a deletion or a statement that ends
sessions writes has the form of a code or a session only because the rows it found have (`JobInv`), a count of guesses
stays within the limit because the code that was counted was one below it, and a session that is there
has a family, so that what is ended are families (`SessionRecords`).

`LiveSessionProofs` proves for any sessions, agents, variants and faults that two agents have one generation in hand
only when its event was let out again (`OneAgentPerGeneration`) and that nobody waits in a poll beside work
(`PollsAreServed`, types included). The first rests on `Worked`: no two entries of the queue are the same
event, an event in an agent's hands is leased wherever it is queued, and nobody else has it, unless it was let out
again; a session's generation is asked for once, since the request that asks for it leaves the page before the
journal knows the session and the page asks for no session twice. The second follows what `Flush` does: the
entries it gives out are the first ones in the order of `Before`, one per poll and as many as there are polls, so that either
the polls or the free entries are used up (`FlushServes`); that ranks are consecutive is shown by
counting the entries ahead of another (`RankOfAhead`, `PlacesFilled`).

It also proves what a decision is worth, for any number of sessions, where the run has one: that a decided
session's generation is out of the queue (`DecisionRetires`), that a restarted helper would queue the decision again
(`DecisionsAreRemembered`), and that nothing the journal is told later takes it back (`DecisionsAreFinal`), each with the
exceptions of section 6 (`strayed`, `misled`). Three more invariants carry this. `Fitting` says that whoever holds or has
queued a decision holds one the journal has, so that only a carried out decision is ever called complete or
discarded, and that a generation without its scaffold is in one pair of hands. `Unspoilt` is about time: as long
as a session's journal is unknown, or its generation waits for its scaffold, nothing anywhere could lead to a decision:
no variant in the source, none on the page or in its saved record, no read under way that could find one, no request but its
creation and the page's progress. This is why a late scaffold, which is journaled without a look at what was
decided, never meets a decision, and it is exactly what an accept that fails late breaks (`misled`).
`Closed` then follows the journal: after a decision the phase stays among those of decided sessions or the agent's failure,
and what is queued of it agrees with the event to be queued again.

The proofs assume only the named assumptions on the constants (`HolderAssumption`,
`CacheAssumption`, `MarkerAssumption`, `TimesAssumption`, `RecordsAssumption`, `FinitenessAssumption`, `SignInAssumption`, `CountAssumption`, `SessionsAssumption`, `BoundsAssumption`, `LockAssumption`, `ScriptAssumption`). `TimesAssumption` carries the order of the code's constants, a delivery (10 s)
shorter than the lease (5 minutes); no safety theorem needs it, since a worker may be stalled beyond both. Liveness
is out of the prover's reach and is model-checked only. Every safety invariant the runs check is a
theorem as well.

## 6. Where the code and its comments disagree

Each of these shows as a counterexample when the definition in brackets is checked, or is visible in the
model where none is named. No run of the project checks them: what is promised there is not said in
so many words, or is the reading of one comment.

Caches and marker:

1. **A replaced copy can answer an old page** (`PagesFresh`). `reload` deletes the entries of
   `dirty` that its new copy covers, and `dirty` is shared by all copies. A request that took the
   previous copy before that finds the entry gone and answers the page as it was before the
   write. `StalePageOnlyFromReplacedCopy` shows this is the only way.
2. **An import announces no shop** (`AnswersFresh`). `adminImportBrand`, and
   `adminResolveMatch` when it merges, call `catalogueChanged()` without the shops they rewrote;
   the stored pages of those shops stay until they expire.
3. `refresh` compares `retryAt` before it takes `loading`, so a request that compared before another's read
   failed reads at once after it. An instance that has not looked yet does not notice that the marker's object
   was removed or started again, which is why `UnbrokenLooksCatchUp` speaks of unbroken objects.

Mail and reviews:

4. **One failed delivery holds the others up** (`DrainedAtOnce`). `once` returns a delivery's error even
   when it has recorded it, so `Run` ends the round and sleeps the failed message's backoff, 1 to
   256 minutes, while another message is due whose nudge was spent on this round.
   `docs/CHANGELOG.md` says a queue with mail is drained at once.
5. **A merge leaves a late review behind** (`NothingLeftBehind`). `MergeStores` moves the reviews first and
   takes its first lock on a shop near its end. A `CreateReview` that has looked at the dropped shop
   commits after the reviews were moved and its review stays on a shop that is gone. And a merge fails with an
   error, where its comment speaks of rows skipped, when one user has an unused proof of both shops.

6. **An overtaken worker overwrites the outcome** (`OneHolder` without `outlived`, `Promised` without `lapsed`). Only `Send`
   is limited in time. The statements that record (`email.go:548`, `560`) run on `context.Background()` and go by id alone, so a worker held up for the five minutes of its lease finds its row claimed, sent or
   failed by another and writes its own outcome over that: a message that was sent may become failed and be sent again.

Sign-in:

7. **A family that was ended can live on** (`EndedUnlessOutlived` without its last line). `docs/frontend-handoff.md`
   says that reuse of a rotated token revokes the whole family. The statement revokes what it sees as
   it starts; the session that a rotation has not committed yet is not among it and stays good. The same
   holds of a logout, and of a suspension: the session that escaped is refused while the user is suspended and good
   again after a reactivation. A deletion is safe: it locks the user first (`DeletionEndsSessions`).
8. **Two requests for a code leave two open codes.** Each invalidates what was committed before it. The newer is
   the one that is compared; once it is used, the older is good again.
9. **A conflict at the code is answered as a wrong code.** A serialization failure at the `SELECT ... FOR UPDATE`
   leaves `expires` zero, which is tested before the error: the answer is `INVALID_CODE` where `identityRace` would
   have tried again.
10. **A rotation never looks at the user.** `Refresh` gives a suspended user a new session; `ActiveAccount`
   refuses it while the suspension lasts.

Live mode:

11. **The checkpoint of Go can overtake it** (`OnlyForeignSessionsDropped`). The comment at `live-browser.js:7135` says
    progress never overtakes the event that creates its session. The gate it describes closes when the generate event is
    posted, after the screenshot; `sendCheckpoint('generate_started')` is sent before that, the helper
    answers `unknown_session`, and the page drops what it has just begun.
12. **A reply may hide a decision from the next helper** (`DecisionsSurviveRestart`). When a reply to a
    generation that was handed out again is journaled over a decision, a helper started later does not queue
    the decision again; `ForgottenDecisionWasStrayed` shows this is the only way.
13. **An accept that fails late is shown on another session** (`DecidedStaysDecided` without `misled`, with two sessions).
    The `catch` of `handleAccept` sets the page to CYCLING whatever it shows by then. When the page has gone on to another session
    whose variants are not written yet, its user may discard that one before its scaffold is there; the
    scaffold is then journaled over the decision and the session is asked for again. `misled` records the sessions this
    may have happened to; the properties of a decision speak of the others. The run has one session, where it cannot happen;
    the proofs cover any number of them.
14. **The sweep of a dead lock can take a living one** (`OneWriter` without `LockKept`). `clearStaleLock` reads the
    lock and unlinks it by path. Of two waiters that judge one dead lock, the second may unlink the
    lock the first has made since. A lock found unreadable is swept after a minute even when its maker is only
    stalled. And the age that is compared is that of the file there by then: a waiter that finds no lock, or an empty one, and
    pauses for a minute before its `statSync` (`source-lock.mjs:98`) sweeps a lock written meanwhile by a process
    that lives, where the comments (6-8, 84-91) say a readable lock is never swept by its age. Then, `releaseOwnLock` takes an unreadable lock for its own.
15. **A manual edit is rolled back without the lock** (`ReceiptsHold` without `undone`). What an accept has written
    since the snapshot is overwritten, while its receipt says applied.
16. **A run that is killed leaves work that is not done again, or is done twice.** `writeFileSync` empties the file
    first: a kill there leaves it empty, and the next run finds no markers. A kill between
    writing a component and removing its preview has the component put in a second time, and so has a removal that fails, which
    `removeSvelteComponentSession` swallows (`svelte-component.mjs:1108-1110`) while the accept reports success (`DoubledWhenLeftBehind`
    shows that nothing else does). A discard of a component overwrites an accept's receipt.

## 7. What is not modelled, and why

* *Search*: parsing is tables of words; the ranking is arithmetic on floating-point scores, and TLC has no
  reals. Nothing is shared between two searches but rows that are written once.
* *Catalogue import and brand pages*: what matches what is decided by names and distances, in SQL and
  floating point. Its effect on the caches (what it announces) is in `ReadCache`, its merges in
  `ShopRecords`.
* *Reporting*: an event counts once because its key is unique, a day is rebuilt by one statement in one
  transaction under an advisory lock; the rest is SQL.
* *Media*: the client uploads to the store directly; the service signs and later compares sizes and types.
* *Middleware*: per request, but for a rate limiter that is one counter behind one mutex.
* *Input and output without a decision in it*: templates, providers' HTTP calls, Cloud Storage's
  HTTP, tracing, metrics, translation tables, configuration.
* *Comments, likes and follows*: rows of the same kind as reviews and favourites, with no numbers kept
  beside them.
* *Single statements*: profile reads and updates, feedback, locations, notification preferences, the
  retention sweep. What could go wrong there is in the SQL, which PostgreSQL checks.
* *One-off commands* (`cmd/merge-twins` and its like), run by hand one at a time.
* *The rest of the design tooling under `.agents`*: pattern detectors, hooks, prompts and context loaders are
  functions of a page or a file with no state between calls; the question server is input and output. They are
  bundled third-party JavaScript and make up most of the lines of the repository (the detectors' rules alone
  exist in two generated copies), so the share of all lines that the models cover is small and is
  to be read per component, in `PROJECT.json`.

`PROJECT.json` lists every part with its status.

## 8. What would come next

1. An abstract `FreshReads` (a reader sees every write announced before it arrived, up to the copy's
   life) with `ReadCache` and `CatalogHolder` shown to implement it, and a composition of the two
   with `ChangeMarker` across instances.
2. Several sessions in `LiveSession`, when the helper comes to share more between them than the queue.
