----------------------------- MODULE ReadCache -----------------------------
(***************************************************************************)
(* The per-answer cache of one process (internal/readcache) with the       *)
(* anonymous requests that fill it (Server.answer) and the writes that     *)
(* drop from it (Server.forget).                                           *)
(*                                                                         *)
(* An answer is abstracted to the version of the catalogue it shows for    *)
(* its key: the number of the last write that changed it.  Every method of *)
(* Cache holds the mutex throughout and is one step; between two calls of  *)
(* one request or of one write, anything may run.  The recency list is the *)
(* pairs <<k, l>> of entries of which k is nearer to the front.            *)
(***************************************************************************)
EXTENDS Integers, FiniteSets, Functions, Relation

CONSTANTS
    Keys,        \* the keys asked for
    Groups,      \* what an answer can be about: the shops, and the highlights
    GroupOf,     \* Keys -> Groups, what the answer under a key is about
    NearbyKeys,  \* the keys with the prefix "nearby|"
    Highlights,  \* highlightsGroup
    BodyBytes,   \* Keys -> bytes of the answer
    KeyBytes,    \* Keys -> bytes of the key
    Budget,      \* Cache.budget
    Requests,    \* requests being answered
    Writers,     \* requests that write
    MaxWrites    \* bound on the writes of a behaviour

Shops == Groups \ {Highlights}
Calls == Groups \cup {"Clear", "DropKeys"}

ASSUME CacheAssumption ==
    /\ Keys # {}
    /\ GroupOf \in [Keys -> Groups]
    /\ NearbyKeys \subseteq Keys
    /\ Highlights \in Groups
    /\ "Clear" \notin Groups /\ "DropKeys" \notin Groups
    /\ BodyBytes \in [Keys -> Nat \ {0}]
    /\ KeyBytes \in [Keys -> Nat]
    /\ Budget \in Nat
    /\ MaxWrites \in Nat

VARIABLES
    cache,    \* the Cache: entries, groups, order, bytes and drops
    shown,    \* key -> the last write that changed what the database answers
    told,     \* key -> the last write that changed it and has finished dropping
    pc,       \* request -> where it is in answer
    want,     \* request -> its key
    mark,     \* request -> what Mark said
    body,     \* request -> version of the answer it holds
    floor,    \* request -> told of its key when it arrived
    writes,   \* writes committed
    todo,     \* writer -> the calls forget has yet to make
    scope,    \* writer -> the keys whose answers its write changed
    made,     \* writer -> the number of its write
    imported  \* the keys an import changed without announcing it

requestVars == <<pc, want, mark, body, floor>>
writerVars == <<writes, todo, scope, made, imported>>
vars == <<cache, shown, told, requestVars, writerVars>>

Newer(m, n) == IF m > n THEN m ELSE n

-----------------------------------------------------------------------------
(* The cache: what each critical section makes of it.                       *)

Weight(S) == SumFunctionOnSet([k \in Keys |-> BodyBytes[k] + KeyBytes[k]], S)

Empty == [held |-> {}, version |-> [k \in Keys |-> 0],
          fresh |-> [k \in Keys |-> FALSE],
          index |-> [g \in Groups |-> {}], order |-> {}, bytes |-> 0]

New == [entries |-> Empty, drops |-> 0]

\* removeLocked, of each of the held keys in S.
Without(c, S) ==
    [held    |-> c.held \ S,
     version |-> [k \in Keys |-> IF k \in S THEN 0 ELSE c.version[k]],
     fresh   |-> [k \in Keys |-> k \notin S /\ c.fresh[k]],
     index   |-> [g \in Groups |-> c.index[g] \ {k \in S : GroupOf[k] = g}],
     order   |-> {p \in c.order : p[1] \notin S /\ p[2] \notin S},
     bytes   |-> c.bytes - Weight(S)]

\* A new entry whose key is not counted.
WithFrontUncounted(c, k, v) ==
    [held    |-> c.held \cup {k},
     version |-> [c.version EXCEPT ![k] = v],
     fresh   |-> [c.fresh EXCEPT ![k] = TRUE],
     index   |-> [c.index EXCEPT ![GroupOf[k]] = @ \cup {k}],
     order   |-> c.order \cup ({k} \X c.held),
     bytes   |-> c.bytes + BodyBytes[k]]

\* A new entry of version v at the front.
WithFront(c, k, v) ==
    [held    |-> c.held \cup {k},
     version |-> [c.version EXCEPT ![k] = v],
     fresh   |-> [c.fresh EXCEPT ![k] = TRUE],
     index   |-> [c.index EXCEPT ![GroupOf[k]] = @ \cup {k}],
     order   |-> c.order \cup ({k} \X c.held),
     bytes   |-> c.bytes + BodyBytes[k] + KeyBytes[k]]

\* The oldest entries go until the budget is met: one goes if without those
\* behind it the count was still above.
Excess(c) ==
    {k \in c.held : c.bytes - Weight({l \in c.held : <<k, l>> \in c.order}) > Budget}

\* Put over an existing entry without removing it first.
StoredOver(c, k, v) ==
    LET put == WithFront(c, k, v)
    IN  Without(put, Excess(put))

\* Put, once its mark is accepted.
Stored(c, k, v) ==
    LET put == WithFront(Without(c, c.held \cap {k}), k, v)
    IN  Without(put, Excess(put))

\* What Drop(group), DropKeys("nearby|") and Clear remove.
Dropped(c, call) ==
    CASE call = "Clear"    -> c.held
      [] call = "DropKeys" -> c.held \cap NearbyKeys
      [] OTHER             -> c.held \cap c.index[call]

-----------------------------------------------------------------------------
Init ==
    /\ cache = New
    /\ shown = [k \in Keys |-> 0] /\ told = [k \in Keys |-> 0]
    /\ pc = [r \in Requests |-> "idle"]
    /\ want = [r \in Requests |-> CHOOSE k \in Keys : TRUE]
    /\ mark = [r \in Requests |-> 0]
    /\ body = [r \in Requests |-> 0] /\ floor = [r \in Requests |-> 0]
    /\ writes = 0
    /\ todo = [w \in Writers |-> {}]
    /\ scope = [w \in Writers |-> {}]
    /\ made = [w \in Writers |-> 0]
    /\ imported = {}

(* A request: Get, and on a miss Mark, build, Put.                          *)

Goto(r, label) == pc' = [pc EXCEPT ![r] = label]

Arrive(r) ==
    /\ pc[r] = "idle"
    /\ \E k \in Keys :
        /\ want' = [want EXCEPT ![r] = k]
        /\ floor' = [floor EXCEPT ![r] = told[k]]
    /\ Goto(r, "get")
    /\ UNCHANGED <<cache, shown, told, mark, body, writerVars>>

\* Get: a hit moves the entry to the front.
Hit(r) ==
    /\ pc[r] = "get"
    /\ want[r] \in cache.entries.held
    /\ cache.entries.fresh[want[r]]
    /\ cache' = [cache EXCEPT !.entries.order =
                    {p \in @ : p[2] # want[r]}
                        \cup ({want[r]} \X (cache.entries.held \ {want[r]}))]
    /\ body' = [body EXCEPT ![r] = cache.entries.version[want[r]]]
    /\ Goto(r, "hit")
    /\ UNCHANGED <<shown, told, want, mark, floor, writerVars>>

\* Get: a miss; an entry past its lifetime is removed.
Miss(r) ==
    /\ pc[r] = "get"
    /\ ~(want[r] \in cache.entries.held /\ cache.entries.fresh[want[r]])
    /\ cache' = [cache EXCEPT !.entries = Without(@, @.held \cap {want[r]})]
    /\ Goto(r, "mark")
    /\ UNCHANGED <<shown, told, want, mark, body, floor, writerVars>>

Mark(r) ==
    /\ pc[r] = "mark"
    /\ mark' = [mark EXCEPT ![r] = cache.drops]
    /\ Goto(r, "build")
    /\ UNCHANGED <<cache, shown, told, want, body, floor, writerVars>>

\* The build's first query; what its later queries read can only be newer.
Build(r) ==
    /\ pc[r] = "build"
    /\ body' = [body EXCEPT ![r] = shown[want[r]]]
    /\ Goto(r, "put")
    /\ UNCHANGED <<cache, shown, told, want, mark, floor, writerVars>>

\* Put without its comparison of the mark.
PutUnmarked(r) ==
    /\ pc[r] = "put"
    /\ BodyBytes[want[r]] <= Budget
    /\ cache' = [cache EXCEPT !.entries = Stored(@, want[r], body[r])]
    /\ Goto(r, "built")
    /\ UNCHANGED <<shown, told, want, mark, body, floor, writerVars>>

Put(r) ==
    /\ pc[r] = "put"
    /\ BodyBytes[want[r]] <= Budget
    /\ mark[r] = cache.drops
    /\ cache' = [cache EXCEPT !.entries = Stored(@, want[r], body[r])]
    /\ Goto(r, "built")
    /\ UNCHANGED <<shown, told, want, mark, body, floor, writerVars>>

\* The answer is not stored: it is larger than the budget, something was
\* dropped since its mark, the build failed, or the shop has a review.
Pass(r) ==
    /\ pc[r] \in {"build", "put"}
    /\ Goto(r, "built")
    /\ UNCHANGED <<cache, shown, told, want, mark, body, floor, writerVars>>

Leave(r) ==
    /\ pc[r] \in {"hit", "built"}
    /\ Goto(r, "idle")
    /\ mark' = [mark EXCEPT ![r] = 0]
    /\ body' = [body EXCEPT ![r] = 0]
    /\ floor' = [floor EXCEPT ![r] = 0]
    /\ UNCHANGED <<cache, shown, told, want, writerVars>>

\* An entry's lifetime passes.
Expire(k) ==
    /\ k \in cache.entries.held /\ cache.entries.fresh[k]
    /\ cache' = [cache EXCEPT !.entries.fresh[k] = FALSE]
    /\ UNCHANGED <<shown, told, requestVars, writerVars>>

-----------------------------------------------------------------------------
(* A write: it commits, then forget drops what it made out of date.         *)

\* The changes the handlers announce: storePageChanged of one shop, the
\* catalogueChanged and reviewsChanged of no shop, one or two, and the
\* reviewsChanged of an account deleted.
Changes ==
    {c \in [stores : SUBSET Shops, full : BOOLEAN, all : BOOLEAN] :
        \/ Cardinality(c.stores) = 1 /\ ~c.all
        \/ Cardinality(c.stores) \in {0, 2} /\ c.full /\ ~c.all
        \/ c.stores = {} /\ c.full /\ c.all}

\* The calls forget makes for a change.
Forget(c) ==
    c.stores \cup (IF c.all THEN {"Clear"} ELSE {})
             \cup (IF c.full THEN {"DropKeys", Highlights} ELSE {})

\* The order forget makes them in.
Rank(call) == CASE call = "Clear" -> 1 [] call \in Shops -> 2
                [] call = "DropKeys" -> 3 [] call = Highlights -> 4

\* The answers a change can move.
Moved(c) ==
    {k \in Keys : \/ c.all
                  \/ GroupOf[k] \in c.stores
                  \/ c.full /\ (k \in NearbyKeys \/ GroupOf[k] = Highlights)}

Commit(w, c, changed) ==
    /\ scope[w] = {} /\ changed # {}
    /\ writes < MaxWrites
    /\ writes' = writes + 1
    /\ shown' = [k \in Keys |-> IF k \in changed THEN writes + 1 ELSE shown[k]]
    /\ made' = [made EXCEPT ![w] = writes + 1]
    /\ scope' = [scope EXCEPT ![w] = changed]
    /\ todo' = [todo EXCEPT ![w] = Forget(c)]
    /\ imported' = imported \cup (changed \ Moved(c))
    /\ UNCHANGED <<cache, told, requestVars>>

Write(w) == \E c \in Changes : Commit(w, c, Moved(c))

\* adminImportBrand, and adminResolveMatch with merge: shops that exist are
\* written, and the change announced names none of them.
Import(w) ==
    /\ \E s \in Shops :
         LET c == [stores |-> {}, full |-> TRUE, all |-> FALSE]
         IN  Commit(w, c, Moved(c) \cup {k \in Keys : GroupOf[k] = s})

\* Clear, Drop or DropKeys.
Drop(w) ==
    /\ \E call \in todo[w] :
        /\ \A other \in todo[w] : Rank(call) <= Rank(other)
        /\ cache' = [entries |->
                        IF call = "Clear" THEN Empty
                        ELSE Without(cache.entries, Dropped(cache.entries, call)),
                     drops |-> cache.drops + 1]
        /\ todo' = [todo EXCEPT ![w] = @ \ {call}]
    /\ UNCHANGED <<shown, told, requestVars, writes, scope, made, imported>>

\* The write answers its writer.
Finish(w) ==
    /\ scope[w] # {} /\ todo[w] = {}
    /\ told' = [k \in Keys |-> IF k \in scope[w] THEN Newer(told[k], made[w])
                               ELSE told[k]]
    /\ scope' = [scope EXCEPT ![w] = {}]
    /\ made' = [made EXCEPT ![w] = 0]
    /\ UNCHANGED <<cache, shown, requestVars, writes, todo, imported>>

-----------------------------------------------------------------------------
Answer(r) ==
    \/ Arrive(r) \/ Hit(r) \/ Miss(r) \/ Mark(r) \/ Build(r)
    \/ Put(r) \/ Pass(r) \/ Leave(r)

Change(w) == Write(w) \/ Import(w) \/ Drop(w) \/ Finish(w)

Next ==
    \/ \E r \in Requests : Answer(r)
    \/ \E w \in Writers : Change(w)
    \/ \E k \in Keys : Expire(k)

Spec == Init /\ [][Next]_vars

-----------------------------------------------------------------------------
TypeOK ==
    /\ cache \in [entries : [held : SUBSET Keys, version : [Keys -> Nat],
                             fresh : [Keys -> BOOLEAN],
                             index : [Groups -> SUBSET Keys],
                             order : SUBSET (Keys \X Keys), bytes : Nat],
                  drops : Nat]
    /\ shown \in [Keys -> Nat] /\ told \in [Keys -> Nat]
    /\ pc \in [Requests -> {"idle", "get", "hit", "mark", "build", "put", "built"}]
    /\ want \in [Requests -> Keys]
    /\ mark \in [Requests -> Nat] /\ body \in [Requests -> Nat]
    /\ floor \in [Requests -> Nat]
    /\ writes \in 0 .. MaxWrites
    /\ todo \in [Writers -> SUBSET Calls] /\ scope \in [Writers -> SUBSET Keys]
    /\ made \in [Writers -> Nat]
    /\ imported \subseteq Keys

\* The parts of the cache agree: every entry has its place in the recency
\* list, and is in the group that a write drops it by; the count of bytes is
\* the sum over the entries and within the budget.  An entry missing from its
\* group survives every write about its shop (readcache.go, Put and
\* removeLocked).  Everything has its type besides.
IndexExact ==
    LET c == cache.entries
    IN  /\ TypeOK
        /\ c.order \subseteq c.held \X c.held
        /\ IsStrictlyTotallyOrdered([p \in c.held \X c.held |-> p \in c.order], c.held)
        /\ \A g \in Groups : c.index[g] = {k \in c.held : GroupOf[k] = g}
        /\ c.bytes = Weight(c.held) /\ c.bytes <= Budget

\* No entry is older than a write of it whose writer has been answered, however
\* the builds of answers and the drops of writes fall (readcache.go, Mark and
\* Put; server/catalog.go, forget) -- except for what an import changed.
StoredFresh ==
    \A k \in cache.entries.held \ imported : cache.entries.version[k] >= told[k]

\* "A write drops what it changed, here and now" (readcache.go:27): a reader who
\* arrives after a write was answered is not served an entry from before it.
AnswersFresh ==
    \A r \in Requests : pc[r] = "hit" => body[r] >= floor[r]

=============================================================================
