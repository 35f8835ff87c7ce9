---------------------------- MODULE ShopRecords ----------------------------
(***************************************************************************)
(* What people leave with a shop -- reviews, favourites, proofs of a       *)
(* visit -- and the numbers kept beside it in store_stats, under the       *)
(* requests that change them (internal/social, internal/store Favorite,    *)
(* internal/admin, internal/user DeleteAccount).                           *)
(*                                                                         *)
(* Every request is one transaction at PostgreSQL's READ COMMITTED.  A     *)
(* statement sees what is committed as it starts and what its own          *)
(* transaction wrote; a row it writes stays locked until the end.  db is   *)
(* what is committed, draft the newest version of every row, lock who      *)
(* wrote it.  A reference from a new row holds its shop or user in KEY     *)
(* SHARE (job.refs), which only a FOR UPDATE of another excludes.          *)
(***************************************************************************)
EXTENDS Integers, FiniteSets

CONSTANTS
    Users, Shops,
    Posts, Author,     \* reviews that may be written, and by whom
    Proofs, Visitor,   \* visit proofs that may be given, and to whom
    Jobs,              \* bound: the requests of a behaviour
    Nobody,            \* the lock of a row nobody has written
    None, Live         \* no value; a shop that has not been merged away

ASSUME RecordsAssumption ==
    /\ Author \in [Posts -> Users] /\ Visitor \in [Proofs -> Users]
    /\ Nobody \notin Jobs
    /\ None \notin Shops \union Posts \union Proofs \union Users
    /\ Live \notin Shops

\* A table holds finitely many rows: the numbers beside a shop count them.
ASSUME FinitenessAssumption == IsFiniteSet(Posts) /\ IsFiniteSet(Users)

VARIABLES
    db,       \* the committed tables
    draft,    \* every row with what its writer has not committed yet
    lock,     \* who that writer is
    job,      \* the requests
    uncounted \* history: numbers an account's deletion left alone

vars == <<db, draft, lock, job, uncounted>>

(***************************************************************************)
(* Rows                                                                    *)
(***************************************************************************)
PostRow(p) == <<"post", p>>         \* posts: shop, state, the proof it used
ProofRow(v) == <<"proof", v>>       \* store_visit_verifications
FavRow(u, s) == <<"fav", u, s>>     \* favorites: is there a row
StatsRow(s) == <<"stats", s>>       \* store_stats
ShopRow(s) == <<"shop", s>>         \* stores: Live or merged_into
UserRow(u) == <<"user", u>>         \* users.status

Row == {PostRow(p) : p \in Posts} \union {ProofRow(v) : v \in Proofs}
       \union {FavRow(u, s) : u \in Users, s \in Shops}
       \union {StatsRow(s) : s \in Shops} \union {ShopRow(s) : s \in Shops}
       \union {UserRow(u) : u \in Users}

PostStates == {"absent", "held", "published", "removed", "deleted"}
ProofStates == {"absent", "open", "used", "gone"}
Shown(post, s) == post.state = "published" /\ post.shop = s
Undeleted(post) == post.state \in {"held", "published", "removed"}

\* The tables some earlier requests, one after the other, have left: reviews
\* and proofs.  Favourites come with the behaviour's own requests.
Settled(tables) ==
    \E at \in [Posts -> Shops], state \in [Posts -> {"absent", "held", "published"}],
       given \in [Proofs -> Shops \union {None}] :
        tables = [r \in Row |->
            CASE r[1] = "post" ->
                   [shop |-> IF state[r[2]] = "absent" THEN None ELSE at[r[2]],
                    state |-> state[r[2]], proof |-> None]
              [] r[1] = "proof" ->
                   [shop |-> given[r[2]],
                    state |-> IF given[r[2]] = None THEN "absent" ELSE "open"]
              [] r[1] = "fav" -> FALSE
              [] r[1] = "stats" ->
                   [reviews |-> Cardinality({p \in Posts : state[p] = "published" /\ at[p] = r[2]}),
                    favs |-> 0,
                    missed |-> {}]
              [] r[1] = "shop" -> Live
              [] r[1] = "user" -> "active"]

\* A user has one open proof of a shop (a unique index of the table).
OneOpen(tables) ==
    \A v, w \in Proofs :
        /\ tables[ProofRow(v)].state = "open" /\ tables[ProofRow(w)].state = "open"
        /\ tables[ProofRow(v)].shop = tables[ProofRow(w)].shop /\ Visitor[v] = Visitor[w]
        => v = w

\* A request that has not come, or is over.
Blank(pc) == [kind |-> "none", pc |-> pc, user |-> None, shop |-> None, other |-> None,
              post |-> None, proof |-> None, state |-> "absent",
              refs |-> {}, todo |-> {}, reviews |-> 0, favs |-> 0]

Init ==
    /\ Settled(db) /\ OneOpen(db)
    /\ draft = db
    /\ lock = [r \in Row |-> Nobody]
    /\ job = [j \in Jobs |-> Blank("idle")]
    /\ uncounted = {}

(***************************************************************************)
(* Statements                                                              *)
(***************************************************************************)
\* What a statement of j sees, and whether j may write the row now.
Sees(j, r) == IF lock[r] = j THEN draft[r] ELSE db[r]
Free(j, r) == lock[r] \in {Nobody, j}

\* SELECT ... FOR UPDATE, which a reference held by another transaction delays.
Firm(j, r) == Free(j, r) /\ \A k \in Jobs \ {j} : r \notin job[k].refs

\* A reference to the row, which only a FOR UPDATE delays: a merge's update
\* of a shop touches no key.
Refer(j, r) == lock[r] \in {Nobody, j} \union {k \in Jobs : job[k].kind = "merge"}

\* A statement that writes the rows of R, once nobody else has them.
Put(j, R, new) ==
    /\ \A r \in R : Free(j, r)
    /\ lock' = [r \in Row |-> IF r \in R THEN j ELSE lock[r]]
    /\ draft' = [r \in Row |-> IF r \in R THEN new[r] ELSE draft[r]]
    /\ UNCHANGED db

Put1(j, row, value) == Put(j, {row}, [r \in {row} |-> value])

Becomes(j, next) == job' = [job EXCEPT ![j] = next]

(***************************************************************************)
(* CreateReview                                                            *)
(***************************************************************************)
\* The request is let in and its words are read before the transaction: what
\* is found severe, or could not be read, is held.
Arrive(j) ==
    /\ job[j].pc = "idle"
    /\ \E p \in Posts, s \in Shops, v \in Proofs \union {None}, verdict \in {"held", "published"} :
         /\ draft[PostRow(p)].state = "absent" /\ \A k \in Jobs : job[k].post # p
         /\ db[UserRow(Author[p])] = "active"
         /\ Becomes(j, [Blank("begin") EXCEPT !.kind = "review", !.user = Author[p],
                             !.shop = s, !.post = p, !.proof = v, !.state = verdict])
    /\ UNCHANGED <<db, draft, lock, uncounted>>

\* Mutant form: the proof is looked up without asking whether it was used.
BeginWithAnyProof(j) ==
    LET me == job[j] IN
    /\ me.pc = "begin"
    /\ Sees(j, ShopRow(me.shop)) = Live
    /\ \/ /\ me.proof # None
          /\ Visitor[me.proof] = me.user
          /\ Sees(j, ProofRow(me.proof)).shop = me.shop
          /\ Put1(j, ProofRow(me.proof), Sees(j, ProofRow(me.proof)))
       \/ /\ me.proof = None
          /\ Firm(j, ShopRow(me.shop))
          /\ Put1(j, ShopRow(me.shop), Live)
    /\ Becomes(j, [me EXCEPT !.pc = "insert"])
    /\ UNCHANGED uncounted

\* A review that brings a proof locks the proof and only looks at the shop;
\* any other locks the shop.  A proof that is used, expired or another's, and
\* a shop that is gone, end the request (Abort).
Begin(j) ==
    LET me == job[j] IN
    /\ me.pc = "begin"
    /\ Sees(j, ShopRow(me.shop)) = Live
    /\ \/ /\ me.proof # None
          /\ Visitor[me.proof] = me.user
          /\ Sees(j, ProofRow(me.proof)) = [shop |-> me.shop, state |-> "open"]
          /\ Put1(j, ProofRow(me.proof), [shop |-> me.shop, state |-> "open"])
       \/ /\ me.proof = None
          /\ Firm(j, ShopRow(me.shop))
          /\ Put1(j, ShopRow(me.shop), Live)
    /\ Becomes(j, [me EXCEPT !.pc = "insert"])
    /\ UNCHANGED uncounted

\* The review, and the proof it used up.
Insert(j) ==
    LET me == job[j]
        mine == {PostRow(me.post)} \union (IF me.proof = None THEN {} ELSE {ProofRow(me.proof)})
        refs == {ShopRow(me.shop), UserRow(me.user)}
    IN  /\ me.pc = "insert"
        /\ \A r \in refs : Refer(j, r)
        /\ Put(j, mine, [r \in mine |->
                 IF r = PostRow(me.post)
                 THEN [shop |-> me.shop, state |-> me.state, proof |-> me.proof]
                 ELSE [shop |-> me.shop, state |-> "used"]])
        /\ Becomes(j, [me EXCEPT !.pc = IF me.state = "published" THEN "count" ELSE "commit",
                                 !.refs = refs])
        /\ UNCHANGED uncounted

\* One more review, on top of what is committed when the row is free.
CountOne(j) ==
    LET row == StatsRow(job[j].shop) IN
    /\ job[j].pc = "count"
    /\ Put1(j, row, [Sees(j, row) EXCEPT !.reviews = @ + 1])
    /\ Becomes(j, [job[j] EXCEPT !.pc = "commit"])
    /\ UNCHANGED uncounted

(***************************************************************************)
(* Deletions and decisions, and the recount that follows                   *)
(***************************************************************************)
\* DeletePost and DeleteReview: the author's own review, or an operator's.
Delete(j) ==
    /\ job[j].pc = "idle"
    /\ \E p \in Posts :
         LET post == Sees(j, PostRow(p)) IN
         /\ Undeleted(post)
         /\ Put1(j, PostRow(p), [post EXCEPT !.state = "deleted"])
         /\ Becomes(j, [Blank("recount") EXCEPT !.kind = "delete", !.todo = {post.shop}])
    /\ UNCHANGED uncounted

\* Mutant form: an operator decides a review that was decided already.
DecideAgain(j) ==
    /\ job[j].pc = "idle"
    /\ \E p \in Posts, answer \in {"published", "removed"} :
         LET post == Sees(j, PostRow(p)) IN
         /\ Undeleted(post)
         /\ Put1(j, PostRow(p), [post EXCEPT !.state = answer])
         /\ Becomes(j, [Blank("recount") EXCEPT !.kind = "decide", !.todo = {post.shop}])
    /\ UNCHANGED uncounted

Decide(j) ==
    /\ job[j].pc = "idle"
    /\ \E p \in Posts, answer \in {"published", "removed"} :
         LET post == Sees(j, PostRow(p)) IN
         /\ post.state = "held"
         /\ Put1(j, PostRow(p), [post EXCEPT !.state = answer])
         /\ Becomes(j, [Blank("recount") EXCEPT !.kind = "decide", !.todo = {post.shop}])
    /\ UNCHANGED uncounted

\* Mutant form: reviews that are held or were removed count too.
ReviewsUnmoderated(j, s) ==
    Cardinality({p \in Posts : LET post == Sees(j, PostRow(p))
                               IN  Undeleted(post) /\ post.shop = s})

Reviews(j, s) == Cardinality({p \in Posts : Shown(Sees(j, PostRow(p)), s)})

Favourites(j, s) == Cardinality({u \in Users : Sees(j, FavRow(u, s))})

\* The recount reads the reviews as its statement starts ...
Recount(j) ==
    /\ job[j].pc = "recount"
    /\ \E s \in job[j].todo :
         Becomes(j, [job[j] EXCEPT !.pc = "write", !.shop = s, !.todo = @ \ {s},
                                   !.reviews = Reviews(j, s), !.favs = Favourites(j, s)])
    /\ UNCHANGED <<db, draft, lock, uncounted>>

\* ... and writes the numbers once the row is free: the row is read again
\* then, the reviews are not.  A merge recounts the favourites with them.
Write(j) ==
    LET me == job[j]
        old == Sees(j, StatsRow(me.shop))
        merge == me.kind = "merge"
        late == (IF Reviews(j, me.shop) # me.reviews THEN {"reviews"} ELSE {})
                \union (IF merge /\ Favourites(j, me.shop) # me.favs THEN {"favs"} ELSE {})
        kept == IF merge THEN {} ELSE old.missed \ {"reviews"}
    IN  /\ me.pc = "write"
        /\ Put1(j, StatsRow(me.shop), [reviews |-> me.reviews,
                                       favs |-> IF merge THEN me.favs ELSE old.favs,
                                       missed |-> kept \union late])
        /\ Becomes(j, [me EXCEPT !.pc = IF me.todo = {} THEN "commit" ELSE "recount",
                                 !.reviews = 0, !.favs = 0])
        /\ UNCHANGED uncounted

(***************************************************************************)
(* Favourites and visits                                                   *)
(***************************************************************************)
\* A favourite added, or taken away: a request that changes nothing is over.
Favourite(j) ==
    /\ job[j].pc = "idle"
    /\ \E u \in Users, s \in Shops :
         LET add == ~Sees(j, FavRow(u, s)) IN
         /\ db[UserRow(u)] = "active"
         /\ add => /\ Sees(j, ShopRow(s)) = Live
                   /\ Refer(j, ShopRow(s)) /\ Refer(j, UserRow(u))
         /\ Put1(j, FavRow(u, s), add)
         /\ Becomes(j, [Blank("tally") EXCEPT !.kind = "favourite", !.shop = s, !.favs = IF add THEN 1 ELSE -1,
                          !.refs = IF add THEN {ShopRow(s), UserRow(u)} ELSE {}])
    /\ UNCHANGED uncounted

\* The count moves by one, and never below zero.
Tally(j) ==
    LET row == StatsRow(job[j].shop)
        favs == Sees(j, row).favs + job[j].favs
    IN  /\ job[j].pc = "tally"
        /\ Put1(j, row, [Sees(j, row) EXCEPT !.favs = IF favs < 0 THEN 0 ELSE favs])
        /\ Becomes(j, [job[j] EXCEPT !.pc = "commit"])
        /\ UNCHANGED uncounted

\* VerifyVisit near the shop: a proof, unless the user has an open one of this
\* shop, which is renewed.
VerifyVisit(j) ==
    /\ job[j].pc = "idle"
    /\ \E v \in Proofs, s \in Shops :
         LET u == Visitor[v] IN
         /\ db[UserRow(u)] = "active" /\ Sees(j, ShopRow(s)) = Live
         /\ \A w \in Proofs : Visitor[w] = u /\ draft[ProofRow(w)].shop = s
                                => draft[ProofRow(w)].state # "open" /\ Free(j, ProofRow(w))
         /\ draft[ProofRow(v)].state = "absent"
         /\ Refer(j, ShopRow(s)) /\ Refer(j, UserRow(u))
         /\ Put1(j, ProofRow(v), [shop |-> s, state |-> "open"])
         /\ Becomes(j, [Blank("commit") EXCEPT !.kind = "verify", !.refs = {ShopRow(s), UserRow(u)}])
    /\ UNCHANGED uncounted

(***************************************************************************)
(* DeleteAccount                                                           *)
(***************************************************************************)
\* The user is locked, and the shops of the reviews looked up ...
LockAccount(j) ==
    /\ job[j].pc = "idle"
    /\ \E u \in Users :
         /\ Firm(j, UserRow(u)) /\ Sees(j, UserRow(u)) = "active"
         /\ Put1(j, UserRow(u), "active")
         /\ Becomes(j, [Blank("wipe") EXCEPT !.kind = "account", !.user = u,
                !.todo = {s \in Shops : \E p \in Posts :
                            LET post == Sees(j, PostRow(p))
                            IN  Author[p] = u /\ Undeleted(post) /\ post.shop = s}])
    /\ UNCHANGED uncounted

\* ... then everything of the user's is deleted; the shops are recounted next.
Wipe(j) ==
    LET u == job[j].user
        posts == {p \in Posts : Author[p] = u /\ Undeleted(Sees(j, PostRow(p)))}
        faved == {s \in Shops : Sees(j, FavRow(u, s))}
        proofs == {v \in Proofs : Visitor[v] = u /\ Sees(j, ProofRow(v)).state \in {"open", "used"}}
        rows == {PostRow(p) : p \in posts} \union {FavRow(u, s) : s \in faved}
                \union {ProofRow(v) : v \in proofs} \union {UserRow(u)}
    IN  /\ job[j].pc = "wipe"
        /\ Put(j, rows, [r \in rows |->
                 CASE r[1] = "post" -> [Sees(j, r) EXCEPT !.state = "deleted"]
                   [] r[1] = "fav" -> FALSE
                   [] r[1] = "proof" -> [shop |-> None, state |-> "gone"]
                   [] r[1] = "user" -> "inactive"])
        /\ Becomes(j, [job[j] EXCEPT !.pc = IF job[j].todo = {} THEN "commit" ELSE "recount"])
        /\ uncounted' = uncounted \union {<<s, "favs">> : s \in faved}
                \union {<<Sees(j, PostRow(p)).shop, "reviews">> :
                          p \in {q \in posts : Sees(j, PostRow(q)).shop \notin job[j].todo}}

(***************************************************************************)
(* MergeStores: what other has goes to shop                                *)
(***************************************************************************)
\* Both shops are looked at, neither is locked.
Merge(j) ==
    /\ job[j].pc = "idle"
    /\ \E keep, drop \in Shops :
         /\ keep # drop
         /\ Sees(j, ShopRow(keep)) = Live /\ Sees(j, ShopRow(drop)) = Live
         /\ Becomes(j, [Blank("posts") EXCEPT !.kind = "merge", !.shop = keep, !.other = drop])
    /\ UNCHANGED <<db, draft, lock, uncounted>>

\* The rows of a table with a shop that are the dropped shop's, moved.
Move(j, rows, next) ==
    LET me == job[j]
        moved == {r \in rows : Sees(j, r).shop = me.other}
        refs == IF moved = {} THEN {} ELSE {ShopRow(me.shop)}
    IN  /\ \A r \in refs : Refer(j, r)
        /\ Put(j, moved, [r \in moved |-> [Sees(j, r) EXCEPT !.shop = me.shop]])
        /\ Becomes(j, [me EXCEPT !.pc = next, !.refs = @ \union refs])
        /\ UNCHANGED uncounted

MovePosts(j) == job[j].pc = "posts" /\ Move(j, {PostRow(p) : p \in Posts}, "visits")

\* Two open proofs of one user may not meet: the statement is refused, and
\* the merge with it (Abort).
MoveVisits(j) ==
    /\ job[j].pc = "visits"
    /\ \A v, w \in Proofs :
         LET a == Sees(j, ProofRow(v))
             b == Sees(j, ProofRow(w))
         IN  ~(/\ Visitor[v] = Visitor[w] /\ a.state = "open" /\ b.state = "open"
               /\ a.shop = job[j].shop /\ b.shop = job[j].other)
    /\ Move(j, {ProofRow(v) : v \in Proofs}, "copy")

CopyFavourites(j) ==
    LET me == job[j]
        users == {u \in Users : Sees(j, FavRow(u, me.other)) /\ ~Sees(j, FavRow(u, me.shop))}
        rows == {FavRow(u, me.shop) : u \in users}
        refs == IF users = {} THEN {} ELSE {ShopRow(me.shop)} \union {UserRow(u) : u \in users}
    IN  /\ me.pc = "copy"
        /\ \A r \in refs : Refer(j, r)
        /\ Put(j, rows, [r \in rows |-> TRUE])
        /\ Becomes(j, [me EXCEPT !.pc = "clear", !.refs = @ \union refs])
        /\ UNCHANGED uncounted

ClearFavourites(j) ==
    LET rows == {r \in {FavRow(u, job[j].other) : u \in Users} : Sees(j, r)} IN
    /\ job[j].pc = "clear"
    /\ Put(j, rows, [r \in rows |-> FALSE])
    /\ Becomes(j, [job[j] EXCEPT !.pc = "keep"])
    /\ UNCHANGED uncounted

\* The shop kept takes what it lacks, whether or not it is still there ...
UpdateKept(j) ==
    LET row == ShopRow(job[j].shop) IN
    /\ job[j].pc = "keep"
    /\ Put1(j, row, Sees(j, row))
    /\ Becomes(j, [job[j] EXCEPT !.pc = "drop"])
    /\ UNCHANGED uncounted

\* ... and the other one goes, with a link to it.
Retire(j) ==
    /\ job[j].pc = "drop"
    /\ Put1(j, ShopRow(job[j].other), job[j].shop)
    /\ Becomes(j, [job[j] EXCEPT !.pc = "recount", !.todo = {job[j].shop}])
    /\ UNCHANGED uncounted

(***************************************************************************)
(* The end of a transaction                                                *)
(***************************************************************************)
Unlocked(j) == [r \in Row |-> IF lock[r] = j THEN Nobody ELSE lock[r]]

Commit(j) ==
    /\ job[j].pc = "commit"
    /\ db' = [r \in Row |-> Sees(j, r)]
    /\ lock' = Unlocked(j)
    /\ Becomes(j, Blank("done"))
    /\ UNCHANGED <<draft, uncounted>>

\* A request refused, cancelled, out of database, or chosen to end a deadlock.
Abort(j) ==
    /\ job[j].pc \notin {"idle", "done"}
    /\ draft' = [r \in Row |-> IF lock[r] = j THEN db[r] ELSE draft[r]]
    /\ lock' = Unlocked(j)
    /\ Becomes(j, Blank("done"))
    /\ UNCHANGED <<db, uncounted>>

Next == \E j \in Jobs :
    \/ Arrive(j) \/ Begin(j) \/ Insert(j) \/ CountOne(j)
    \/ Delete(j) \/ Decide(j) \/ Recount(j) \/ Write(j)
    \/ Favourite(j) \/ Tally(j) \/ VerifyVisit(j)
    \/ LockAccount(j) \/ Wipe(j)
    \/ Merge(j) \/ MovePosts(j) \/ MoveVisits(j) \/ CopyFavourites(j)
    \/ ClearFavourites(j) \/ UpdateKept(j) \/ Retire(j)
    \/ Commit(j) \/ Abort(j)

Spec == Init /\ [][Next]_vars

(***************************************************************************)
(* What the records promise                                                *)
(***************************************************************************)
Typed(tables) ==
    /\ DOMAIN tables = Row
    /\ \A p \in Posts : tables[PostRow(p)] \in
         [shop : Shops \union {None}, state : PostStates, proof : Proofs \union {None}]
    /\ \A v \in Proofs : tables[ProofRow(v)] \in
         [shop : Shops \union {None}, state : ProofStates]
    /\ \A u \in Users, s \in Shops : tables[FavRow(u, s)] \in BOOLEAN
    /\ \A s \in Shops : tables[StatsRow(s)] \in
         [reviews : Nat, favs : Nat,
          missed : SUBSET {"reviews", "favs"}]
    /\ \A s \in Shops : tables[ShopRow(s)] \in Shops \union {Live}
    /\ \A u \in Users : tables[UserRow(u)] \in {"active", "inactive"}

TypeOK ==
    /\ Typed(db) /\ Typed(draft)
    /\ lock \in [Row -> Jobs \union {Nobody}]
    /\ \A r \in Row : lock[r] = Nobody => draft[r] = db[r]
    /\ uncounted \subseteq Shops \X {"reviews", "favs"}

\* A proof of a visit earns one review its badge, whoever else sends it at
\* the same time or merges its shop meanwhile.
ProofUsedOnce ==
    \A p, q \in Posts :
        /\ db[PostRow(p)].proof # None
        /\ db[PostRow(p)].proof = db[PostRow(q)].proof
        => p = q

\* The numbers of a shop are those of its rows, whatever ran at the same
\* time, save for two things: a recount whose rows changed before it
\* could write, and what an account's deletion took away without recounting.
\* They are never negative: everything has its type besides.
DriftHasACause ==
    /\ TypeOK
    /\ \A s \in Shops :
         LET stats == db[StatsRow(s)] IN
         db[ShopRow(s)] = Live =>
         /\ "reviews" \in stats.missed \/ <<s, "reviews">> \in uncounted
              \/ stats.reviews = Cardinality({p \in Posts : Shown(db[PostRow(p)], s)})
         /\ "favs" \in stats.missed \/ <<s, "favs">> \in uncounted
              \/ stats.favs = Cardinality({u \in Users : db[FavRow(u, s)]})

\* What was decided of a review stands: none comes back once deleted or
\* removed, and none is taken down but by a deletion.
DecisionsStand ==
    [][\A p \in Posts :
         LET now == db[PostRow(p)].state
             then == db'[PostRow(p)].state
         IN  /\ now = "deleted" => then = "deleted"
             /\ now \in {"removed", "published"} => then \in {now, "deleted"}]_vars

\* "Everything the other row carried is moved onto it": a review that readers
\* could see is with a shop that is there.
NothingLeftBehind ==
    \A p \in Posts : Undeleted(db[PostRow(p)]) => db[ShopRow(db[PostRow(p)].shop)] = Live
=============================================================================
