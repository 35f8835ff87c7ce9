------------------------- MODULE ShopRecordsProofs -------------------------
(***************************************************************************)
(* A visit proof earns one review its badge, the numbers kept beside a     *)
(* shop are those of its rows but for named causes, and decisions stand,   *)
(* for every number of users, shops, reviews, proofs and requests.         *)
(***************************************************************************)
EXTENDS ShopRecords, FiniteSetTheorems, TLAPS

(***************************************************************************)
(* The inductive invariant                                                 *)
(***************************************************************************)
PostShape(x) == DOMAIN x = {"shop", "state", "proof"}
ProofShape(x) == DOMAIN x = {"shop", "state"}
JobShape(x) == DOMAIN x = {"kind", "pc", "user", "shop", "other", "post", "proof",
                           "state", "refs", "todo", "reviews", "favs"}
Spent(x) == x.state \in {"used", "gone"}

\* An absent review has no proof, and the proof a review has is spent.
Sound(tables) ==
    /\ DOMAIN tables = Row
    /\ \A p \in Posts : PostShape(tables[PostRow(p)])
    /\ \A v \in Proofs : ProofShape(tables[ProofRow(v)])
    /\ \A p \in Posts : tables[PostRow(p)].state = "absent" => tables[PostRow(p)].proof = None
    /\ \A p \in Posts, v \in Proofs :
         tables[PostRow(p)].proof = v => Spent(tables[ProofRow(v)])

\* No two reviews have one proof, those not committed yet included.
ClaimedOnce ==
    \A p, q \in Posts :
        /\ draft[PostRow(p)].proof # None
        /\ draft[PostRow(p)].proof = draft[PostRow(q)].proof
        => p = q

\* What is committed of a review and its proof is still there in the newest
\* version of the row.
NothingForgotten ==
    \A p \in Posts :
        /\ db[PostRow(p)].proof # None => draft[PostRow(p)].proof = db[PostRow(p)].proof
        /\ draft[PostRow(p)].state = "absent" => db[PostRow(p)].state = "absent"

\* A review and its proof are committed, or one transaction wrote both.
WrittenTogether ==
    \A p \in Posts, v \in Proofs :
        draft[PostRow(p)].proof = v =>
            \/ db[PostRow(p)].proof = v
            \/ /\ lock[PostRow(p)] = lock[ProofRow(v)]
               /\ lock[ProofRow(v)] # Nobody

TablesInv ==
    /\ Sound(db) /\ Sound(draft)
    /\ DOMAIN lock = Row
    /\ \A r \in Row : lock[r] = Nobody => draft[r] = db[r]
    /\ ClaimedOnce /\ NothingForgotten /\ WrittenTogether

\* A review on its way is nobody else's and not written yet, and the proof it
\* brings is open and locked for it.
JobsInv ==
    /\ DOMAIN job = Jobs
    /\ \A j \in Jobs : JobShape(job[j])
    /\ \A j, k \in Jobs : job[j].post # None /\ job[j].post = job[k].post => j = k
    /\ \A j \in Jobs : job[j].pc \in {"begin", "insert"} =>
         /\ job[j].post \in Posts /\ job[j].proof \in Proofs \union {None}
         /\ job[j].state # "absent"
         /\ draft[PostRow(job[j].post)].state = "absent"
    /\ \A j \in Jobs : job[j].pc = "insert" /\ job[j].proof # None =>
         /\ lock[ProofRow(job[j].proof)] = j
         /\ draft[ProofRow(job[j].proof)].state = "open"

Inv == TablesInv /\ JobsInv

(***************************************************************************)
(* Lemmas about rows                                                       *)
(***************************************************************************)
LEMMA RowsApart ==
    /\ \A p, q : PostRow(p) = PostRow(q) => p = q
    /\ \A v, w : ProofRow(v) = ProofRow(w) => v = w
    /\ \A p, v : PostRow(p) # ProofRow(v)
    /\ \A p, s : PostRow(p) # ShopRow(s) /\ ProofRow(p) # ShopRow(s)
    /\ \A p, s : PostRow(p) # StatsRow(s) /\ ProofRow(p) # StatsRow(s)
    /\ \A p, u : PostRow(p) # UserRow(u) /\ ProofRow(p) # UserRow(u)
    /\ \A p, u, s : PostRow(p) # FavRow(u, s) /\ ProofRow(p) # FavRow(u, s)
    /\ \A p : PostRow(p)[1] = "post" /\ ProofRow(p)[1] = "proof"
  BY DEF PostRow, ProofRow, ShopRow, StatsRow, UserRow, FavRow

LEMMA RowsAreRows ==
    /\ \A p \in Posts : PostRow(p) \in Row
    /\ \A v \in Proofs : ProofRow(v) \in Row
  BY DEF Row

LEMMA Names == None \notin Posts /\ None \notin Proofs /\ Nobody \notin Jobs
  BY RecordsAssumption

\* A row j may write is seen in its newest version.
LEMMA SeesNewest ==
    ASSUME TablesInv, NEW j \in Jobs, NEW r \in Row, Free(j, r)
    PROVE  Sees(j, r) = draft[r]
  BY DEF TablesInv, Free, Sees

(***************************************************************************)
(* A write that keeps every proof with its review                          *)
(***************************************************************************)
PostKept(old, new) ==
    /\ PostShape(new)
    /\ new.proof = old.proof
    /\ new.state = "absent" <=> old.state = "absent"

ProofKept(old, new) == ProofShape(new) /\ (Spent(old) => Spent(new))

\* The rows of R, written, keep it.
Harmless(R, new) ==
    /\ \A p \in Posts : PostRow(p) \in R => PostKept(draft[PostRow(p)], new[PostRow(p)])
    /\ \A v \in Proofs : ProofRow(v) \in R => ProofKept(draft[ProofRow(v)], new[ProofRow(v)])

LEMMA HarmlessPut ==
    ASSUME TablesInv, NEW j \in Jobs, NEW R, NEW new, Put(j, R, new), Harmless(R, new)
    PROVE  TablesInv'
<1> USE Names, RowsAreRows
<1>1. /\ db' = db
      /\ \A r \in Row : r \in R => lock[r] \in {Nobody, j} /\ lock'[r] = j /\ draft'[r] = new[r]
      /\ \A r \in Row : r \notin R => lock'[r] = lock[r] /\ draft'[r] = draft[r]
      /\ DOMAIN lock' = Row /\ DOMAIN draft' = Row
  BY DEF Put, Free
<1>2. \A p \in Posts : /\ PostShape(draft'[PostRow(p)])
                       /\ draft'[PostRow(p)].proof = draft[PostRow(p)].proof
                       /\ draft'[PostRow(p)].state = "absent" <=> draft[PostRow(p)].state = "absent"
  BY <1>1 DEF Harmless, PostKept, TablesInv, Sound
<1>3. \A v \in Proofs : /\ ProofShape(draft'[ProofRow(v)])
                        /\ Spent(draft[ProofRow(v)]) => Spent(draft'[ProofRow(v)])
  BY <1>1 DEF Harmless, ProofKept, TablesInv, Sound
<1>4. Sound(db)'
  BY <1>1 DEF TablesInv, Sound
<1>5. Sound(draft)'
  BY <1>1, <1>2, <1>3 DEF TablesInv, Sound
<1>6. ClaimedOnce' /\ NothingForgotten'
  BY <1>1, <1>2 DEF TablesInv, ClaimedOnce, NothingForgotten
<1>7. WrittenTogether'
  BY <1>1, <1>2 DEF TablesInv, WrittenTogether
<1>8. \A r \in Row : lock'[r] = Nobody => draft'[r] = db'[r]
  BY <1>1 DEF TablesInv
<1> QED  BY <1>1, <1>4, <1>5, <1>6, <1>7, <1>8 DEF TablesInv

\* What a job's next state keeps of JobsInv, when its review is written or it
\* has none.
LEMMA JobMovesOn ==
    ASSUME JobsInv, NEW j \in Jobs, NEW next, Becomes(j, next), JobShape(next),
           next.pc \notin {"begin", "insert"}, next.post \in {job[j].post, None},
           \A p \in Posts : /\ draft[PostRow(p)].state = "absent"
                            /\ \E k \in Jobs \ {j} : job[k].post = p
                            => draft'[PostRow(p)].state = "absent",
           \A v \in Proofs, k \in Jobs \ {j} : lock[ProofRow(v)] = k =>
             lock'[ProofRow(v)] = k /\ draft'[ProofRow(v)] = draft[ProofRow(v)]
    PROVE  JobsInv'
<1>1. /\ DOMAIN job' = Jobs
      /\ job'[j] = next
      /\ \A k \in Jobs \ {j} : job'[k] = job[k]
  BY DEF JobsInv, Becomes
<1>2. \A k \in Jobs : JobShape(job'[k])
  BY <1>1 DEF JobsInv
<1>3. \A i, k \in Jobs : job'[i].post # None /\ job'[i].post = job'[k].post => i = k
  BY <1>1 DEF JobsInv
<1>4. ASSUME NEW k \in Jobs, job'[k].pc \in {"begin", "insert"}
      PROVE  /\ job'[k].post \in Posts /\ job'[k].proof \in Proofs \union {None}
             /\ job'[k].state # "absent"
             /\ draft'[PostRow(job'[k].post)].state = "absent"
  <2>1. k # j /\ job'[k] = job[k]
    BY <1>1, <1>4
  <2> QED  BY <1>4, <2>1 DEF JobsInv
<1>5. ASSUME NEW k \in Jobs, job'[k].pc = "insert", job'[k].proof # None
      PROVE  /\ lock'[ProofRow(job'[k].proof)] = k
             /\ draft'[ProofRow(job'[k].proof)].state = "open"
  <2>1. k # j /\ job'[k] = job[k]
    BY <1>1, <1>5
  <2>2. job[k].proof \in Proofs
    BY <1>5, <2>1 DEF JobsInv
  <2> QED  BY <1>5, <2>1, <2>2 DEF JobsInv
<1> QED  BY <1>1, <1>2, <1>3, <1>4, <1>5 DEF JobsInv

\* The two together: most statements are of this kind.
LEMMA HarmlessStatement ==
    ASSUME Inv, NEW j \in Jobs, NEW R, NEW new, Put(j, R, new), Harmless(R, new),
           NEW next, Becomes(j, next), JobShape(next),
           next.pc \notin {"begin", "insert"}, next.post \in {job[j].post, None}
    PROVE  Inv'
<1>1. TablesInv'
  BY HarmlessPut DEF Inv
<1>2. \A p \in Posts : draft[PostRow(p)].state = "absent" => draft'[PostRow(p)].state = "absent"
  BY RowsAreRows DEF Put, Harmless, PostKept
<1>3. \A v \in Proofs, k \in Jobs \ {j} : lock[ProofRow(v)] = k =>
        lock'[ProofRow(v)] = k /\ draft'[ProofRow(v)] = draft[ProofRow(v)]
  BY RowsAreRows, Names DEF Put, Free
<1> QED  BY <1>1, <1>2, <1>3, JobMovesOn DEF Inv

\* A request that only looks.
LEMMA LookingStatement ==
    ASSUME Inv, NEW j \in Jobs, UNCHANGED <<db, draft, lock>>,
           NEW next, Becomes(j, next), JobShape(next),
           next.pc \notin {"begin", "insert"}, next.post \in {job[j].post, None}
    PROVE  Inv'
<1>1. TablesInv'
  BY DEF Inv, TablesInv, Sound, ClaimedOnce, NothingForgotten, WrittenTogether
<1> QED  BY <1>1, JobMovesOn DEF Inv

LEMMA BlankShape ==
    ASSUME NEW pc
    PROVE  JobShape(Blank(pc)) /\ Blank(pc).pc = pc /\ Blank(pc).post = None
  BY DEF JobShape, Blank

(***************************************************************************)
(* Initial states                                                          *)
(***************************************************************************)
LEMMA InitInv == Init => Inv
<1> SUFFICES ASSUME Init PROVE Inv
  OBVIOUS
<1> USE RowsAreRows, RowsApart, Names
<1>1. PICK at \in [Posts -> Shops], state \in [Posts -> {"absent", "held", "published"}],
             given \in [Proofs -> Shops \union {None}] :
        db = [r \in Row |->
            CASE r[1] = "post" ->
                   [shop |-> IF state[r[2]] = "absent" THEN None ELSE at[r[2]],
                    state |-> state[r[2]], proof |-> None]
              [] r[1] = "proof" ->
                   [shop |-> given[r[2]],
                    state |-> IF given[r[2]] = None THEN "absent" ELSE "open"]
              [] r[1] = "fav" -> FALSE
              [] r[1] = "stats" ->
                   [reviews |-> Cardinality({p \in Posts : state[p] = "published" /\ at[p] = r[2]}),
                    favs |-> 0,
                    missed |-> {}]
              [] r[1] = "shop" -> Live
              [] r[1] = "user" -> "active"]
  BY DEF Init, Settled
<1>2. ASSUME NEW p \in Posts
      PROVE  PostShape(db[PostRow(p)]) /\ db[PostRow(p)].proof = None
  <2>1. db[PostRow(p)] = [shop |-> IF state[PostRow(p)[2]] = "absent" THEN None ELSE at[PostRow(p)[2]],
                          state |-> state[PostRow(p)[2]], proof |-> None]
    BY <1>1
  <2> QED  BY <2>1 DEF PostShape
<1>3. ASSUME NEW v \in Proofs PROVE ProofShape(db[ProofRow(v)])
  <2>1. db[ProofRow(v)] = [shop |-> given[ProofRow(v)[2]],
                           state |-> IF given[ProofRow(v)[2]] = None THEN "absent" ELSE "open"]
    BY <1>1
  <2> QED  BY <2>1 DEF ProofShape
<1>4. TablesInv
  BY <1>1, <1>2, <1>3
     DEF Init, TablesInv, Sound, ClaimedOnce, NothingForgotten, WrittenTogether
<1>5. JobsInv
  BY BlankShape DEF Init, JobsInv
<1> QED  BY <1>4, <1>5 DEF Inv

(***************************************************************************)
(* CreateReview                                                            *)
(***************************************************************************)
LEMMA ArriveKeeps == ASSUME Inv, NEW j \in Jobs, Arrive(j) PROVE Inv'
<1>1. PICK p \in Posts, s \in Shops, v \in Proofs \union {None}, verdict \in {"held", "published"} :
        /\ draft[PostRow(p)].state = "absent"
        /\ \A k \in Jobs : job[k].post # p
        /\ Becomes(j, [Blank("begin") EXCEPT !.kind = "review", !.user = Author[p],
                             !.shop = s, !.post = p, !.proof = v, !.state = verdict])
  BY DEF Arrive
<1> DEFINE next == [Blank("begin") EXCEPT !.kind = "review", !.user = Author[p],
                             !.shop = s, !.post = p, !.proof = v, !.state = verdict]
<1>2. JobShape(next) /\ next.pc = "begin" /\ next.post = p /\ next.proof = v
      /\ next.state = verdict
  BY DEF JobShape, Blank
<1>3. Becomes(j, next)
  BY <1>1
<1> HIDE DEF next
<1>4. /\ DOMAIN job' = Jobs /\ job'[j] = next
      /\ \A k \in Jobs \ {j} : job'[k] = job[k]
  BY <1>3 DEF Becomes, Inv, JobsInv
<1>5. UNCHANGED <<db, draft, lock>>
  BY DEF Arrive
<1>6. TablesInv'
  BY <1>5 DEF Inv, TablesInv, Sound, ClaimedOnce, NothingForgotten, WrittenTogether
<1>7. JobsInv'
  BY <1>1, <1>2, <1>4, <1>5 DEF Inv, JobsInv
<1> QED  BY <1>6, <1>7 DEF Inv

LEMMA BeginKeeps == ASSUME Inv, NEW j \in Jobs, Begin(j) PROVE Inv'
<1> DEFINE me == job[j]
           next == [me EXCEPT !.pc = "insert"]
<1>1. /\ me.pc = "begin" /\ JobShape(me)
      /\ me.post \in Posts /\ me.proof \in Proofs \union {None} /\ me.state # "absent"
      /\ draft[PostRow(me.post)].state = "absent"
      /\ Becomes(j, next)
  BY DEF Begin, Inv, JobsInv
<1>2. JobShape(next) /\ next.pc = "insert" /\ next.post = me.post /\ next.proof = me.proof
  BY <1>1 DEF JobShape
<1>3. /\ DOMAIN job' = Jobs /\ job'[j] = next
      /\ \A k \in Jobs \ {j} : job'[k] = job[k]
  BY <1>1 DEF Becomes, Inv, JobsInv
<1> HIDE DEF me, next
<1> DEFINE row == IF me.proof = None THEN ShopRow(me.shop) ELSE ProofRow(me.proof)
           value == IF me.proof = None THEN Live ELSE [shop |-> me.shop, state |-> "open"]
<1>4. /\ Put1(j, row, value) /\ Harmless({row}, [r \in {row} |-> value])
      /\ \A p \in Posts : PostRow(p) # row
      /\ me.proof # None => row = ProofRow(me.proof) /\ value.state = "open"
  <2>1. CASE me.proof # None
    <3>1. Put1(j, ProofRow(me.proof), [shop |-> me.shop, state |-> "open"])
          /\ Sees(j, ProofRow(me.proof)) = [shop |-> me.shop, state |-> "open"]
      BY <2>1 DEF Begin, me
    <3>2. Free(j, ProofRow(me.proof))
      BY <3>1 DEF Put1, Put
    <3>3. draft[ProofRow(me.proof)].state = "open"
      BY <1>1, <2>1, <3>1, <3>2, SeesNewest, RowsAreRows DEF Inv
    <3>4. Harmless({ProofRow(me.proof)},
                   [r \in {ProofRow(me.proof)} |-> [shop |-> me.shop, state |-> "open"]])
      BY <3>3, RowsApart DEF Harmless, ProofKept, ProofShape, Spent
    <3> QED  BY <2>1, <3>1, <3>4, RowsApart
  <2>2. CASE me.proof = None
    <3>1. Put1(j, ShopRow(me.shop), Live)
      BY <2>2 DEF Begin, me
    <3>2. Harmless({ShopRow(me.shop)}, [r \in {ShopRow(me.shop)} |-> Live])
      BY RowsApart DEF Harmless
    <3> QED  BY <2>2, <3>1, <3>2, RowsApart
  <2> QED  BY <2>1, <2>2
<1> HIDE DEF row, value
<1>5. TablesInv'
  BY <1>4, HarmlessPut DEF Inv, Put1
<1>6. \A p \in Posts : draft'[PostRow(p)] = draft[PostRow(p)]
  BY <1>4, RowsAreRows DEF Put1, Put
<1>7. \A v \in Proofs, k \in Jobs \ {j} : lock[ProofRow(v)] = k =>
        lock'[ProofRow(v)] = k /\ draft'[ProofRow(v)] = draft[ProofRow(v)]
  BY <1>4, RowsAreRows, Names DEF Put1, Put, Free
<1>8. me.proof # None =>
        lock'[ProofRow(me.proof)] = j /\ draft'[ProofRow(me.proof)].state = "open"
  BY <1>1, <1>4, RowsAreRows DEF Put1, Put
<1>9. JobsInv'
  <2>1. \A k \in Jobs : job'[k].post = job[k].post /\ job'[k].proof = job[k].proof
                        /\ job'[k].state = job[k].state /\ JobShape(job'[k])
    <3>1. job'[j].post = job[j].post /\ job'[j].proof = job[j].proof
          /\ job'[j].state = job[j].state /\ JobShape(job'[j])
      BY <1>2, <1>3 DEF me, next
    <3> QED  BY <1>3, <3>1 DEF Inv, JobsInv
  <2>2. ASSUME NEW k \in Jobs, job'[k].pc \in {"begin", "insert"}
        PROVE  /\ job'[k].post \in Posts /\ job'[k].proof \in Proofs \union {None}
               /\ job'[k].state # "absent"
             /\ job'[k].state # "absent"
               /\ draft'[PostRow(job'[k].post)].state = "absent"
    BY <1>1, <1>3, <1>6, <2>1, <2>2 DEF me, Inv, JobsInv
  <2>3. ASSUME NEW k \in Jobs \ {j}, job'[k].pc = "insert", job'[k].proof # None
        PROVE  /\ lock'[ProofRow(job'[k].proof)] = k
               /\ draft'[ProofRow(job'[k].proof)].state = "open"
    <3>1. job'[k] = job[k] /\ job[k].proof \in Proofs
      BY <1>3, <2>3 DEF Inv, JobsInv
    <3> QED  BY <1>7, <2>3, <3>1 DEF Inv, JobsInv
  <2> QED  BY <1>3, <1>8, <2>1, <2>2, <2>3 DEF me, Inv, JobsInv
<1> QED  BY <1>5, <1>9 DEF Inv

\* The review is written with its proof: the proof is spent from then on, and
\* no other review had it, because it was open.
LEMMA InsertKeeps == ASSUME Inv, NEW j \in Jobs, Insert(j) PROVE Inv'
<1> USE Names, RowsAreRows, RowsApart
<1> DEFINE me == job[j]
           next == [me EXCEPT !.pc = IF me.state = "published" THEN "count" ELSE "commit",
                              !.refs = {ShopRow(me.shop), UserRow(me.user)}]
           mine == {PostRow(me.post)} \union (IF me.proof = None THEN {} ELSE {ProofRow(me.proof)})
           new == [r \in mine |->
                     IF r = PostRow(me.post)
                     THEN [shop |-> me.shop, state |-> me.state, proof |-> me.proof]
                     ELSE [shop |-> me.shop, state |-> "used"]]
<1>1. /\ me.pc = "insert" /\ JobShape(me)
      /\ me.post \in Posts /\ me.proof \in Proofs \union {None} /\ me.state # "absent"
      /\ draft[PostRow(me.post)].state = "absent"
      /\ me.proof # None =>
           lock[ProofRow(me.proof)] = j /\ draft[ProofRow(me.proof)].state = "open"
      /\ Becomes(j, next) /\ Put(j, mine, new)
  BY DEF Insert, Inv, JobsInv
<1>2. JobShape(next) /\ next.pc \notin {"begin", "insert"} /\ next.post = me.post
  BY <1>1 DEF JobShape
<1>3. /\ new[PostRow(me.post)] = [shop |-> me.shop, state |-> me.state, proof |-> me.proof]
      /\ me.proof # None => new[ProofRow(me.proof)] = [shop |-> me.shop, state |-> "used"]
  BY <1>1
<1>4. /\ mine \subseteq Row
      /\ \A p \in Posts : PostRow(p) \in mine <=> p = me.post
      /\ \A v \in Proofs : ProofRow(v) \in mine <=> v = me.proof
  BY <1>1
<1> HIDE DEF me, next, mine, new
<1>5. /\ db' = db
      /\ \A r \in mine : lock[r] \in {Nobody, j} /\ lock'[r] = j /\ draft'[r] = new[r]
      /\ \A r \in Row \ mine : lock'[r] = lock[r] /\ draft'[r] = draft[r]
      /\ DOMAIN lock' = Row /\ DOMAIN draft' = Row
  BY <1>1, <1>4 DEF Put, Free
<1>6. /\ draft'[PostRow(me.post)] = [shop |-> me.shop, state |-> me.state, proof |-> me.proof]
      /\ lock'[PostRow(me.post)] = j
      /\ \A p \in Posts \ {me.post} :
           draft'[PostRow(p)] = draft[PostRow(p)] /\ lock'[PostRow(p)] = lock[PostRow(p)]
  BY <1>1, <1>3, <1>4, <1>5
<1>7. /\ me.proof # None => /\ draft'[ProofRow(me.proof)] = [shop |-> me.shop, state |-> "used"]
                            /\ lock'[ProofRow(me.proof)] = j
      /\ \A v \in Proofs \ {me.proof} :
           draft'[ProofRow(v)] = draft[ProofRow(v)] /\ lock'[ProofRow(v)] = lock[ProofRow(v)]
  BY <1>1, <1>3, <1>4, <1>5
<1>8. /\ db[PostRow(me.post)].proof = None /\ db[PostRow(me.post)].state = "absent"
      /\ draft[PostRow(me.post)].proof = None
  BY <1>1 DEF Inv, TablesInv, Sound, NothingForgotten
<1>9. \A p \in Posts : me.proof # None => draft[PostRow(p)].proof # me.proof
  BY <1>1 DEF Inv, TablesInv, Sound, Spent
<1>10. Sound(db)'
  BY <1>5 DEF Inv, TablesInv, Sound
<1>11. Sound(draft)'
  <2>1. \A p \in Posts : PostShape(draft'[PostRow(p)])
    BY <1>6 DEF Inv, TablesInv, Sound, PostShape
  <2>2. \A v \in Proofs : ProofShape(draft'[ProofRow(v)])
    BY <1>7 DEF Inv, TablesInv, Sound, ProofShape
  <2>3. \A p \in Posts : draft'[PostRow(p)].state = "absent" => draft'[PostRow(p)].proof = None
    BY <1>1, <1>6 DEF Inv, TablesInv, Sound
  <2>4. \A p \in Posts, v \in Proofs :
          draft'[PostRow(p)].proof = v => Spent(draft'[ProofRow(v)])
    BY <1>1, <1>6, <1>7, <1>9 DEF Inv, TablesInv, Sound, Spent
  <2> QED  BY <1>5, <2>1, <2>2, <2>3, <2>4 DEF Sound
<1>12. ClaimedOnce'
  BY <1>1, <1>6, <1>9 DEF Inv, TablesInv, ClaimedOnce
<1>13. NothingForgotten'
  BY <1>1, <1>5, <1>6, <1>8 DEF Inv, TablesInv, NothingForgotten
<1>14. WrittenTogether'
  <2> SUFFICES ASSUME NEW p \in Posts, NEW v \in Proofs, draft'[PostRow(p)].proof = v
               PROVE  \/ db[PostRow(p)].proof = v
                      \/ /\ lock'[PostRow(p)] = lock'[ProofRow(v)]
                         /\ lock'[ProofRow(v)] # Nobody
    BY <1>5 DEF WrittenTogether
  <2>1. CASE p = me.post
    BY <1>1, <1>6, <1>7, <2>1
  <2>2. CASE p # me.post
    BY <1>1, <1>6, <1>7, <1>9, <2>2 DEF Inv, TablesInv, WrittenTogether
  <2> QED  BY <2>1, <2>2
<1>15. \A r \in Row : lock'[r] = Nobody => draft'[r] = db'[r]
  BY <1>5 DEF Inv, TablesInv
<1>16. TablesInv'
  BY <1>5, <1>10, <1>11, <1>12, <1>13, <1>14, <1>15 DEF TablesInv
<1>17. \A p \in Posts : /\ draft[PostRow(p)].state = "absent"
                        /\ \E k \in Jobs \ {j} : job[k].post = p
                        => draft'[PostRow(p)].state = "absent"
  BY <1>1, <1>6 DEF me, Inv, JobsInv
<1>18. \A v \in Proofs, k \in Jobs \ {j} : lock[ProofRow(v)] = k =>
         lock'[ProofRow(v)] = k /\ draft'[ProofRow(v)] = draft[ProofRow(v)]
  BY <1>1, <1>7
<1>19. JobsInv'
  BY <1>1, <1>2, <1>17, <1>18, JobMovesOn DEF me, Inv
<1> QED  BY <1>16, <1>19 DEF Inv

LEMMA CountOneKeeps == ASSUME Inv, NEW j \in Jobs, CountOne(j) PROVE Inv'
<1> DEFINE row == StatsRow(job[j].shop)
           next == [job[j] EXCEPT !.pc = "commit"]
<1>1. PICK value : Put1(j, row, value) /\ Becomes(j, next)
  BY DEF CountOne
<1>2. JobShape(next) /\ next.pc = "commit" /\ next.post = job[j].post
  BY DEF Inv, JobsInv, JobShape
<1>3. Harmless({row}, [r \in {row} |-> value])
  BY RowsApart DEF Harmless
<1> QED  BY <1>1, <1>2, <1>3, HarmlessStatement DEF Put1

LEMMA TallyKeeps == ASSUME Inv, NEW j \in Jobs, Tally(j) PROVE Inv'
<1> DEFINE row == StatsRow(job[j].shop)
           next == [job[j] EXCEPT !.pc = "commit"]
<1>1. PICK value : Put1(j, row, value) /\ Becomes(j, next)
  BY DEF Tally
<1>2. JobShape(next) /\ next.pc = "commit" /\ next.post = job[j].post
  BY DEF Inv, JobsInv, JobShape
<1>3. Harmless({row}, [r \in {row} |-> value])
  BY RowsApart DEF Harmless
<1> QED  BY <1>1, <1>2, <1>3, HarmlessStatement DEF Put1

(***************************************************************************)
(* Deletions, decisions and recounts                                       *)
(***************************************************************************)
LEMMA DeleteKeeps == ASSUME Inv, NEW j \in Jobs, Delete(j) PROVE Inv'
<1>1. PICK p \in Posts :
        /\ Undeleted(Sees(j, PostRow(p)))
        /\ Put1(j, PostRow(p), [Sees(j, PostRow(p)) EXCEPT !.state = "deleted"])
        /\ Becomes(j, [Blank("recount") EXCEPT !.kind = "delete",
                                              !.todo = {Sees(j, PostRow(p)).shop}])
  BY DEF Delete
<1> DEFINE next == [Blank("recount") EXCEPT !.kind = "delete",
                                            !.todo = {Sees(j, PostRow(p)).shop}]
           new == [r \in {PostRow(p)} |-> [Sees(j, PostRow(p)) EXCEPT !.state = "deleted"]]
<1>2. JobShape(next) /\ next.pc = "recount" /\ next.post = None
  BY DEF JobShape, Blank
<1>3. Sees(j, PostRow(p)) = draft[PostRow(p)]
  BY <1>1, SeesNewest, RowsAreRows DEF Inv, Put1, Put
<1>4. PostKept(draft[PostRow(p)], [draft[PostRow(p)] EXCEPT !.state = "deleted"])
  BY <1>1, <1>3 DEF PostKept, PostShape, Undeleted, Inv, TablesInv, Sound
<1>5. Harmless({PostRow(p)}, new)
  BY <1>3, <1>4, RowsApart DEF Harmless
<1> QED  BY <1>1, <1>2, <1>5, HarmlessStatement DEF Put1

LEMMA DecideKeeps == ASSUME Inv, NEW j \in Jobs, Decide(j) PROVE Inv'
<1>1. PICK p \in Posts, answer \in {"published", "removed"} :
        /\ Sees(j, PostRow(p)).state = "held"
        /\ Put1(j, PostRow(p), [Sees(j, PostRow(p)) EXCEPT !.state = answer])
        /\ Becomes(j, [Blank("recount") EXCEPT !.kind = "decide",
                                              !.todo = {Sees(j, PostRow(p)).shop}])
  BY DEF Decide
<1> DEFINE next == [Blank("recount") EXCEPT !.kind = "decide",
                                            !.todo = {Sees(j, PostRow(p)).shop}]
           new == [r \in {PostRow(p)} |-> [Sees(j, PostRow(p)) EXCEPT !.state = answer]]
<1>2. JobShape(next) /\ next.pc = "recount" /\ next.post = None
  BY DEF JobShape, Blank
<1>3. Sees(j, PostRow(p)) = draft[PostRow(p)]
  BY <1>1, SeesNewest, RowsAreRows DEF Inv, Put1, Put
<1>4. PostKept(draft[PostRow(p)], [draft[PostRow(p)] EXCEPT !.state = answer])
  BY <1>1, <1>3 DEF PostKept, PostShape, Inv, TablesInv, Sound
<1>5. Harmless({PostRow(p)}, new)
  BY <1>3, <1>4, RowsApart DEF Harmless
<1> QED  BY <1>1, <1>2, <1>5, HarmlessStatement DEF Put1

LEMMA RecountKeeps == ASSUME Inv, NEW j \in Jobs, Recount(j) PROVE Inv'
<1>1. PICK s \in job[j].todo :
        Becomes(j, [job[j] EXCEPT !.pc = "write", !.shop = s, !.todo = @ \ {s},
                       !.reviews = Reviews(j, s), !.favs = Favourites(j, s)])
  BY DEF Recount
<1> DEFINE next == [job[j] EXCEPT !.pc = "write", !.shop = s, !.todo = @ \ {s},
                       !.reviews = Reviews(j, s), !.favs = Favourites(j, s)]
<1>2. JobShape(next) /\ next.pc = "write" /\ next.post = job[j].post
  BY DEF Inv, JobsInv, JobShape
<1>3. UNCHANGED <<db, draft, lock>>
  BY DEF Recount
<1> QED  BY <1>1, <1>2, <1>3, LookingStatement

LEMMA WriteKeeps == ASSUME Inv, NEW j \in Jobs, Write(j) PROVE Inv'
<1> DEFINE row == StatsRow(job[j].shop)
           next == [job[j] EXCEPT !.pc = IF job[j].todo = {} THEN "commit" ELSE "recount",
                                  !.reviews = 0, !.favs = 0]
<1>1. PICK value : Put1(j, row, value) /\ Becomes(j, next)
  BY DEF Write
<1>2. JobShape(next) /\ next.pc \in {"commit", "recount"} /\ next.post = job[j].post
  BY DEF Inv, JobsInv, JobShape
<1>3. Harmless({row}, [r \in {row} |-> value])
  BY RowsApart DEF Harmless
<1> QED  BY <1>1, <1>2, <1>3, HarmlessStatement DEF Put1

(***************************************************************************)
(* Favourites, visits and accounts                                         *)
(***************************************************************************)
LEMMA FavouriteKeeps == ASSUME Inv, NEW j \in Jobs, Favourite(j) PROVE Inv'
<1>1. PICK u, s, add, favs, refs :
        /\ Put1(j, FavRow(u, s), add)
        /\ Becomes(j, [Blank("tally") EXCEPT !.kind = "favourite", !.shop = s,
                                            !.favs = favs, !.refs = refs])
  BY DEF Favourite
<1> DEFINE row == FavRow(u, s)
           next == [Blank("tally") EXCEPT !.kind = "favourite", !.shop = s,
                                          !.favs = favs, !.refs = refs]
<1>2. JobShape(next) /\ next.pc = "tally" /\ next.post = None
  BY DEF JobShape, Blank
<1>3. Harmless({row}, [r \in {row} |-> add])
  BY RowsApart DEF Harmless
<1> QED  BY <1>1, <1>2, <1>3, HarmlessStatement DEF Put1

\* A new proof takes a row that was absent, which no review names.
LEMMA VerifyVisitKeeps == ASSUME Inv, NEW j \in Jobs, VerifyVisit(j) PROVE Inv'
<1>1. PICK v \in Proofs, s \in Shops :
        /\ draft[ProofRow(v)].state = "absent"
        /\ Put1(j, ProofRow(v), [shop |-> s, state |-> "open"])
        /\ Becomes(j, [Blank("commit") EXCEPT !.kind = "verify",
                                             !.refs = {ShopRow(s), UserRow(Visitor[v])}])
  BY DEF VerifyVisit
<1> DEFINE next == [Blank("commit") EXCEPT !.kind = "verify",
                                           !.refs = {ShopRow(s), UserRow(Visitor[v])}]
           new == [r \in {ProofRow(v)} |-> [shop |-> s, state |-> "open"]]
<1>2. JobShape(next) /\ next.pc = "commit" /\ next.post = None
  BY DEF JobShape, Blank
<1>3. Harmless({ProofRow(v)}, new)
  BY <1>1, RowsApart DEF Harmless, ProofKept, ProofShape, Spent
<1> QED  BY <1>1, <1>2, <1>3, HarmlessStatement DEF Put1

LEMMA LockAccountKeeps == ASSUME Inv, NEW j \in Jobs, LockAccount(j) PROVE Inv'
<1>1. PICK u, todo :
        /\ Put1(j, UserRow(u), "active")
        /\ Becomes(j, [Blank("wipe") EXCEPT !.kind = "account", !.user = u, !.todo = todo])
  BY DEF LockAccount
<1> DEFINE row == UserRow(u)
           next == [Blank("wipe") EXCEPT !.kind = "account", !.user = u, !.todo = todo]
<1>2. JobShape(next) /\ next.pc = "wipe" /\ next.post = None
  BY DEF JobShape, Blank
<1>3. Harmless({row}, [r \in {row} |-> "active"])
  BY RowsApart DEF Harmless
<1> QED  BY <1>1, <1>2, <1>3, HarmlessStatement DEF Put1

\* What is wiped is deleted, and a proof that is wiped is spent.
LEMMA WipeKeeps == ASSUME Inv, NEW j \in Jobs, Wipe(j) PROVE Inv'
<1> DEFINE u == job[j].user
           posts == {p \in Posts : Author[p] = u /\ Undeleted(Sees(j, PostRow(p)))}
           faved == {s \in Shops : Sees(j, FavRow(u, s))}
           proofs == {v \in Proofs : Visitor[v] = u /\ Sees(j, ProofRow(v)).state \in {"open", "used"}}
           rows == {PostRow(p) : p \in posts} \union {FavRow(u, s) : s \in faved}
                     \union {ProofRow(v) : v \in proofs} \union {UserRow(u)}
           new == [r \in rows |->
                 CASE r[1] = "post" -> [Sees(j, r) EXCEPT !.state = "deleted"]
                   [] r[1] = "fav" -> FALSE
                   [] r[1] = "proof" -> [shop |-> None, state |-> "gone"]
                   [] r[1] = "user" -> "inactive"]
           next == [job[j] EXCEPT !.pc = IF job[j].todo = {} THEN "commit" ELSE "recount"]
<1>1. Put(j, rows, new) /\ Becomes(j, next)
  BY DEF Wipe
<1>2. JobShape(next) /\ next.pc \in {"commit", "recount"} /\ next.post = job[j].post
  BY DEF Inv, JobsInv, JobShape
<1>3. \A p \in Posts : PostRow(p) \in rows =>
        /\ Undeleted(Sees(j, PostRow(p)))
        /\ new[PostRow(p)] = [Sees(j, PostRow(p)) EXCEPT !.state = "deleted"]
  BY RowsApart
<1>4. \A v \in Proofs : ProofRow(v) \in rows =>
        new[ProofRow(v)] = [shop |-> None, state |-> "gone"]
  BY RowsApart
<1> HIDE DEF rows, new, next
<1>5. \A p \in Posts : PostRow(p) \in rows => Sees(j, PostRow(p)) = draft[PostRow(p)]
  BY <1>1, SeesNewest, RowsAreRows DEF Inv, Put
<1>6. ASSUME NEW p \in Posts, PostRow(p) \in rows
      PROVE  PostKept(draft[PostRow(p)], new[PostRow(p)])
  <2> DEFINE old == draft[PostRow(p)]
  <2>1. PostShape(old)
    BY DEF Inv, TablesInv, Sound
  <2>2. Undeleted(old) /\ new[PostRow(p)] = [old EXCEPT !.state = "deleted"]
    BY <1>3, <1>5, <1>6
  <2> HIDE DEF old
  <2> QED  BY <2>1, <2>2 DEF old, PostKept, PostShape, Undeleted
<1>7. ASSUME NEW v \in Proofs, ProofRow(v) \in rows
      PROVE  ProofKept(draft[ProofRow(v)], new[ProofRow(v)])
  BY <1>4, <1>7 DEF ProofKept, ProofShape, Spent
<1>8. Harmless(rows, new)
  BY <1>6, <1>7 DEF Harmless
<1> QED  BY <1>1, <1>2, <1>8, HarmlessStatement

(***************************************************************************)
(* MergeStores                                                             *)
(***************************************************************************)
LEMMA MergeKeeps == ASSUME Inv, NEW j \in Jobs, Merge(j) PROVE Inv'
<1>1. PICK keep \in Shops, drop \in Shops :
        Becomes(j, [Blank("posts") EXCEPT !.kind = "merge", !.shop = keep, !.other = drop])
  BY DEF Merge
<1> DEFINE next == [Blank("posts") EXCEPT !.kind = "merge", !.shop = keep, !.other = drop]
<1>2. JobShape(next) /\ next.pc = "posts" /\ next.post = None
  BY DEF JobShape, Blank
<1>3. UNCHANGED <<db, draft, lock>>
  BY DEF Merge
<1> QED  BY <1>1, <1>2, <1>3, LookingStatement

\* A row that is moved changes its shop and nothing else.
LEMMA MoveKeeps ==
    ASSUME Inv, NEW j \in Jobs, NEW rows, NEW pc, Move(j, rows, pc),
           pc \notin {"begin", "insert"},
           rows = {PostRow(p) : p \in Posts} \/ rows = {ProofRow(v) : v \in Proofs}
    PROVE  Inv'
<1> DEFINE me == job[j]
           moved == {r \in rows : Sees(j, r).shop = me.other}
           refs == IF moved = {} THEN {} ELSE {ShopRow(me.shop)}
           new == [r \in moved |-> [Sees(j, r) EXCEPT !.shop = me.shop]]
           next == [me EXCEPT !.pc = pc, !.refs = @ \union refs]
<1>1. Put(j, moved, new) /\ Becomes(j, next)
  BY DEF Move
<1>2. JobShape(next) /\ next.pc = pc /\ next.post = job[j].post
  BY DEF Inv, JobsInv, JobShape
<1>3. \A r \in moved : new[r] = [Sees(j, r) EXCEPT !.shop = me.shop]
  OBVIOUS
<1> HIDE DEF moved, new, next, me
<1>4. \A r \in Row : r \in moved => Sees(j, r) = draft[r]
  BY <1>1, SeesNewest DEF Inv, Put
<1>5. ASSUME NEW p \in Posts, PostRow(p) \in moved
      PROVE  PostKept(draft[PostRow(p)], new[PostRow(p)])
  <2> DEFINE old == draft[PostRow(p)]
  <2>1. PostShape(old)
    BY DEF Inv, TablesInv, Sound
  <2>2. new[PostRow(p)] = [old EXCEPT !.shop = me.shop]
    BY <1>3, <1>4, <1>5, RowsAreRows
  <2> QED  BY <2>1, <2>2 DEF PostKept, PostShape
<1>6. ASSUME NEW v \in Proofs, ProofRow(v) \in moved
      PROVE  ProofKept(draft[ProofRow(v)], new[ProofRow(v)])
  <2> DEFINE old == draft[ProofRow(v)]
  <2>1. ProofShape(old)
    BY DEF Inv, TablesInv, Sound
  <2>2. new[ProofRow(v)] = [old EXCEPT !.shop = me.shop]
    BY <1>3, <1>4, <1>6, RowsAreRows
  <2> QED  BY <2>1, <2>2 DEF ProofKept, ProofShape, Spent
<1>7. Harmless(moved, new)
  BY <1>5, <1>6 DEF Harmless
<1> QED  BY <1>1, <1>2, <1>7, HarmlessStatement

LEMMA MovePostsKeeps == ASSUME Inv, NEW j \in Jobs, MovePosts(j) PROVE Inv'
  BY MoveKeeps DEF MovePosts

LEMMA MoveVisitsKeeps == ASSUME Inv, NEW j \in Jobs, MoveVisits(j) PROVE Inv'
  BY MoveKeeps DEF MoveVisits

LEMMA CopyFavouritesKeeps == ASSUME Inv, NEW j \in Jobs, CopyFavourites(j) PROVE Inv'
<1> DEFINE me == job[j]
           users == {u \in Users : Sees(j, FavRow(u, me.other)) /\ ~Sees(j, FavRow(u, me.shop))}
           rows == {FavRow(u, me.shop) : u \in users}
           refs == IF users = {} THEN {} ELSE {ShopRow(me.shop)} \union {UserRow(u) : u \in users}
           new == [r \in rows |-> TRUE]
           next == [me EXCEPT !.pc = "clear", !.refs = @ \union refs]
<1>1. Put(j, rows, new) /\ Becomes(j, next)
  BY DEF CopyFavourites
<1>2. JobShape(next) /\ next.pc = "clear" /\ next.post = job[j].post
  BY DEF Inv, JobsInv, JobShape
<1>3. /\ \A p \in Posts : PostRow(p) \notin rows
      /\ \A v \in Proofs : ProofRow(v) \notin rows
  BY RowsApart
<1> HIDE DEF rows, new, next
<1>4. Harmless(rows, new)
  BY <1>3 DEF Harmless
<1> QED  BY <1>1, <1>2, <1>4, HarmlessStatement

LEMMA ClearFavouritesKeeps == ASSUME Inv, NEW j \in Jobs, ClearFavourites(j) PROVE Inv'
<1> DEFINE rows == {r \in {FavRow(u, job[j].other) : u \in Users} : Sees(j, r)}
           new == [r \in rows |-> FALSE]
           next == [job[j] EXCEPT !.pc = "keep"]
<1>1. Put(j, rows, new) /\ Becomes(j, next)
  BY DEF ClearFavourites
<1>2. JobShape(next) /\ next.pc = "keep" /\ next.post = job[j].post
  BY DEF Inv, JobsInv, JobShape
<1>3. /\ \A p \in Posts : PostRow(p) \notin rows
      /\ \A v \in Proofs : ProofRow(v) \notin rows
  BY RowsApart
<1> HIDE DEF rows, new, next
<1>4. Harmless(rows, new)
  BY <1>3 DEF Harmless
<1> QED  BY <1>1, <1>2, <1>4, HarmlessStatement

LEMMA UpdateKeptKeeps == ASSUME Inv, NEW j \in Jobs, UpdateKept(j) PROVE Inv'
<1> DEFINE row == ShopRow(job[j].shop)
           next == [job[j] EXCEPT !.pc = "drop"]
<1>1. PICK value : Put1(j, row, value) /\ Becomes(j, next)
  BY DEF UpdateKept
<1>2. JobShape(next) /\ next.pc = "drop" /\ next.post = job[j].post
  BY DEF Inv, JobsInv, JobShape
<1>3. Harmless({row}, [r \in {row} |-> value])
  BY RowsApart DEF Harmless
<1> QED  BY <1>1, <1>2, <1>3, HarmlessStatement DEF Put1

LEMMA RetireKeeps == ASSUME Inv, NEW j \in Jobs, Retire(j) PROVE Inv'
<1> DEFINE row == ShopRow(job[j].other)
           next == [job[j] EXCEPT !.pc = "recount", !.todo = {job[j].shop}]
<1>1. PICK value : Put1(j, row, value) /\ Becomes(j, next)
  BY DEF Retire
<1>2. JobShape(next) /\ next.pc = "recount" /\ next.post = job[j].post
  BY DEF Inv, JobsInv, JobShape
<1>3. Harmless({row}, [r \in {row} |-> value])
  BY RowsApart DEF Harmless
<1> QED  BY <1>1, <1>2, <1>3, HarmlessStatement DEF Put1

(***************************************************************************)
(* The end of a transaction                                                *)
(***************************************************************************)
\* What becomes of a row when j's writes are committed, or undone.
LEMMA CommitKeeps == ASSUME Inv, NEW j \in Jobs, Commit(j) PROVE Inv'
<1> USE Names, RowsAreRows
<1>1. /\ \A r \in Row : lock[r] = j => db'[r] = draft[r] /\ lock'[r] = Nobody
      /\ \A r \in Row : lock[r] # j => db'[r] = db[r] /\ lock'[r] = lock[r]
      /\ DOMAIN db' = Row /\ DOMAIN lock' = Row /\ draft' = draft
      /\ Becomes(j, Blank("done"))
  BY DEF Commit, Sees, Unlocked
<1>2. Sound(draft)'
  BY <1>1 DEF Inv, TablesInv, Sound
<1>3. Sound(db)'
  <2>1. \A p \in Posts : PostShape(db'[PostRow(p)])
    BY <1>1 DEF Inv, TablesInv, Sound
  <2>2. \A v \in Proofs : ProofShape(db'[ProofRow(v)])
    BY <1>1 DEF Inv, TablesInv, Sound
  <2>3. \A p \in Posts : db'[PostRow(p)].state = "absent" => db'[PostRow(p)].proof = None
    BY <1>1 DEF Inv, TablesInv, Sound
  <2>4. ASSUME NEW p \in Posts, NEW v \in Proofs, db'[PostRow(p)].proof = v
        PROVE  Spent(db'[ProofRow(v)])
    <3>1. draft[PostRow(p)].proof = v
      BY <1>1, <2>4 DEF Inv, TablesInv, NothingForgotten
    <3>2. Spent(draft[ProofRow(v)])
      BY <3>1 DEF Inv, TablesInv, Sound
    <3>3. CASE lock[ProofRow(v)] = j
      BY <1>1, <3>2, <3>3
    <3>4. CASE lock[ProofRow(v)] # j
      <4>1. db[PostRow(p)].proof = v
        BY <1>1, <2>4, <3>1, <3>4 DEF Inv, TablesInv, WrittenTogether
      <4> QED  BY <1>1, <3>4, <4>1 DEF Inv, TablesInv, Sound
    <3> QED  BY <3>3, <3>4
  <2> QED  BY <1>1, <2>1, <2>2, <2>3, <2>4 DEF Sound
<1>4. ClaimedOnce' /\ NothingForgotten'
  BY <1>1 DEF Inv, TablesInv, ClaimedOnce, NothingForgotten
<1>5. WrittenTogether'
  <2> SUFFICES ASSUME NEW p \in Posts, NEW v \in Proofs, draft[PostRow(p)].proof = v
               PROVE  \/ db'[PostRow(p)].proof = v
                      \/ /\ lock'[PostRow(p)] = lock'[ProofRow(v)]
                         /\ lock'[ProofRow(v)] # Nobody
    BY <1>1 DEF WrittenTogether
  <2>1. CASE db[PostRow(p)].proof = v
    BY <1>1, <2>1
  <2>2. CASE lock[PostRow(p)] = lock[ProofRow(v)] /\ lock[ProofRow(v)] # Nobody
    BY <1>1, <2>2
  <2> QED  BY <2>1, <2>2 DEF Inv, TablesInv, WrittenTogether
<1>6. \A r \in Row : lock'[r] = Nobody => draft'[r] = db'[r]
  BY <1>1 DEF Inv, TablesInv
<1>7. TablesInv'
  BY <1>1, <1>2, <1>3, <1>4, <1>5, <1>6 DEF TablesInv
<1>8. \A v \in Proofs, k \in Jobs \ {j} : lock[ProofRow(v)] = k =>
        lock'[ProofRow(v)] = k /\ draft'[ProofRow(v)] = draft[ProofRow(v)]
  BY <1>1
<1>9. JobsInv'
  BY <1>1, <1>8, BlankShape, JobMovesOn DEF Inv
<1> QED  BY <1>7, <1>9 DEF Inv

LEMMA AbortKeeps == ASSUME Inv, NEW j \in Jobs, Abort(j) PROVE Inv'
<1> USE Names, RowsAreRows
<1>1. /\ \A r \in Row : lock[r] = j => draft'[r] = db[r] /\ lock'[r] = Nobody
      /\ \A r \in Row : lock[r] # j => draft'[r] = draft[r] /\ lock'[r] = lock[r]
      /\ DOMAIN draft' = Row /\ DOMAIN lock' = Row /\ db' = db
      /\ Becomes(j, Blank("done"))
  BY DEF Abort, Unlocked
<1>2. Sound(db)'
  BY <1>1 DEF Inv, TablesInv, Sound
<1>3. \A p \in Posts : draft'[PostRow(p)].proof # None =>
        draft'[PostRow(p)].proof = draft[PostRow(p)].proof
  BY <1>1 DEF Inv, TablesInv, NothingForgotten
<1>4. Sound(draft)'
  <2>1. \A p \in Posts : PostShape(draft'[PostRow(p)])
    BY <1>1 DEF Inv, TablesInv, Sound
  <2>2. \A v \in Proofs : ProofShape(draft'[ProofRow(v)])
    BY <1>1 DEF Inv, TablesInv, Sound
  <2>3. \A p \in Posts : draft'[PostRow(p)].state = "absent" => draft'[PostRow(p)].proof = None
    BY <1>1 DEF Inv, TablesInv, Sound
  <2>4. ASSUME NEW p \in Posts, NEW v \in Proofs, draft'[PostRow(p)].proof = v
        PROVE  Spent(draft'[ProofRow(v)])
    <3>1. draft[PostRow(p)].proof = v
      BY <1>3, <2>4
    <3>2. Spent(draft[ProofRow(v)])
      BY <3>1 DEF Inv, TablesInv, Sound
    <3>3. CASE lock[ProofRow(v)] # j
      BY <1>1, <3>2, <3>3
    <3>4. CASE lock[ProofRow(v)] = j
      <4>1. db[PostRow(p)].proof = v
        BY <1>1, <2>4, <3>1, <3>4 DEF Inv, TablesInv, WrittenTogether
      <4> QED  BY <1>1, <3>4, <4>1 DEF Inv, TablesInv, Sound
    <3> QED  BY <3>3, <3>4
  <2> QED  BY <1>1, <2>1, <2>2, <2>3, <2>4 DEF Sound
<1>5. ClaimedOnce'
  BY <1>3 DEF Inv, TablesInv, ClaimedOnce
<1>6. NothingForgotten'
  BY <1>1 DEF Inv, TablesInv, NothingForgotten
<1>7. WrittenTogether'
  <2> SUFFICES ASSUME NEW p \in Posts, NEW v \in Proofs, draft'[PostRow(p)].proof = v
               PROVE  \/ db[PostRow(p)].proof = v
                      \/ /\ lock'[PostRow(p)] = lock'[ProofRow(v)]
                         /\ lock'[ProofRow(v)] # Nobody
    BY <1>1 DEF WrittenTogether
  <2>1. CASE lock[PostRow(p)] = j
    BY <1>1, <2>1
  <2>2. CASE lock[PostRow(p)] # j
    BY <1>1, <2>2 DEF Inv, TablesInv, WrittenTogether
  <2> QED  BY <2>1, <2>2
<1>8. \A r \in Row : lock'[r] = Nobody => draft'[r] = db'[r]
  BY <1>1 DEF Inv, TablesInv
<1>9. TablesInv'
  BY <1>1, <1>2, <1>4, <1>5, <1>6, <1>7, <1>8 DEF TablesInv
<1>10. \A p \in Posts : draft[PostRow(p)].state = "absent" => draft'[PostRow(p)].state = "absent"
  BY <1>1 DEF Inv, TablesInv, NothingForgotten
<1>11. \A v \in Proofs, k \in Jobs \ {j} : lock[ProofRow(v)] = k =>
         lock'[ProofRow(v)] = k /\ draft'[ProofRow(v)] = draft[ProofRow(v)]
  BY <1>1
<1>12. JobsInv'
  BY <1>1, <1>10, <1>11, BlankShape, JobMovesOn DEF Inv
<1> QED  BY <1>9, <1>12 DEF Inv

(***************************************************************************)
(* The theorem                                                             *)
(***************************************************************************)
LEMMA NextKeeps == Inv /\ [Next]_vars => Inv'
<1> SUFFICES ASSUME Inv, [Next]_vars PROVE Inv'
  OBVIOUS
<1>1. CASE UNCHANGED vars
  BY <1>1 DEF vars, Inv, TablesInv, JobsInv, Sound, ClaimedOnce, NothingForgotten,
              WrittenTogether
<1>2. CASE Next
  <2> PICK j \in Jobs :
    \/ Arrive(j) \/ Begin(j) \/ Insert(j) \/ CountOne(j)
    \/ Delete(j) \/ Decide(j) \/ Recount(j) \/ Write(j)
    \/ Favourite(j) \/ Tally(j) \/ VerifyVisit(j)
    \/ LockAccount(j) \/ Wipe(j)
    \/ Merge(j) \/ MovePosts(j) \/ MoveVisits(j) \/ CopyFavourites(j)
    \/ ClearFavourites(j) \/ UpdateKept(j) \/ Retire(j)
    \/ Commit(j) \/ Abort(j)
    BY <1>2 DEF Next
  <2> QED  BY ArriveKeeps, BeginKeeps, InsertKeeps, CountOneKeeps, DeleteKeeps, DecideKeeps,
              RecountKeeps, WriteKeeps, FavouriteKeeps, TallyKeeps, VerifyVisitKeeps,
              LockAccountKeeps, WipeKeeps, MergeKeeps, MovePostsKeeps, MoveVisitsKeeps,
              CopyFavouritesKeeps, ClearFavouritesKeeps, UpdateKeptKeeps, RetireKeeps,
              CommitKeeps, AbortKeeps
<1> QED  BY <1>1, <1>2

\* Everything committed was the newest version when it was, and no two newest
\* versions share a proof.
LEMMA InvUsedOnce == Inv => ProofUsedOnce
  BY DEF Inv, TablesInv, ClaimedOnce, NothingForgotten, ProofUsedOnce

\* Whoever sends a proof with two reviews at the same moment, deletes the
\* account or merges the shop meanwhile: one review has it (CreateReview's
\* SELECT ... used_at IS NULL ... FOR UPDATE and its UPDATE ... SET used_at).
THEOREM ProofUsedOnceHolds == Spec => []ProofUsedOnce
<1>1. Init => Inv
  BY InitInv
<1>2. Inv /\ [Next]_vars => Inv'
  BY NextKeeps
<1>3. Inv => ProofUsedOnce
  BY InvUsedOnce
<1> QED  BY <1>1, <1>2, <1>3, PTL DEF Spec

(***************************************************************************)
(* The numbers kept beside a shop, and the decisions on its reviews: the   *)
(* inductive invariant                                                     *)
(***************************************************************************)
Kinds == {"none", "review", "delete", "decide", "favourite", "verify", "account", "merge"}
Moving == {"posts", "visits", "copy", "clear", "keep", "drop"}
Pcs == {"idle", "begin", "insert", "count", "recount", "write", "tally", "wipe",
        "commit", "done"} \union Moving

\* Besides its type, a review that is not deleted is with a shop.
PostTyped(x) ==
    /\ x \in [shop : Shops \union {None}, state : PostStates, proof : Proofs \union {None}]
    /\ Undeleted(x) => x.shop \in Shops
ProofTyped(x) == x \in [shop : Shops \union {None}, state : ProofStates]
StatsTyped(x) == x \in [reviews : Nat, favs : Nat, missed : SUBSET {"reviews", "favs"}]

TablesTyped(tables) ==
    /\ DOMAIN tables = Row
    /\ \A p \in Posts : PostTyped(tables[PostRow(p)])
    /\ \A v \in Proofs : ProofTyped(tables[ProofRow(v)])
    /\ \A u \in Users, s \in Shops : tables[FavRow(u, s)] \in BOOLEAN
    /\ \A s \in Shops : StatsTyped(tables[StatsRow(s)])
    /\ \A s \in Shops : tables[ShopRow(s)] \in Shops \union {Live}
    /\ \A u \in Users : tables[UserRow(u)] \in {"active", "inactive"}

JobTyped(x) ==
    /\ JobShape(x)
    /\ x.kind \in Kinds /\ x.pc \in Pcs
    /\ x.pc \in {"idle", "done"} => x.kind = "none"
    /\ x.pc \in {"begin", "insert", "count"} =>
         /\ x.kind = "review" /\ x.shop \in Shops /\ x.user \in Users /\ x.post \in Posts
         /\ x.proof \in Proofs \union {None} /\ x.state \in {"held", "published"}
    /\ x.pc = "count" => x.state = "published"
    /\ x.pc = "tally" => x.kind = "favourite" /\ x.shop \in Shops /\ x.favs \in {1, -1}
    /\ x.pc = "wipe" => x.kind = "account" /\ x.user \in Users /\ x.todo \subseteq Shops
    /\ x.pc \in Moving =>
         x.kind = "merge" /\ x.shop \in Shops /\ x.other \in Shops /\ x.shop # x.other
    /\ x.pc \in {"recount", "write"} => x.todo \subseteq Shops
    /\ x.pc = "write" => x.shop \in Shops /\ x.reviews \in Nat /\ x.favs \in Nat

Types ==
    /\ TablesTyped(db) /\ TablesTyped(draft)
    /\ lock \in [Row -> Jobs \union {Nobody}]
    /\ \A r \in Row : lock[r] = Nobody => draft[r] = db[r]
    /\ uncounted \subseteq Shops \X {"reviews", "favs"}
    /\ DOMAIN job = Jobs /\ \A j \in Jobs : JobTyped(job[j])

\* What a state of a review may become.
Becoming(now, then) ==
    /\ now = "deleted" => then = "deleted"
    /\ now \in {"removed", "published"} => then \in {now, "deleted"}

Decisions ==
    \A p \in Posts : Becoming(db[PostRow(p)].state, draft[PostRow(p)].state)

\* A shop that is gone stays so.
Gone == \A s \in Shops : db[ShopRow(s)] # Live => draft[ShopRow(s)] # Live

\* The rows a transaction has not written yet, by where it is.
Hands(j) ==
    LET me == job[j] IN
    /\ me.pc \notin {"recount", "write", "commit"} => \A s \in Shops : lock[StatsRow(s)] # j
    /\ me.pc \in {"idle", "done", "begin", "insert", "wipe", "posts", "tally"} =>
         \A p \in Posts : lock[PostRow(p)] # j
    /\ me.pc \in {"idle", "done", "begin", "insert", "count", "wipe", "posts", "visits", "copy"} =>
         \A u \in Users, s \in Shops : lock[FavRow(u, s)] # j
    /\ me.pc = "count" =>
         /\ \A p \in Posts : lock[PostRow(p)] = j <=> p = me.post
         /\ Shown(draft[PostRow(me.post)], me.shop)
         /\ db[PostRow(me.post)].state = "absent"
    /\ me.pc = "tally" =>
         \E w \in Users :
            /\ \A u \in Users, s \in Shops : lock[FavRow(u, s)] = j <=> u = w /\ s = me.shop
            /\ draft[FavRow(w, me.shop)] <=> me.favs = 1
            /\ db[FavRow(w, me.shop)] <=> me.favs = -1

\* The shops whose reviews, and whose favourites, a transaction at x has yet
\* to count.
OwesReviews(x, s) ==
    \/ x.pc = "count" /\ s = x.shop
    \/ x.pc \in {"recount", "write"} /\ s \in x.todo
    \/ x.pc = "write" /\ s = x.shop
    \/ x.pc \in Moving /\ s \in {x.shop, x.other}

OwesFavs(x, s) ==
    \/ x.pc = "tally" /\ s = x.shop
    \/ x.kind = "merge" /\ x.pc \in {"recount", "write"} /\ s \in x.todo
    \/ x.kind = "merge" /\ x.pc = "write" /\ s = x.shop
    \/ x.pc \in Moving /\ s \in {x.shop, x.other}

\* j has written the numbers of s, or merges the shop away, or it is gone.
Covered(j, s) ==
    \/ lock[StatsRow(s)] = j
    \/ job[j].kind = "merge" /\ lock[ShopRow(s)] = j /\ draft[ShopRow(s)] # Live
    \/ db[ShopRow(s)] # Live

\* A transaction that changes what is shown of a shop, or who likes it,
\* counts it in the end, or is the account's deletion that does not.
ReckonsReviews(j) ==
    \A p \in Posts, s \in Shops :
        /\ lock[PostRow(p)] = j
        /\ ~(Shown(draft[PostRow(p)], s) <=> Shown(db[PostRow(p)], s))
        => OwesReviews(job[j], s) \/ Covered(j, s) \/ <<s, "reviews">> \in uncounted
ReckonsFavs(j) ==
    \A u \in Users, s \in Shops :
        /\ lock[FavRow(u, s)] = j
        /\ draft[FavRow(u, s)] # db[FavRow(u, s)]
        => OwesFavs(job[j], s) \/ Covered(j, s) \/ <<s, "favs">> \in uncounted

\* The numbers stats of s agree with count and likes.
ReviewsAgree(stats, s, count) ==
    \/ "reviews" \in stats.missed \/ <<s, "reviews">> \in uncounted \/ db[ShopRow(s)] # Live
    \/ stats.reviews = count
FavsAgree(stats, s, count) ==
    \/ "favs" \in stats.missed \/ <<s, "favs">> \in uncounted \/ db[ShopRow(s)] # Live
    \/ stats.favs = count

\* Numbers that j has written agree with what j sees ...
Counted(j) ==
    \A s \in Shops : lock[StatsRow(s)] = j =>
        /\ ReviewsAgree(draft[StatsRow(s)], s, Reviews(j, s))
        /\ FavsAgree(draft[StatsRow(s)], s, Favourites(j, s))

\* ... and what is committed with what is.
Committed ==
    \A s \in Shops :
        /\ ReviewsAgree(db[StatsRow(s)], s,
                        Cardinality({p \in Posts : Shown(db[PostRow(p)], s)}))
        /\ FavsAgree(db[StatsRow(s)], s, Cardinality({u \in Users : db[FavRow(u, s)]}))

Books(j) == Hands(j) /\ ReckonsReviews(j) /\ ReckonsFavs(j) /\ Counted(j)

Drift == Types /\ Decisions /\ Gone /\ Committed /\ \A j \in Jobs : Books(j)

(***************************************************************************)
(* Rows, and what a statement does to them                                 *)
(***************************************************************************)
LEMMA AllRowsApart ==
    /\ \A u, s, w, t : FavRow(u, s) = FavRow(w, t) => u = w /\ s = t
    /\ \A s, t : StatsRow(s) = StatsRow(t) => s = t
    /\ \A s, t : ShopRow(s) = ShopRow(t) => s = t
    /\ \A u, w : UserRow(u) = UserRow(w) => u = w
    /\ \A u, s, t : FavRow(u, s) # StatsRow(t) /\ FavRow(u, s) # ShopRow(t)
                    /\ FavRow(u, s) # UserRow(t)
    /\ \A s, t : StatsRow(s) # ShopRow(t) /\ StatsRow(s) # UserRow(t)
    /\ \A s, t : ShopRow(s) # UserRow(t)
    /\ \A u, s : FavRow(u, s)[1] = "fav" /\ StatsRow(s)[1] = "stats"
    /\ \A u, s : UserRow(u)[1] = "user" /\ ShopRow(s)[1] = "shop"
  BY DEF StatsRow, ShopRow, UserRow, FavRow

LEMMA AllRowsAreRows ==
    /\ \A u \in Users, s \in Shops : FavRow(u, s) \in Row
    /\ \A s \in Shops : StatsRow(s) \in Row
    /\ \A s \in Shops : ShopRow(s) \in Row
    /\ \A u \in Users : UserRow(u) \in Row
  BY DEF Row

LEMMA MoreNames == Live \notin Shops /\ None \notin Shops /\ None \notin Users
  BY RecordsAssumption

\* What is written of R has its row's type, takes no decision back and brings
\* no shop back.
Fitting(R, new) ==
    /\ \A p \in Posts : PostRow(p) \in R =>
         PostTyped(new[PostRow(p)])
         /\ Becoming(draft[PostRow(p)].state, new[PostRow(p)].state)
    /\ \A v \in Proofs : ProofRow(v) \in R => ProofTyped(new[ProofRow(v)])
    /\ \A u \in Users, s \in Shops : FavRow(u, s) \in R => new[FavRow(u, s)] \in BOOLEAN
    /\ \A s \in Shops : StatsRow(s) \in R => StatsTyped(new[StatsRow(s)])
    /\ \A s \in Shops : ShopRow(s) \in R =>
         /\ new[ShopRow(s)] \in Shops \union {Live}
         /\ draft[ShopRow(s)] # Live => new[ShopRow(s)] # Live
    /\ \A u \in Users : UserRow(u) \in R => new[UserRow(u)] \in {"active", "inactive"}

LEMMA PutFacts ==
    ASSUME Types, NEW j \in Jobs, NEW R, NEW new, Put(j, R, new)
    PROVE  /\ db' = db /\ DOMAIN lock' = Row /\ DOMAIN draft' = Row
           /\ \A r \in Row : r \in R =>
                /\ lock[r] \in {Nobody, j} /\ lock'[r] = j
                /\ draft'[r] = new[r] /\ Sees(j, r) = draft[r]
           /\ \A r \in Row : r \notin R => lock'[r] = lock[r] /\ draft'[r] = draft[r]
  BY DEF Put, Free, Types, Sees

LEMMA FittingPut ==
    ASSUME Types, Decisions, Gone, NEW j \in Jobs, NEW R, NEW new, Put(j, R, new), Fitting(R, new)
    PROVE  /\ TablesTyped(db)' /\ TablesTyped(draft)'
           /\ lock' \in [Row -> Jobs \union {Nobody}]
           /\ \A r \in Row : lock'[r] = Nobody => draft'[r] = db'[r]
           /\ Decisions' /\ Gone'
<1> USE RowsAreRows, AllRowsAreRows
<1>1. /\ db' = db /\ DOMAIN lock' = Row /\ DOMAIN draft' = Row
      /\ \A r \in Row : r \in R =>
           lock[r] \in {Nobody, j} /\ lock'[r] = j /\ draft'[r] = new[r]
      /\ \A r \in Row : r \notin R => lock'[r] = lock[r] /\ draft'[r] = draft[r]
  BY PutFacts
<1>2. TablesTyped(db) /\ TablesTyped(draft) /\ lock \in [Row -> Jobs \union {Nobody}]
      /\ \A r \in Row : lock[r] = Nobody => draft[r] = db[r]
  BY DEF Types
<1>3. TablesTyped(db)'
  BY <1>1, <1>2 DEF TablesTyped
<1>4. TablesTyped(draft)'
  BY <1>1, <1>2 DEF TablesTyped, Fitting
<1>5. lock' \in [Row -> Jobs \union {Nobody}]
  <2>1. lock' = [r \in Row |-> IF r \in R THEN j ELSE lock[r]]
    BY DEF Put
  <2>. QED BY <1>2, <2>1
<1>6. \A r \in Row : lock'[r] = Nobody => draft'[r] = db'[r]
  BY <1>1, <1>2, Names
<1>7. Decisions'
  <2> SUFFICES ASSUME NEW p \in Posts
               PROVE  Becoming(db[PostRow(p)].state, draft'[PostRow(p)].state)
    BY <1>1 DEF Decisions
  <2>1. Becoming(db[PostRow(p)].state, draft[PostRow(p)].state)
    BY DEF Decisions
  <2>2. CASE PostRow(p) \in R
    <3>1. Becoming(draft[PostRow(p)].state, draft'[PostRow(p)].state)
      BY <1>1, <2>2 DEF Fitting
    <3>. QED BY <2>1, <3>1 DEF Becoming
  <2>3. CASE PostRow(p) \notin R
    BY <1>1, <2>1, <2>3
  <2>. QED BY <2>2, <2>3
<1>8. Gone'
  BY <1>1 DEF Gone, Fitting
<1>. QED BY <1>3, <1>4, <1>5, <1>6, <1>7, <1>8

\* What k sees is not changed by another's statement, nor by its own but in the rows it
\* writes.
LEMMA ViewKept ==
    ASSUME Types, NEW j \in Jobs, NEW R, NEW new, Put(j, R, new),
           NEW k \in Jobs, NEW r \in Row, k # j \/ r \notin R
    PROVE  Sees(k, r)' = Sees(k, r)
<1>1. /\ db' = db
      /\ \A q \in Row : q \in R => lock[q] \in {Nobody, j} /\ lock'[q] = j
      /\ \A q \in Row : q \notin R => lock'[q] = lock[q] /\ draft'[q] = draft[q]
  BY PutFacts
<1>2. CASE r \in R
  <2>1. lock[r] # k /\ lock'[r] # k
    BY <1>1, <1>2, Names
  <2>. QED BY <1>1, <2>1 DEF Sees
<1>3. CASE r \notin R
  BY <1>1, <1>3 DEF Sees
<1>. QED BY <1>2, <1>3

LEMMA ReviewsKept ==
    ASSUME Types, NEW j \in Jobs, NEW R, NEW new, Put(j, R, new), NEW k \in Jobs,
           k # j \/ \A p \in Posts : PostRow(p) \notin R
    PROVE  \A s \in Shops : Reviews(k, s)' = Reviews(k, s)
<1>1. \A p \in Posts : Sees(k, PostRow(p))' = Sees(k, PostRow(p))
  BY ViewKept, RowsAreRows
<1>. QED BY <1>1 DEF Reviews

LEMMA FavouritesKept ==
    ASSUME Types, NEW j \in Jobs, NEW R, NEW new, Put(j, R, new), NEW k \in Jobs,
           k # j \/ \A u \in Users, s \in Shops : FavRow(u, s) \notin R
    PROVE  \A s \in Shops : Favourites(k, s)' = Favourites(k, s)
<1>1. \A u \in Users, s \in Shops : Sees(k, FavRow(u, s))' = Sees(k, FavRow(u, s))
  BY ViewKept, AllRowsAreRows
<1>. QED BY <1>1 DEF Favourites

(***************************************************************************)
(* One transaction's statement leaves the books of the others as they are  *)
(***************************************************************************)
LEMMA OthersKeep ==
    ASSUME Types, NEW j \in Jobs, NEW R, NEW new, Put(j, R, new), uncounted \subseteq uncounted',
           NEW k \in Jobs, k # j, job'[k] = job[k], Books(k)
    PROVE  Books(k)'
<1> USE RowsAreRows, AllRowsAreRows
<1>1. /\ db' = db
      /\ \A r \in Row : lock'[r] = k <=> lock[r] = k
      /\ \A r \in Row : lock[r] = k => draft'[r] = draft[r]
  <2>1. /\ db' = db
        /\ \A r \in Row : r \in R => lock[r] \in {Nobody, j} /\ lock'[r] = j
        /\ \A r \in Row : r \notin R => lock'[r] = lock[r] /\ draft'[r] = draft[r]
    BY PutFacts
  <2>. QED BY <2>1, Names
<1>2. Hands(k)'
  <2>1. Hands(k)
    BY DEF Books
  <2>2. job[k].pc = "count" => job[k].post \in Posts
    BY DEF Types, JobTyped
  <2>3. job[k].pc = "tally" => job[k].shop \in Shops
    BY DEF Types, JobTyped
  <2>. QED BY <1>1, <2>1, <2>2, <2>3 DEF Hands
<1>3. \A s \in Shops : Covered(k, s) => Covered(k, s)'
  BY <1>1 DEF Covered
<1>4. ReckonsReviews(k)'
  <2>1. ReckonsReviews(k)
    BY DEF Books
  <2>. QED BY <1>1, <1>3, <2>1 DEF ReckonsReviews
<1>5. ReckonsFavs(k)'
  <2>1. ReckonsFavs(k)
    BY DEF Books
  <2>. QED BY <1>1, <1>3, <2>1 DEF ReckonsFavs
<1>6. Counted(k)'
  <2>1. Counted(k)
    BY DEF Books
  <2>2. \A s \in Shops : Reviews(k, s)' = Reviews(k, s) /\ Favourites(k, s)' = Favourites(k, s)
    BY ReviewsKept, FavouritesKept
  <2> SUFFICES ASSUME NEW s \in Shops, lock'[StatsRow(s)] = k
               PROVE  /\ ReviewsAgree(draft[StatsRow(s)], s, Reviews(k, s))'
                      /\ FavsAgree(draft[StatsRow(s)], s, Favourites(k, s))'
    BY DEF Counted
  <2>3. lock[StatsRow(s)] = k /\ draft'[StatsRow(s)] = draft[StatsRow(s)]
    BY <1>1
  <2>4. /\ ReviewsAgree(draft[StatsRow(s)], s, Reviews(k, s))
        /\ FavsAgree(draft[StatsRow(s)], s, Favourites(k, s))
    BY <2>1, <2>3 DEF Counted
  <2>. QED BY <1>1, <2>2, <2>3, <2>4 DEF ReviewsAgree, FavsAgree
<1>. QED BY <1>2, <1>4, <1>5, <1>6 DEF Books

\* The statement as a whole: what is left to show of one is that it fits, and
\* its own books.
LEMMA Statement ==
    ASSUME Drift, NEW j \in Jobs, NEW R, NEW new, Put(j, R, new), Fitting(R, new),
           NEW next, Becomes(j, next), JobTyped(next),
           uncounted \subseteq uncounted', uncounted' \subseteq Shops \X {"reviews", "favs"},
           Books(j)'
    PROVE  Drift'
<1>1. Types /\ Decisions /\ Gone /\ Committed /\ \A k \in Jobs : Books(k)
  BY DEF Drift
<1>2. /\ DOMAIN job' = Jobs /\ job'[j] = next
      /\ \A k \in Jobs \ {j} : job'[k] = job[k]
  BY <1>1 DEF Types, Becomes
<1>3. \A k \in Jobs : JobTyped(job'[k])
  BY <1>1, <1>2 DEF Types
<1>4. Types' /\ Decisions' /\ Gone'
  BY <1>1, <1>2, <1>3, FittingPut DEF Types
<1>5. db' = db
  BY DEF Put
<1>6. Committed'
  BY <1>1, <1>5 DEF Committed, ReviewsAgree, FavsAgree
<1>7. \A k \in Jobs : Books(k)'
  BY <1>1, <1>2, OthersKeep
<1>. QED BY <1>4, <1>6, <1>7 DEF Drift

\* A step of x to y releases nothing it says it has not written yet.
HoldsLess(x, y) ==
    /\ y.pc \notin {"recount", "write", "commit"} => x.pc \notin {"recount", "write", "commit"}
    /\ y.pc \in {"idle", "done", "begin", "insert", "wipe", "posts"} =>
         x.pc \in {"idle", "done", "begin", "insert", "wipe", "posts"}
    /\ y.pc \in {"idle", "done", "begin", "insert", "wipe", "posts", "visits", "copy"} =>
         x.pc \in {"idle", "done", "begin", "insert", "wipe", "posts", "visits", "copy"}
    /\ y.pc \notin {"count", "tally"}
    /\ x.kind = "merge" => y.kind = "merge"

\* The debts for reviews of a statement that writes none, and for favourites.
LEMMA ReviewsStillReckoned ==
    ASSUME Types, NEW j \in Jobs, NEW R, NEW new, Put(j, R, new), Books(j),
           uncounted \subseteq uncounted', \A p \in Posts : PostRow(p) \notin R,
           job[j].kind = "merge" => job'[j].kind = "merge",
           \A s \in Shops : ShopRow(s) \in R /\ draft[ShopRow(s)] # Live => new[ShopRow(s)] # Live,
           \A s \in Shops : OwesReviews(job[j], s) => OwesReviews(job'[j], s) \/ Covered(j, s)'
    PROVE  ReckonsReviews(j)'
<1> USE RowsAreRows, AllRowsAreRows
<1>1. /\ db' = db
      /\ \A r \in Row : r \in R => lock[r] \in {Nobody, j} /\ lock'[r] = j /\ draft'[r] = new[r]
      /\ \A r \in Row : r \notin R => lock'[r] = lock[r] /\ draft'[r] = draft[r]
  BY PutFacts
<1>2. \A s \in Shops : Covered(j, s) => Covered(j, s)'
  BY <1>1 DEF Covered
<1>3. ReckonsReviews(j)
  BY DEF Books
<1>. QED BY <1>1, <1>2, <1>3 DEF ReckonsReviews

LEMMA FavsStillReckoned ==
    ASSUME Types, NEW j \in Jobs, NEW R, NEW new, Put(j, R, new), Books(j),
           uncounted \subseteq uncounted', \A u \in Users, s \in Shops : FavRow(u, s) \notin R,
           job[j].kind = "merge" => job'[j].kind = "merge",
           \A s \in Shops : ShopRow(s) \in R /\ draft[ShopRow(s)] # Live => new[ShopRow(s)] # Live,
           \A s \in Shops : OwesFavs(job[j], s) => OwesFavs(job'[j], s) \/ Covered(j, s)'
    PROVE  ReckonsFavs(j)'
<1> USE RowsAreRows, AllRowsAreRows
<1>1. /\ db' = db
      /\ \A r \in Row : r \in R => lock[r] \in {Nobody, j} /\ lock'[r] = j /\ draft'[r] = new[r]
      /\ \A r \in Row : r \notin R => lock'[r] = lock[r] /\ draft'[r] = draft[r]
  BY PutFacts
<1>2. \A s \in Shops : Covered(j, s) => Covered(j, s)'
  BY <1>1 DEF Covered
<1>3. ReckonsFavs(j)
  BY DEF Books
<1>. QED BY <1>1, <1>2, <1>3 DEF ReckonsFavs

\* Most statements write neither a review nor a favourite nor a number.
LEMMA QuietStatement ==
    ASSUME Drift, NEW j \in Jobs, NEW R, NEW new, Put(j, R, new), Fitting(R, new),
           \A p \in Posts : PostRow(p) \notin R,
           \A u \in Users, s \in Shops : FavRow(u, s) \notin R,
           \A s \in Shops : StatsRow(s) \notin R,
           NEW next, Becomes(j, next), JobTyped(next), HoldsLess(job[j], next),
           \A s \in Shops : OwesReviews(job[j], s) => OwesReviews(next, s) \/ Covered(j, s)',
           \A s \in Shops : OwesFavs(job[j], s) => OwesFavs(next, s) \/ Covered(j, s)',
           UNCHANGED uncounted
    PROVE  Drift'
<1> USE RowsAreRows, AllRowsAreRows
<1>1. Types /\ Books(j) /\ uncounted \subseteq Shops \X {"reviews", "favs"}
  BY DEF Drift, Types
<1>2. job'[j] = next
  BY <1>1 DEF Types, Becomes
<1>3. \A r \in Row : r \notin R => lock'[r] = lock[r] /\ draft'[r] = draft[r]
  BY <1>1, PutFacts
<1>4. db' = db
  BY DEF Put
<1>5. \A s \in Shops : ShopRow(s) \in R /\ draft[ShopRow(s)] # Live => new[ShopRow(s)] # Live
  BY DEF Fitting
<1>6. ReckonsReviews(j)'
  BY <1>1, <1>2, <1>5, ReviewsStillReckoned DEF HoldsLess
<1>7. ReckonsFavs(j)'
  BY <1>1, <1>2, <1>5, FavsStillReckoned DEF HoldsLess
<1>8. Hands(j)'
  BY <1>1, <1>2, <1>3, <1>4 DEF Books, Hands, HoldsLess
<1>9. Counted(j)'
  <2>1. Counted(j)
    BY <1>1 DEF Books
  <2>2. \A s \in Shops : Reviews(j, s)' = Reviews(j, s) /\ Favourites(j, s)' = Favourites(j, s)
    BY <1>1, ReviewsKept, FavouritesKept
  <2>. QED BY <1>3, <1>4, <2>1, <2>2 DEF Counted, ReviewsAgree, FavsAgree
<1>10. Books(j)'
  BY <1>6, <1>7, <1>8, <1>9 DEF Books
<1>. QED BY <1>1, <1>10, Statement

\* A request that only looks.
LEMMA LookingDrift ==
    ASSUME Drift, NEW j \in Jobs, UNCHANGED <<db, draft, lock, uncounted>>,
           NEW next, Becomes(j, next), JobTyped(next), HoldsLess(job[j], next),
           \A s \in Shops : OwesReviews(job[j], s) => OwesReviews(next, s),
           \A s \in Shops : OwesFavs(job[j], s) => OwesFavs(next, s)
    PROVE  Drift'
<1>1. Types /\ Decisions /\ Gone /\ Committed /\ \A k \in Jobs : Books(k)
  BY DEF Drift
<1>2. /\ DOMAIN job' = Jobs /\ job'[j] = next
      /\ \A k \in Jobs \ {j} : job'[k] = job[k]
  BY <1>1 DEF Types, Becomes
<1>3. \A k \in Jobs : JobTyped(job'[k])
  BY <1>1, <1>2 DEF Types
<1>4. Types'
  BY <1>1, <1>2, <1>3 DEF Types, TablesTyped
<1>5. Decisions' /\ Gone' /\ Committed'
  BY <1>1 DEF Decisions, Gone, Committed, ReviewsAgree, FavsAgree
<1>6. ASSUME NEW k \in Jobs PROVE Counted(k)'
  <2>1. \A s \in Shops : Reviews(k, s)' = Reviews(k, s) /\ Favourites(k, s)' = Favourites(k, s)
    BY DEF Reviews, Favourites, Sees
  <2>. QED BY <1>1, <2>1 DEF Books, Counted, ReviewsAgree, FavsAgree
<1>7. \A k \in Jobs \ {j} : Hands(k)' /\ ReckonsReviews(k)' /\ ReckonsFavs(k)'
  BY <1>1, <1>2 DEF Books, Hands, ReckonsReviews, ReckonsFavs, Covered
<1>8. Hands(j)'
  BY <1>1, <1>2 DEF Books, Hands, HoldsLess
<1>9. ReckonsReviews(j)' /\ ReckonsFavs(j)'
  BY <1>1, <1>2 DEF Books, ReckonsReviews, ReckonsFavs, Covered, HoldsLess
<1>. QED BY <1>1, <1>4, <1>5, <1>6, <1>7, <1>8, <1>9 DEF Drift, Books

(***************************************************************************)
(* The statements that touch no review, favourite or number                *)
(***************************************************************************)
LEMMA ArriveDrift == ASSUME Drift, NEW j \in Jobs, Arrive(j) PROVE Drift'
<1>1. PICK p \in Posts, s \in Shops, v \in Proofs \union {None}, verdict \in {"held", "published"} :
        Becomes(j, [Blank("begin") EXCEPT !.kind = "review", !.user = Author[p],
                             !.shop = s, !.post = p, !.proof = v, !.state = verdict])
  BY DEF Arrive
<1> DEFINE next == [Blank("begin") EXCEPT !.kind = "review", !.user = Author[p],
                             !.shop = s, !.post = p, !.proof = v, !.state = verdict]
<1>2. Author[p] \in Users
  BY RecordsAssumption
<1>3. JobTyped(next) /\ next.pc = "begin"
  BY <1>2 DEF JobTyped, JobShape, Blank, Kinds, Pcs, Moving
<1>4. Becomes(j, next) /\ UNCHANGED <<db, draft, lock, uncounted>> /\ job[j].pc = "idle"
      /\ job[j].kind = "none"
  BY <1>1 DEF Arrive, Drift, Types, JobTyped
<1> HIDE DEF next
<1>5. HoldsLess(job[j], next) /\ \A t : ~OwesReviews(job[j], t) /\ ~OwesFavs(job[j], t)
  BY <1>3, <1>4 DEF HoldsLess, OwesReviews, OwesFavs, Moving
<1>. QED BY <1>3, <1>4, <1>5, LookingDrift

LEMMA MergeDrift == ASSUME Drift, NEW j \in Jobs, Merge(j) PROVE Drift'
<1>1. PICK keep \in Shops, drop \in Shops :
        /\ keep # drop
        /\ Becomes(j, [Blank("posts") EXCEPT !.kind = "merge", !.shop = keep, !.other = drop])
  BY DEF Merge
<1> DEFINE next == [Blank("posts") EXCEPT !.kind = "merge", !.shop = keep, !.other = drop]
<1>2. JobTyped(next) /\ next.pc = "posts"
  BY <1>1 DEF JobTyped, JobShape, Blank, Kinds, Pcs, Moving
<1>3. Becomes(j, next) /\ UNCHANGED <<db, draft, lock, uncounted>> /\ job[j].pc = "idle"
      /\ job[j].kind = "none"
  BY <1>1 DEF Merge, Drift, Types, JobTyped
<1> HIDE DEF next
<1>4. HoldsLess(job[j], next) /\ \A t : ~OwesReviews(job[j], t) /\ ~OwesFavs(job[j], t)
  BY <1>2, <1>3 DEF HoldsLess, OwesReviews, OwesFavs, Moving
<1>. QED BY <1>2, <1>3, <1>4, LookingDrift

\* What is counted is a number, because there are finitely many rows to count.
LEMMA NumbersAreNumbers ==
    /\ \A S \in SUBSET Posts : IsFiniteSet(S) /\ Cardinality(S) \in Nat
    /\ \A S \in SUBSET Users : IsFiniteSet(S) /\ Cardinality(S) \in Nat
  BY FinitenessAssumption, FS_Subset, FS_CardinalityType

LEMMA CountsAreNumbers ==
    ASSUME NEW j \in Jobs, NEW s \in Shops
    PROVE  Reviews(j, s) \in Nat /\ Favourites(j, s) \in Nat
<1>1. {p \in Posts : Shown(Sees(j, PostRow(p)), s)} \in SUBSET Posts
      /\ {u \in Users : Sees(j, FavRow(u, s))} \in SUBSET Users
  OBVIOUS
<1>. QED BY <1>1, NumbersAreNumbers DEF Reviews, Favourites

LEMMA RecountDrift == ASSUME Drift, NEW j \in Jobs, Recount(j) PROVE Drift'
<1>1. PICK s \in job[j].todo :
        Becomes(j, [job[j] EXCEPT !.pc = "write", !.shop = s, !.todo = @ \ {s},
                       !.reviews = Reviews(j, s), !.favs = Favourites(j, s)])
  BY DEF Recount
<1> DEFINE me == job[j]
           next == [me EXCEPT !.pc = "write", !.shop = s, !.todo = me.todo \ {s},
                       !.reviews = Reviews(j, s), !.favs = Favourites(j, s)]
<1>2. JobTyped(me) /\ me.pc = "recount" /\ me.todo \subseteq Shops
  BY DEF Drift, Types, Recount, JobTyped
<1>3. Reviews(j, s) \in Nat /\ Favourites(j, s) \in Nat /\ s \in Shops
  BY <1>1, <1>2, CountsAreNumbers
<1>4. Becomes(j, next) /\ UNCHANGED <<db, draft, lock, uncounted>>
  BY <1>1 DEF Recount
<1> HIDE DEF me
<1>5. /\ JobShape(next) /\ next.pc = "write" /\ next.kind = me.kind /\ next.shop = s
      /\ next.todo = me.todo \ {s} /\ next.reviews \in Nat /\ next.favs \in Nat
  BY <1>2, <1>3 DEF JobTyped, JobShape
<1> HIDE DEF next
<1>6. JobTyped(next)
  BY <1>2, <1>3, <1>5 DEF JobTyped, Pcs, Moving
<1>7. HoldsLess(me, next)
  BY <1>2, <1>5 DEF HoldsLess
<1>8. \A t \in Shops : OwesReviews(me, t) => OwesReviews(next, t)
  BY <1>2, <1>5 DEF OwesReviews, Moving
<1>9. \A t \in Shops : OwesFavs(me, t) => OwesFavs(next, t)
  BY <1>2, <1>5 DEF OwesFavs, Moving
<1>. QED BY <1>4, <1>6, <1>7, <1>8, <1>9, LookingDrift DEF me

LEMMA BeginDrift == ASSUME Drift, NEW j \in Jobs, Begin(j) PROVE Drift'
<1> USE RowsAreRows, AllRowsAreRows, RowsApart, AllRowsApart
<1> DEFINE me == job[j]
           next == [me EXCEPT !.pc = "insert"]
           row == IF me.proof = None THEN ShopRow(me.shop) ELSE ProofRow(me.proof)
           value == IF me.proof = None THEN Live ELSE [shop |-> me.shop, state |-> "open"]
           new == [r \in {row} |-> value]
<1>1. JobTyped(me) /\ me.pc = "begin" /\ me.shop \in Shops /\ Types
  BY DEF Drift, Types, Begin, JobTyped
<1>2. /\ Put(j, {row}, new) /\ Becomes(j, next) /\ UNCHANGED uncounted
      /\ Sees(j, ShopRow(me.shop)) = Live
  BY DEF Begin, Put1
<1> HIDE DEF me
<1>3. JobTyped(next) /\ next.pc = "insert" /\ next.kind = me.kind
  BY <1>1 DEF JobTyped, JobShape, Pcs, Moving
<1>4. /\ \A p \in Posts : PostRow(p) # row
      /\ \A u \in Users, s \in Shops : FavRow(u, s) # row
      /\ \A s \in Shops : StatsRow(s) # row
      /\ \A u \in Users : UserRow(u) # row
  OBVIOUS
<1>5. Fitting({row}, new)
  <2>1. CASE me.proof = None
    <3>1. Sees(j, row) = draft[row]
      BY <1>1, <1>2, <2>1, PutFacts
    <3>. QED BY <1>2, <1>4, <2>1, <3>1 DEF Fitting
  <2>2. CASE me.proof # None
    <3>1. ProofTyped(value)
      BY <1>1, <2>2 DEF ProofTyped, ProofStates
    <3>. QED BY <1>4, <2>2, <3>1 DEF Fitting
  <2>. QED BY <2>1, <2>2
<1>6. HoldsLess(me, next) /\ \A s : ~OwesReviews(me, s) /\ ~OwesFavs(me, s)
  BY <1>1, <1>3 DEF HoldsLess, OwesReviews, OwesFavs, Moving
<1> HIDE DEF row, new, next
<1>. QED BY <1>2, <1>3, <1>4, <1>5, <1>6, QuietStatement DEF me

LEMMA VerifyVisitDrift == ASSUME Drift, NEW j \in Jobs, VerifyVisit(j) PROVE Drift'
<1> USE RowsAreRows, AllRowsAreRows, RowsApart, AllRowsApart
<1>1. PICK v \in Proofs, s \in Shops :
        /\ Put1(j, ProofRow(v), [shop |-> s, state |-> "open"])
        /\ Becomes(j, [Blank("commit") EXCEPT !.kind = "verify",
                                             !.refs = {ShopRow(s), UserRow(Visitor[v])}])
  BY DEF VerifyVisit
<1> DEFINE next == [Blank("commit") EXCEPT !.kind = "verify",
                                           !.refs = {ShopRow(s), UserRow(Visitor[v])}]
           R == {ProofRow(v)}
           new == [r \in R |-> [shop |-> s, state |-> "open"]]
<1>2. JobTyped(next) /\ next.pc = "commit"
  BY DEF JobTyped, JobShape, Blank, Kinds, Pcs, Moving
<1>3. job[j].pc = "idle" /\ job[j].kind = "none" /\ UNCHANGED uncounted /\ Put(j, R, new) /\ Becomes(j, next)
  BY <1>1 DEF VerifyVisit, Put1, Drift, Types, JobTyped
<1>4. /\ \A p \in Posts : PostRow(p) \notin R
      /\ \A u \in Users, t \in Shops : FavRow(u, t) \notin R
      /\ \A t \in Shops : StatsRow(t) \notin R /\ ShopRow(t) \notin R
      /\ \A u \in Users : UserRow(u) \notin R
  OBVIOUS
<1>5. Fitting(R, new)
  <2>1. ProofTyped([shop |-> s, state |-> "open"])
    BY DEF ProofTyped, ProofStates
  <2>. QED BY <1>4, <2>1 DEF Fitting
<1> HIDE DEF next, R, new
<1>6. HoldsLess(job[j], next) /\ \A t : ~OwesReviews(job[j], t) /\ ~OwesFavs(job[j], t)
  BY <1>2, <1>3 DEF HoldsLess, OwesReviews, OwesFavs, Moving
<1>. QED BY <1>2, <1>3, <1>4, <1>5, <1>6, QuietStatement

LEMMA LockAccountDrift == ASSUME Drift, NEW j \in Jobs, LockAccount(j) PROVE Drift'
<1> USE RowsAreRows, AllRowsAreRows, RowsApart, AllRowsApart
<1>1. PICK u \in Users, todo \in SUBSET Shops :
        /\ Put1(j, UserRow(u), "active")
        /\ Becomes(j, [Blank("wipe") EXCEPT !.kind = "account", !.user = u, !.todo = todo])
  BY DEF LockAccount
<1> DEFINE next == [Blank("wipe") EXCEPT !.kind = "account", !.user = u, !.todo = todo]
           R == {UserRow(u)}
           new == [r \in R |-> "active"]
<1>2. JobTyped(next) /\ next.pc = "wipe"
  BY DEF JobTyped, JobShape, Blank, Kinds, Pcs, Moving
<1>3. job[j].pc = "idle" /\ job[j].kind = "none" /\ UNCHANGED uncounted /\ Put(j, R, new) /\ Becomes(j, next)
  BY <1>1 DEF LockAccount, Put1, Drift, Types, JobTyped
<1>4. /\ \A p \in Posts : PostRow(p) \notin R
      /\ \A w \in Users, t \in Shops : FavRow(w, t) \notin R
      /\ \A t \in Shops : StatsRow(t) \notin R /\ ShopRow(t) \notin R
      /\ \A v \in Proofs : ProofRow(v) \notin R
  OBVIOUS
<1>5. Fitting(R, new)
  BY <1>4 DEF Fitting
<1> HIDE DEF next, R, new
<1>6. HoldsLess(job[j], next) /\ \A t : ~OwesReviews(job[j], t) /\ ~OwesFavs(job[j], t)
  BY <1>2, <1>3 DEF HoldsLess, OwesReviews, OwesFavs, Moving
<1>. QED BY <1>2, <1>3, <1>4, <1>5, <1>6, QuietStatement

LEMMA UpdateKeptDrift == ASSUME Drift, NEW j \in Jobs, UpdateKept(j) PROVE Drift'
<1> USE RowsAreRows, AllRowsAreRows, RowsApart, AllRowsApart
<1> DEFINE me == job[j]
           next == [me EXCEPT !.pc = "drop"]
           row == ShopRow(me.shop)
           R == {row}
           new == [r \in R |-> Sees(j, row)]
<1>1. JobTyped(me) /\ me.pc = "keep" /\ me.shop \in Shops /\ Types
  BY DEF Drift, Types, UpdateKept, JobTyped, Moving
<1>2. Put(j, R, new) /\ Becomes(j, next) /\ UNCHANGED uncounted
  BY DEF UpdateKept, Put1
<1> HIDE DEF me
<1>3. /\ JobTyped(next) /\ next.pc = "drop" /\ next.shop = me.shop /\ next.other = me.other
      /\ next.kind = me.kind
  BY <1>1 DEF JobTyped, JobShape, Pcs, Moving
<1>4. /\ \A p \in Posts : PostRow(p) \notin R
      /\ \A w \in Users, t \in Shops : FavRow(w, t) \notin R
      /\ \A t \in Shops : StatsRow(t) \notin R
      /\ \A v \in Proofs : ProofRow(v) \notin R
      /\ \A w \in Users : UserRow(w) \notin R
  OBVIOUS
<1>5. Fitting(R, new)
  <2>1. Sees(j, row) = draft[row]
    BY <1>1, <1>2, PutFacts
  <2>2. draft[row] \in Shops \union {Live}
    BY <1>1 DEF Types, TablesTyped
  <2>. QED BY <1>4, <2>1, <2>2 DEF Fitting
<1> HIDE DEF next, R, new
<1>6. HoldsLess(me, next)
  BY <1>1, <1>3 DEF HoldsLess
<1>7. \A t : (OwesReviews(me, t) => OwesReviews(next, t)) /\ (OwesFavs(me, t) => OwesFavs(next, t))
  BY <1>1, <1>3 DEF OwesReviews, OwesFavs, Moving
<1>. QED BY <1>2, <1>3, <1>4, <1>5, <1>6, <1>7, QuietStatement DEF me

\* The shop that goes need not be counted; the one that stays is, next.
LEMMA RetireDrift == ASSUME Drift, NEW j \in Jobs, Retire(j) PROVE Drift'
<1> USE RowsAreRows, AllRowsAreRows, RowsApart, AllRowsApart
<1> DEFINE me == job[j]
           next == [me EXCEPT !.pc = "recount", !.todo = {me.shop}]
           row == ShopRow(me.other)
           R == {row}
           new == [r \in R |-> me.shop]
<1>1. JobTyped(me) /\ me.pc = "drop" /\ me.shop \in Shops /\ me.other \in Shops /\ Types
      /\ me.kind = "merge"
  BY DEF Drift, Types, Retire, JobTyped, Moving
<1>2. Put(j, R, new) /\ Becomes(j, next) /\ UNCHANGED uncounted
  BY DEF Retire, Put1
<1> HIDE DEF me
<1>3. /\ JobShape(next) /\ next.pc = "recount" /\ next.todo = {me.shop} /\ next.kind = "merge"
  BY <1>1 DEF JobTyped, JobShape
<1>4. /\ \A p \in Posts : PostRow(p) \notin R
      /\ \A w \in Users, t \in Shops : FavRow(w, t) \notin R
      /\ \A t \in Shops : StatsRow(t) \notin R
      /\ \A v \in Proofs : ProofRow(v) \notin R
      /\ \A w \in Users : UserRow(w) \notin R
  OBVIOUS
<1>5. Fitting(R, new)
  BY <1>1, <1>4, MoreNames DEF Fitting
<1>6. ASSUME NEW t \in Shops, t = me.other PROVE Covered(j, t)'
  <2>1. lock'[ShopRow(t)] = j /\ draft'[ShopRow(t)] = me.shop
    BY <1>1, <1>2, <1>6, PutFacts
  <2>2. job'[j].kind = "merge"
    BY <1>1, <1>2, <1>3 DEF Types, Becomes
  <2>. QED BY <1>1, <2>1, <2>2, MoreNames DEF Covered
<1> HIDE DEF next, R, new
<1>7. JobTyped(next)
  BY <1>1, <1>3 DEF JobTyped, Pcs, Moving, Kinds
<1>8. HoldsLess(me, next)
  BY <1>1, <1>3 DEF HoldsLess
<1>9. \A t \in Shops : t # me.other => /\ OwesReviews(me, t) => OwesReviews(next, t)
                                       /\ OwesFavs(me, t) => OwesFavs(next, t)
  BY <1>1, <1>3 DEF OwesReviews, OwesFavs, Moving
<1>. QED BY <1>2, <1>4, <1>5, <1>6, <1>7, <1>8, <1>9, QuietStatement DEF me

\* A row that is moved keeps its type.
LEMMA MovedRows ==
    ASSUME NEW s \in Shops
    PROVE  /\ \A x : ProofTyped(x) => ProofTyped([x EXCEPT !.shop = s])
           /\ \A x : PostTyped(x) => /\ PostTyped([x EXCEPT !.shop = s])
                                     /\ [x EXCEPT !.shop = s].state = x.state
                                     /\ [x EXCEPT !.shop = s].shop = s
  BY DEF ProofTyped, PostTyped, Undeleted

LEMMA MoveVisitsDrift == ASSUME Drift, NEW j \in Jobs, MoveVisits(j) PROVE Drift'
<1> USE RowsAreRows, AllRowsAreRows, RowsApart, AllRowsApart
<1> DEFINE me == job[j]
           R == {r \in {ProofRow(v) : v \in Proofs} : Sees(j, r).shop = me.other}
           refs == IF R = {} THEN {} ELSE {ShopRow(me.shop)}
           next == [me EXCEPT !.pc = "copy", !.refs = @ \union refs]
           new == [r \in R |-> [Sees(j, r) EXCEPT !.shop = me.shop]]
<1>1. JobTyped(me) /\ me.pc = "visits" /\ me.shop \in Shops /\ Types
  BY DEF Drift, Types, MoveVisits, JobTyped, Moving
<1>2. Put(j, R, new) /\ Becomes(j, next) /\ UNCHANGED uncounted
  BY DEF MoveVisits, Move
<1> HIDE DEF me, refs
<1>3. /\ JobTyped(next) /\ next.pc = "copy" /\ next.shop = me.shop /\ next.other = me.other
      /\ next.kind = me.kind
  BY <1>1 DEF JobTyped, JobShape, Pcs, Moving
<1>4. /\ \A p \in Posts : PostRow(p) \notin R
      /\ \A w \in Users, t \in Shops : FavRow(w, t) \notin R
      /\ \A t \in Shops : StatsRow(t) \notin R /\ ShopRow(t) \notin R
      /\ \A w \in Users : UserRow(w) \notin R
  OBVIOUS
<1>5. \A r \in R : new[r] = [Sees(j, r) EXCEPT !.shop = me.shop]
  OBVIOUS
<1> HIDE DEF next, R, new
<1>6. ASSUME NEW v \in Proofs, ProofRow(v) \in R PROVE ProofTyped(new[ProofRow(v)])
  <2>1. Sees(j, ProofRow(v)) = draft[ProofRow(v)] /\ ProofTyped(draft[ProofRow(v)])
    BY <1>1, <1>2, <1>6, PutFacts DEF Types, TablesTyped
  <2>2. new[ProofRow(v)] = [draft[ProofRow(v)] EXCEPT !.shop = me.shop]
    BY <1>5, <1>6, <2>1
  <2>. QED BY <1>1, <2>1, <2>2, MovedRows
<1>7. Fitting(R, new)
  BY <1>4, <1>6 DEF Fitting
<1>8. HoldsLess(me, next)
  BY <1>1, <1>3 DEF HoldsLess
<1>9. \A t : (OwesReviews(me, t) => OwesReviews(next, t)) /\ (OwesFavs(me, t) => OwesFavs(next, t))
  BY <1>1, <1>3 DEF OwesReviews, OwesFavs, Moving
<1>. QED BY <1>2, <1>3, <1>4, <1>7, <1>8, <1>9, QuietStatement DEF me

(***************************************************************************)
(* The statements that write numbers                                       *)
(***************************************************************************)
\* The numbers a statement writes agree with what its transaction sees: then
\* the shop is counted.
LEMMA StatsStatement ==
    ASSUME Drift, NEW j \in Jobs, NEW s \in Shops, NEW value,
           Put1(j, StatsRow(s), value), StatsTyped(value),
           ReviewsAgree(value, s, Reviews(j, s)), FavsAgree(value, s, Favourites(j, s)),
           NEW next, Becomes(j, next), JobTyped(next), next.kind = job[j].kind,
           next.pc \in {"recount", "commit"},
           \A t \in Shops : t # s /\ OwesReviews(job[j], t) => OwesReviews(next, t),
           \A t \in Shops : t # s /\ OwesFavs(job[j], t) => OwesFavs(next, t),
           UNCHANGED uncounted
    PROVE  Drift'
<1> USE RowsAreRows, AllRowsAreRows, RowsApart, AllRowsApart
<1> DEFINE R == {StatsRow(s)}
           new == [r \in R |-> value]
<1>1. Types /\ Books(j) /\ uncounted \subseteq Shops \X {"reviews", "favs"}
  BY DEF Drift, Types
<1>2. job'[j] = next
  BY <1>1 DEF Types, Becomes
<1>3. Put(j, R, new)
  BY DEF Put1
<1>4. /\ \A p \in Posts : PostRow(p) \notin R
      /\ \A u \in Users, t \in Shops : FavRow(u, t) \notin R
      /\ \A t \in Shops : ShopRow(t) \notin R
      /\ \A v \in Proofs : ProofRow(v) \notin R
      /\ \A u \in Users : UserRow(u) \notin R
  OBVIOUS
<1>5. Fitting(R, new)
  BY <1>4 DEF Fitting
<1>6. /\ db' = db /\ lock'[StatsRow(s)] = j /\ draft'[StatsRow(s)] = value
      /\ \A r \in Row : r # StatsRow(s) => lock'[r] = lock[r] /\ draft'[r] = draft[r]
  BY <1>1, <1>3, PutFacts
<1> HIDE DEF R, new
<1>7. Covered(j, s)'
  BY <1>6 DEF Covered
<1>8. ReckonsReviews(j)'
  BY <1>1, <1>2, <1>3, <1>4, <1>7, ReviewsStillReckoned
<1>9. ReckonsFavs(j)'
  BY <1>1, <1>2, <1>3, <1>4, <1>7, FavsStillReckoned
<1>10. Hands(j)'
  BY <1>2 DEF Hands
<1>11. Counted(j)'
  <2>1. Counted(j)
    BY <1>1 DEF Books
  <2>2. \A t \in Shops : Reviews(j, t)' = Reviews(j, t) /\ Favourites(j, t)' = Favourites(j, t)
    BY <1>1, <1>3, <1>4, ReviewsKept, FavouritesKept
  <2>3. ASSUME NEW t \in Shops, t # s, lock'[StatsRow(t)] = j
        PROVE  /\ ReviewsAgree(draft[StatsRow(t)], t, Reviews(j, t))'
               /\ FavsAgree(draft[StatsRow(t)], t, Favourites(j, t))'
    <3>1. lock[StatsRow(t)] = j /\ draft'[StatsRow(t)] = draft[StatsRow(t)]
      BY <1>6, <2>3
    <3>. QED BY <1>6, <2>1, <2>2, <3>1 DEF Counted, ReviewsAgree, FavsAgree
  <2>4. ReviewsAgree(draft[StatsRow(s)], s, Reviews(j, s))'
    BY <1>6, <2>2 DEF ReviewsAgree
  <2>5. FavsAgree(draft[StatsRow(s)], s, Favourites(j, s))'
    BY <1>6, <2>2 DEF FavsAgree
  <2>. QED BY <2>3, <2>4, <2>5 DEF Counted
<1>12. Books(j)'
  BY <1>8, <1>9, <1>10, <1>11 DEF Books
<1>. QED BY <1>1, <1>3, <1>5, <1>12, Statement

\* What is committed is seen, but for the rows the transaction has written.
LEMMA SeesCommitted ==
    ASSUME NEW j \in Jobs, NEW s \in Shops
    PROVE  /\ (\A p \in Posts : lock[PostRow(p)] # j)
                => Reviews(j, s) = Cardinality({p \in Posts : Shown(db[PostRow(p)], s)})
           /\ (\A u \in Users : lock[FavRow(u, s)] = j => draft[FavRow(u, s)] = db[FavRow(u, s)])
                => Favourites(j, s) = Cardinality({u \in Users : db[FavRow(u, s)]})
<1>1. ASSUME \A p \in Posts : lock[PostRow(p)] # j
      PROVE  {p \in Posts : Shown(Sees(j, PostRow(p)), s)}
               = {p \in Posts : Shown(db[PostRow(p)], s)}
  BY <1>1 DEF Sees
<1>2. ASSUME \A u \in Users : lock[FavRow(u, s)] = j => draft[FavRow(u, s)] = db[FavRow(u, s)]
      PROVE  {u \in Users : Sees(j, FavRow(u, s))} = {u \in Users : db[FavRow(u, s)]}
  <2>1. \A u \in Users : Sees(j, FavRow(u, s)) = db[FavRow(u, s)]
    BY <1>2 DEF Sees
  <2>. QED BY <2>1
<1>. QED BY <1>1, <1>2 DEF Reviews, Favourites

\* One review more is seen than is committed, and one more is counted.
LEMMA CountOneDrift == ASSUME Drift, NEW j \in Jobs, CountOne(j) PROVE Drift'
<1> USE RowsAreRows, AllRowsAreRows
<1>1. PICK me : me = job[j]
  OBVIOUS
<1>2. PICK s : s = me.shop
  OBVIOUS
<1>3. /\ Types /\ Books(j) /\ Committed /\ JobTyped(me)
      /\ me.pc = "count" /\ s \in Shops /\ me.post \in Posts
  BY <1>1, <1>2 DEF Drift, Types, CountOne, JobTyped
<1> DEFINE old == db[StatsRow(s)]
           value == [old EXCEPT !.reviews = old.reviews + 1]
           next == [me EXCEPT !.pc = "commit"]
<1>4. /\ Put1(j, StatsRow(s), [Sees(j, StatsRow(s)) EXCEPT !.reviews = @ + 1])
      /\ Becomes(j, next) /\ UNCHANGED uncounted
  BY <1>1, <1>2 DEF CountOne
<1>5. lock[StatsRow(s)] # j
  BY <1>1, <1>3 DEF Books, Hands
<1>6. Sees(j, StatsRow(s)) = old
  BY <1>5 DEF Sees
<1>7. Put1(j, StatsRow(s), value)
  BY <1>4, <1>6
<1>8. StatsTyped(old)
  BY <1>3 DEF Types, TablesTyped
<1> HIDE DEF old
<1>9. StatsTyped(value) /\ value.reviews = old.reviews + 1 /\ value.favs = old.favs
      /\ value.missed = old.missed
  BY <1>8 DEF StatsTyped
<1>10. /\ JobTyped(next) /\ next.pc = "commit" /\ next.kind = me.kind
  BY <1>3 DEF JobTyped, JobShape, Pcs, Moving
<1>11. /\ \A t \in Shops : t # s => ~OwesReviews(me, t)
       /\ \A t \in Shops : ~OwesFavs(me, t)
  BY <1>2, <1>3 DEF OwesReviews, OwesFavs, Moving
<1> DEFINE shown == {p \in Posts : Shown(db[PostRow(p)], s)}
<1>12. {p \in Posts : Shown(Sees(j, PostRow(p)), s)} = shown \cup {me.post}
       /\ me.post \notin shown
  <2>1. /\ \A p \in Posts : lock[PostRow(p)] = j <=> p = me.post
        /\ Shown(draft[PostRow(me.post)], s)
        /\ db[PostRow(me.post)].state = "absent"
    BY <1>1, <1>2, <1>3 DEF Books, Hands
  <2>2. ~Shown(db[PostRow(me.post)], s)
    BY <2>1 DEF Shown
  <2>3. \A p \in Posts : Shown(Sees(j, PostRow(p)), s) <=> p = me.post \/ Shown(db[PostRow(p)], s)
    BY <2>1, <1>3 DEF Sees
  <2>. QED BY <1>3, <2>2, <2>3
<1>13. Reviews(j, s) = Cardinality(shown) + 1 /\ Cardinality(shown) \in Nat
  <2>1. IsFiniteSet(shown) /\ Cardinality(shown) \in Nat
    BY NumbersAreNumbers
  <2> HIDE DEF shown
  <2>2. Cardinality(shown \cup {me.post}) = Cardinality(shown) + 1
    BY <1>12, <2>1, FS_AddElement
  <2>. QED BY <1>12, <2>1, <2>2 DEF Reviews
<1>14. ReviewsAgree(value, s, Reviews(j, s))
  <2>1. ReviewsAgree(old, s, Cardinality(shown))
    BY <1>3 DEF Committed, old
  <2>. QED BY <1>8, <1>9, <1>13, <2>1 DEF ReviewsAgree
<1>15. FavsAgree(value, s, Favourites(j, s))
  <2>1. FavsAgree(old, s, Cardinality({u \in Users : db[FavRow(u, s)]}))
    BY <1>3 DEF Committed, old
  <2>2. \A u \in Users : lock[FavRow(u, s)] # j
    BY <1>1, <1>3 DEF Books, Hands
  <2>3. Favourites(j, s) = Cardinality({u \in Users : db[FavRow(u, s)]})
    BY <1>3, <2>2, SeesCommitted
  <2>. QED BY <1>9, <2>1, <2>3 DEF FavsAgree
<1> HIDE DEF value, next
<1>. QED BY <1>1, <1>3, <1>4, <1>7, <1>9, <1>10, <1>11, <1>14, <1>15, StatsStatement

\* One favourite more, or one fewer.
LEMMA TallyDrift == ASSUME Drift, NEW j \in Jobs, Tally(j) PROVE Drift'
<1> USE RowsAreRows, AllRowsAreRows
<1>1. PICK me : me = job[j]
  OBVIOUS
<1>2. PICK s : s = me.shop
  OBVIOUS
<1>3. /\ Types /\ Books(j) /\ Committed /\ JobTyped(me)
      /\ me.pc = "tally" /\ s \in Shops /\ me.favs \in {1, -1} /\ me.kind = "favourite"
  BY <1>1, <1>2 DEF Drift, Types, Tally, JobTyped
<1> DEFINE old == db[StatsRow(s)]
           sum == old.favs + me.favs
           value == [old EXCEPT !.favs = IF sum < 0 THEN 0 ELSE sum]
           next == [me EXCEPT !.pc = "commit"]
<1>4. lock[StatsRow(s)] # j
  BY <1>1, <1>3 DEF Books, Hands
<1>5. Sees(j, StatsRow(s)) = old
  BY <1>4 DEF Sees
<1>6. Put1(j, StatsRow(s), value) /\ Becomes(j, next) /\ UNCHANGED uncounted
  BY <1>1, <1>2, <1>5 DEF Tally
<1>7. StatsTyped(old)
  BY <1>3 DEF Types, TablesTyped
<1> HIDE DEF old
<1>8. /\ StatsTyped(value) /\ value.reviews = old.reviews /\ value.missed = old.missed
      /\ value.favs = IF sum < 0 THEN 0 ELSE sum
  BY <1>3, <1>7 DEF StatsTyped
<1>9. /\ JobTyped(next) /\ next.pc = "commit" /\ next.kind = me.kind
  BY <1>3 DEF JobTyped, JobShape, Pcs, Moving
<1>10. /\ \A t \in Shops : ~OwesReviews(me, t)
       /\ \A t \in Shops : t # s => ~OwesFavs(me, t)
  BY <1>2, <1>3 DEF OwesReviews, OwesFavs, Moving
<1>11. ReviewsAgree(value, s, Reviews(j, s))
  <2>1. ReviewsAgree(old, s, Cardinality({p \in Posts : Shown(db[PostRow(p)], s)}))
    BY <1>3 DEF Committed, old
  <2>2. \A p \in Posts : lock[PostRow(p)] # j
    BY <1>1, <1>3 DEF Books, Hands
  <2>3. Reviews(j, s) = Cardinality({p \in Posts : Shown(db[PostRow(p)], s)})
    BY <1>3, <2>2, SeesCommitted
  <2>. QED BY <1>8, <2>1, <2>3 DEF ReviewsAgree
<1> DEFINE likes == {u \in Users : db[FavRow(u, s)]}
<1>12. PICK w \in Users :
         /\ \A u \in Users : lock[FavRow(u, s)] = j <=> u = w
         /\ draft[FavRow(w, s)] <=> me.favs = 1
         /\ db[FavRow(w, s)] <=> me.favs = -1
  BY <1>1, <1>2, <1>3 DEF Books, Hands
<1> DEFINE seen == {u \in Users : Sees(j, FavRow(u, s))}
<1>13. /\ me.favs = 1 => seen = likes \cup {w} /\ w \notin likes
       /\ me.favs = -1 => seen = likes \ {w} /\ w \in likes
  <2>1. \A u \in Users : u # w => (u \in seen <=> u \in likes)
    BY <1>12 DEF Sees
  <2>2. w \in seen <=> me.favs = 1
    BY <1>12 DEF Sees
  <2>3. w \in likes <=> me.favs = -1
    BY <1>12
  <2>4. seen \subseteq Users /\ likes \subseteq Users
    OBVIOUS
  <2> HIDE DEF seen, likes
  <2>5. me.favs = 1 => me.favs # -1
    OBVIOUS
  <2>. QED BY <2>1, <2>2, <2>3, <2>4, <2>5
<1>14. Favourites(j, s) = Cardinality(likes) + me.favs /\ Cardinality(likes) \in Nat
       /\ Favourites(j, s) \in Nat
  <2>1. IsFiniteSet(likes) /\ Cardinality(likes) \in Nat
    BY NumbersAreNumbers
  <2>2. Favourites(j, s) = Cardinality(seen) /\ Favourites(j, s) \in Nat
    BY <1>3, CountsAreNumbers DEF Favourites
  <2> HIDE DEF likes, seen
  <2>3. CASE me.favs = 1
    <3>1. Cardinality(likes \cup {w}) = Cardinality(likes) + 1
      BY <1>13, <2>1, <2>3, FS_AddElement
    <3>. QED BY <1>13, <2>1, <2>2, <2>3, <3>1
  <2>4. CASE me.favs = -1
    <3>1. Cardinality(likes \ {w}) = Cardinality(likes) - 1
      BY <1>13, <2>1, <2>4, FS_RemoveElement
    <3>. QED BY <1>13, <2>1, <2>2, <2>4, <3>1
  <2>. QED BY <1>3, <2>3, <2>4
<1>15. FavsAgree(value, s, Favourites(j, s))
  <2>1. FavsAgree(old, s, Cardinality(likes))
    BY <1>3 DEF Committed, old
  <2> HIDE DEF likes
  <2>2. old.favs \in Nat
    BY <1>7 DEF StatsTyped
  <2>3. CASE old.favs = Cardinality(likes)
    BY <1>3, <1>8, <1>14, <2>2, <2>3 DEF FavsAgree
  <2>4. CASE old.favs # Cardinality(likes)
    BY <1>8, <2>1, <2>4 DEF FavsAgree
  <2>. QED BY <2>3, <2>4
<1> HIDE DEF value, next
<1>. QED BY <1>1, <1>3, <1>6, <1>8, <1>9, <1>10, <1>11, <1>15, StatsStatement

\* A recount writes what it read; where that has moved since, it says so.  The
\* number it leaves alone agrees because nothing of it is the transaction's own.
LEMMA WriteDrift == ASSUME Drift, NEW j \in Jobs, Write(j) PROVE Drift'
<1> USE RowsAreRows, AllRowsAreRows
<1>1. PICK me : me = job[j]
  OBVIOUS
<1>2. PICK s : s = me.shop
  OBVIOUS
<1>3. /\ Types /\ Books(j) /\ Committed /\ JobTyped(me)
      /\ me.pc = "write" /\ s \in Shops /\ me.reviews \in Nat /\ me.favs \in Nat
      /\ me.todo \subseteq Shops
  BY <1>1, <1>2 DEF Drift, Types, Write, JobTyped
<1>4. PICK merge \in BOOLEAN : merge <=> me.kind = "merge"
  OBVIOUS
<1>5. PICK old : old = Sees(j, StatsRow(s))
  OBVIOUS
<1> DEFINE late == (IF Reviews(j, s) # me.reviews THEN {"reviews"} ELSE {})
                     \union (IF merge /\ Favourites(j, s) # me.favs THEN {"favs"} ELSE {})
           kept == IF merge THEN {} ELSE old.missed \ {"reviews"}
           value == [reviews |-> me.reviews, favs |-> IF merge THEN me.favs ELSE old.favs,
                     missed |-> kept \union late]
           next == [me EXCEPT !.pc = IF me.todo = {} THEN "commit" ELSE "recount",
                              !.reviews = 0, !.favs = 0]
<1>6. Put1(j, StatsRow(s), value) /\ Becomes(j, next) /\ UNCHANGED uncounted
  BY <1>1, <1>2, <1>4, <1>5 DEF Write
<1>7. StatsTyped(old)
  BY <1>3, <1>5 DEF Types, TablesTyped, Sees
<1>8. StatsTyped(value)
  BY <1>3, <1>7 DEF StatsTyped
<1>9. /\ JobShape(next) /\ next.pc = (IF me.todo = {} THEN "commit" ELSE "recount")
      /\ next.kind = me.kind /\ next.todo = me.todo
  BY <1>3 DEF JobTyped, JobShape
<1>10. ReviewsAgree(value, s, Reviews(j, s))
  BY DEF ReviewsAgree
<1>11. FavsAgree(value, s, Favourites(j, s))
  <2>1. CASE merge
    BY <2>1 DEF FavsAgree
  <2>2. CASE ~merge
    <3>1. FavsAgree(old, s, Favourites(j, s))
      <4>1. CASE lock[StatsRow(s)] = j
        BY <1>3, <1>5, <4>1 DEF Books, Counted, Sees
      <4>2. CASE lock[StatsRow(s)] # j
        <5>1. FavsAgree(old, s, Cardinality({u \in Users : db[FavRow(u, s)]}))
          BY <1>3, <1>5, <4>2 DEF Committed, Sees
        <5>2. CASE <<s, "favs">> \in uncounted \/ db[ShopRow(s)] # Live
          BY <5>2 DEF FavsAgree
        <5>3. CASE ~(<<s, "favs">> \in uncounted \/ db[ShopRow(s)] # Live)
          <6>1. ~OwesFavs(me, s) /\ ~Covered(j, s)
            BY <1>1, <1>3, <1>4, <2>2, <4>2, <5>3 DEF OwesFavs, Covered, Moving
          <6>2. \A u \in Users : lock[FavRow(u, s)] = j => draft[FavRow(u, s)] = db[FavRow(u, s)]
            BY <1>1, <1>3, <5>3, <6>1 DEF Books, ReckonsFavs
          <6>3. Favourites(j, s) = Cardinality({u \in Users : db[FavRow(u, s)]})
            BY <1>3, <6>2, SeesCommitted
          <6>. QED BY <5>1, <6>3
        <5>. QED BY <5>2, <5>3
      <4>. QED BY <4>1, <4>2
    <3>2. value.favs = old.favs /\ ("favs" \in old.missed => "favs" \in value.missed)
      BY <2>2
    <3>. QED BY <3>1, <3>2 DEF FavsAgree
  <2>. QED BY <2>1, <2>2
<1> HIDE DEF value, next
<1>12. JobTyped(next) /\ next.pc \in {"recount", "commit"}
  BY <1>3, <1>9 DEF JobTyped, Pcs, Moving
<1>13. /\ \A t \in Shops : t # s /\ OwesReviews(me, t) => OwesReviews(next, t)
       /\ \A t \in Shops : t # s /\ OwesFavs(me, t) => OwesFavs(next, t)
  BY <1>2, <1>3, <1>9 DEF OwesReviews, OwesFavs, Moving
<1>. QED BY <1>1, <1>3, <1>6, <1>8, <1>9, <1>10, <1>11, <1>12, <1>13, StatsStatement

(***************************************************************************)
(* The statements that write reviews                                       *)
(***************************************************************************)
LEMMA NothingUncounted == ASSUME Drift, UNCHANGED uncounted
                          PROVE  /\ uncounted \subseteq uncounted'
                                 /\ uncounted' \subseteq Shops \X {"reviews", "favs"}
  BY DEF Drift, Types

\* What is covered stays covered while neither numbers nor shops are written.
LEMMA CoveredKept ==
    ASSUME Types, NEW j \in Jobs, NEW R, NEW new, Put(j, R, new), NEW s \in Shops,
           StatsRow(s) \notin R, ShopRow(s) \notin R,
           job[j].kind = "merge" => job'[j].kind = "merge", Covered(j, s)
    PROVE  Covered(j, s)'
  BY PutFacts, AllRowsAreRows DEF Covered

\* A statement that writes reviews before any number: every shop it changes
\* is owed then.
LEMMA ReviewStatement ==
    ASSUME Drift, NEW j \in Jobs, NEW R, NEW new, Put(j, R, new), Fitting(R, new),
           \A s \in Shops : StatsRow(s) \notin R /\ ShopRow(s) \notin R,
           \A u \in Users, s \in Shops : FavRow(u, s) \notin R,
           job[j].pc \notin {"recount", "write", "commit"},
           NEW next, Becomes(j, next), JobTyped(next),
           job[j].kind = "merge" => next.kind = "merge",
           \A p \in Posts, s \in Shops :
               PostRow(p) \in R /\ ~(Shown(draft[PostRow(p)], s) <=> Shown(new[PostRow(p)], s))
               => OwesReviews(next, s),
           \A s \in Shops : OwesReviews(job[j], s) => OwesReviews(next, s),
           \A s \in Shops : OwesFavs(job[j], s) => OwesFavs(next, s),
           UNCHANGED uncounted, Hands(j)'
    PROVE  Drift'
<1> USE RowsAreRows, AllRowsAreRows
<1>1. Types /\ Books(j)
  BY DEF Drift
<1>2. job'[j] = next
  BY <1>1 DEF Types, Becomes
<1>3. /\ db' = db
      /\ \A r \in Row : r \in R => lock[r] \in {Nobody, j} /\ lock'[r] = j /\ draft'[r] = new[r]
      /\ \A r \in Row : r \notin R => lock'[r] = lock[r] /\ draft'[r] = draft[r]
  BY <1>1, PutFacts
<1>4. ReckonsFavs(j)'
  BY <1>1, <1>2, NothingUncounted, FavsStillReckoned
<1>5. ReckonsReviews(j)'
  <2> SUFFICES ASSUME NEW p \in Posts, NEW s \in Shops, lock'[PostRow(p)] = j,
                      ~(Shown(draft'[PostRow(p)], s) <=> Shown(db[PostRow(p)], s))
               PROVE  OwesReviews(next, s) \/ Covered(j, s)' \/ <<s, "reviews">> \in uncounted
    BY <1>2, <1>3 DEF ReckonsReviews
  <2>1. CASE PostRow(p) \in R /\ ~(Shown(draft[PostRow(p)], s) <=> Shown(new[PostRow(p)], s))
    BY <2>1
  <2>2. CASE ~(PostRow(p) \in R /\ ~(Shown(draft[PostRow(p)], s) <=> Shown(new[PostRow(p)], s)))
    <3>1. ~(Shown(draft[PostRow(p)], s) <=> Shown(db[PostRow(p)], s))
      BY <1>3, <2>2
    <3>2. lock[PostRow(p)] = j
      BY <1>1, <1>3, <3>1 DEF Types
    <3>3. OwesReviews(job[j], s) \/ Covered(j, s) \/ <<s, "reviews">> \in uncounted
      BY <1>1, <3>1, <3>2 DEF Books, ReckonsReviews
    <3>. QED BY <1>1, <1>2, <3>3, CoveredKept
  <2>. QED BY <2>1, <2>2
<1>6. Counted(j)'
  <2>1. \A s \in Shops : lock[StatsRow(s)] # j
    BY <1>1 DEF Books, Hands
  <2>. QED BY <1>3, <2>1 DEF Counted
<1>7. Books(j)'
  BY <1>4, <1>5, <1>6 DEF Books
<1>. QED BY <1>7, NothingUncounted, Statement

\* A review that ends, or is decided, by its shop.
LEMMA OneReviewStatement ==
    ASSUME Drift, NEW j \in Jobs, job[j].pc = "idle", NEW p \in Posts,
           NEW state \in {"published", "removed", "deleted"},
           NEW kind \in {"delete", "decide"},
           LET post == Sees(j, PostRow(p)) IN
             /\ Undeleted(post)
             /\ Becoming(post.state, state)
             /\ Put1(j, PostRow(p), [post EXCEPT !.state = state])
             /\ Becomes(j, [Blank("recount") EXCEPT !.kind = kind, !.todo = {post.shop}]),
           UNCHANGED uncounted
    PROVE  Drift'
<1> USE RowsAreRows, AllRowsAreRows, RowsApart, AllRowsApart
<1>1. Types /\ Books(j) /\ job[j].kind = "none"
  BY DEF Drift, Types, JobTyped
<1>2. PICK post : post = draft[PostRow(p)]
  OBVIOUS
<1> DEFINE R == {PostRow(p)}
           row == [post EXCEPT !.state = state]
           new == [r \in R |-> row]
           next == [Blank("recount") EXCEPT !.kind = kind, !.todo = {post.shop}]
<1>3. Sees(j, PostRow(p)) = post
  BY <1>1, <1>2, PutFacts DEF Put1
<1>4. /\ Undeleted(post) /\ Becoming(post.state, state) /\ Put(j, R, new) /\ Becomes(j, next)
  BY <1>3 DEF Put1
<1>5. PostTyped(post) /\ post.shop \in Shops
  BY <1>1, <1>2, <1>4 DEF Types, TablesTyped, PostTyped
<1>6. PostTyped(row) /\ row.state = state /\ row.shop = post.shop
  BY <1>5 DEF PostTyped, PostStates
<1>7. JobTyped(next) /\ next.pc = "recount" /\ next.todo = {post.shop} /\ next.kind = kind
  BY <1>5 DEF JobTyped, JobShape, Blank, Kinds, Pcs, Moving
<1>8. new[PostRow(p)] = row
  OBVIOUS
<1>9. /\ \A q \in Posts : PostRow(q) \in R => q = p
      /\ \A w \in Users, t \in Shops : FavRow(w, t) \notin R
      /\ \A t \in Shops : StatsRow(t) \notin R /\ ShopRow(t) \notin R
      /\ \A v \in Proofs : ProofRow(v) \notin R
      /\ \A w \in Users : UserRow(w) \notin R
  OBVIOUS
<1> HIDE DEF R, row, new, next
<1>10. Fitting(R, new)
  BY <1>2, <1>4, <1>6, <1>8, <1>9 DEF Fitting
<1>11. ASSUME NEW q \in Posts, NEW s \in Shops, PostRow(q) \in R,
              ~(Shown(draft[PostRow(q)], s) <=> Shown(new[PostRow(q)], s))
       PROVE  OwesReviews(next, s)
  <2>1. s = post.shop
    BY <1>2, <1>6, <1>8, <1>9, <1>11 DEF Shown
  <2>. QED BY <1>7, <2>1 DEF OwesReviews
<1>12. \A s : ~OwesReviews(job[j], s) /\ ~OwesFavs(job[j], s)
  BY DEF OwesReviews, OwesFavs, Moving
<1>13. Hands(j)'
  <2>1. job'[j] = next
    BY <1>1, <1>4 DEF Types, Becomes
  <2>. QED BY <1>7, <2>1 DEF Hands
<1>. QED BY <1>1, <1>4, <1>7, <1>9, <1>10, <1>11, <1>12, <1>13, ReviewStatement

LEMMA DeleteDrift == ASSUME Drift, NEW j \in Jobs, Delete(j) PROVE Drift'
<1>1. PICK p \in Posts :
        LET post == Sees(j, PostRow(p)) IN
        /\ Undeleted(post)
        /\ Put1(j, PostRow(p), [post EXCEPT !.state = "deleted"])
        /\ Becomes(j, [Blank("recount") EXCEPT !.kind = "delete", !.todo = {post.shop}])
  BY DEF Delete
<1>2. job[j].pc = "idle" /\ UNCHANGED uncounted /\ Becoming(Sees(j, PostRow(p)).state, "deleted")
  BY DEF Delete, Becoming
<1>. QED BY <1>1, <1>2, OneReviewStatement

LEMMA DecideDrift == ASSUME Drift, NEW j \in Jobs, Decide(j) PROVE Drift'
<1>1. PICK p \in Posts, answer \in {"published", "removed"} :
        LET post == Sees(j, PostRow(p)) IN
        /\ post.state = "held"
        /\ Put1(j, PostRow(p), [post EXCEPT !.state = answer])
        /\ Becomes(j, [Blank("recount") EXCEPT !.kind = "decide", !.todo = {post.shop}])
  BY DEF Decide
<1>2. job[j].pc = "idle" /\ UNCHANGED uncounted /\ Becoming(Sees(j, PostRow(p)).state, answer)
      /\ Undeleted(Sees(j, PostRow(p)))
  BY <1>1 DEF Decide, Becoming, Undeleted
<1>. QED BY <1>1, <1>2, OneReviewStatement

\* A published review is counted next; what was written was absent before.
LEMMA InsertDrift == ASSUME Drift, Inv, NEW j \in Jobs, Insert(j) PROVE Drift'
<1> USE RowsAreRows, AllRowsAreRows, RowsApart, AllRowsApart
<1>1. PICK me : me = job[j]
  OBVIOUS
<1>2. PICK p : p = me.post
  OBVIOUS
<1>3. /\ Types /\ Books(j) /\ JobTyped(me) /\ me.pc = "insert" /\ p \in Posts /\ me.shop \in Shops
      /\ me.proof \in Proofs \union {None} /\ me.state \in {"held", "published"}
      /\ me.kind = "review"
  BY <1>1, <1>2 DEF Drift, Types, Insert, JobTyped
<1>4. draft[PostRow(p)].state = "absent" /\ db[PostRow(p)].state = "absent"
  BY <1>1, <1>2, <1>3 DEF Inv, JobsInv, TablesInv, NothingForgotten
<1> DEFINE mine == {PostRow(p)} \union (IF me.proof = None THEN {} ELSE {ProofRow(me.proof)})
           row == [shop |-> me.shop, state |-> me.state, proof |-> me.proof]
           new == [r \in mine |-> IF r = PostRow(p) THEN row
                                  ELSE [shop |-> me.shop, state |-> "used"]]
           next == [me EXCEPT !.pc = IF me.state = "published" THEN "count" ELSE "commit",
                              !.refs = {ShopRow(me.shop), UserRow(me.user)}]
<1>5. Put(j, mine, new) /\ Becomes(j, next) /\ UNCHANGED uncounted
  BY <1>1, <1>2 DEF Insert
<1>6. /\ new[PostRow(p)] = row
      /\ \A v \in Proofs : ProofRow(v) \in mine
           => new[ProofRow(v)] = [shop |-> me.shop, state |-> "used"]
  OBVIOUS
<1>7. /\ \A q \in Posts : PostRow(q) \in mine <=> q = p
      /\ \A w \in Users, t \in Shops : FavRow(w, t) \notin mine
      /\ \A t \in Shops : StatsRow(t) \notin mine /\ ShopRow(t) \notin mine
      /\ \A w \in Users : UserRow(w) \notin mine
  OBVIOUS
<1>8. PostTyped(row) /\ row.shop = me.shop /\ row.state = me.state
  BY <1>3 DEF PostTyped, PostStates
<1>9. JobTyped(next) /\ next.pc = (IF me.state = "published" THEN "count" ELSE "commit")
      /\ next.shop = me.shop /\ next.post = p /\ next.kind = "review"
  BY <1>2, <1>3 DEF JobTyped, JobShape, Pcs, Moving
<1> HIDE DEF mine, row, new, next
<1>10. Fitting(mine, new)
  <2>1. ProofTyped([shop |-> me.shop, state |-> "used"])
    BY <1>3 DEF ProofTyped, ProofStates
  <2>. QED BY <1>3, <1>4, <1>6, <1>7, <1>8, <2>1 DEF Fitting, Becoming
<1>11. ASSUME NEW q \in Posts, NEW s \in Shops, PostRow(q) \in mine,
              ~(Shown(draft[PostRow(q)], s) <=> Shown(new[PostRow(q)], s))
       PROVE  OwesReviews(next, s)
  <2>1. row.state = "published" /\ row.shop = s
    BY <1>4, <1>6, <1>7, <1>11 DEF Shown
  <2>. QED BY <1>8, <1>9, <2>1 DEF OwesReviews
<1>12. \A s : ~OwesReviews(me, s) /\ ~OwesFavs(me, s)
  BY <1>3 DEF OwesReviews, OwesFavs, Moving
<1>13. Hands(j)'
  <2>1. job'[j] = next
    BY <1>3, <1>5 DEF Types, Becomes
  <2>2. Hands(j)
    BY <1>3 DEF Books
  <2>3. /\ db' = db
        /\ lock'[PostRow(p)] = j /\ draft'[PostRow(p)] = row
        /\ \A r \in Row : r \notin mine => lock'[r] = lock[r]
    BY <1>3, <1>5, <1>6, <1>7, PutFacts
  <2>4. \A q \in Posts : lock'[PostRow(q)] = j <=> q = p
    BY <1>1, <1>3, <1>7, <2>2, <2>3 DEF Hands
  <2>5. next.pc = "count" => Shown(row, next.shop)
    BY <1>8, <1>9 DEF Shown
  <2>6. \A s \in Shops : lock'[StatsRow(s)] # j
    BY <1>1, <1>3, <1>7, <2>2, <2>3 DEF Hands
  <2>7. \A u \in Users, s \in Shops : lock'[FavRow(u, s)] # j
    BY <1>1, <1>3, <1>7, <2>2, <2>3 DEF Hands
  <2>. QED BY <1>4, <1>9, <2>1, <2>3, <2>4, <2>5, <2>6, <2>7 DEF Hands
<1>. QED BY <1>1, <1>3, <1>5, <1>7, <1>9, <1>10, <1>11, <1>12, <1>13, ReviewStatement

\* Both shops of a merge are owed while reviews move from one to the other.
LEMMA MovePostsDrift == ASSUME Drift, NEW j \in Jobs, MovePosts(j) PROVE Drift'
<1> USE RowsAreRows, AllRowsAreRows, RowsApart, AllRowsApart
<1>1. PICK me : me = job[j]
  OBVIOUS
<1>2. /\ Types /\ Books(j) /\ JobTyped(me) /\ me.pc = "posts" /\ me.shop \in Shops
      /\ me.other \in Shops /\ me.kind = "merge"
  BY <1>1 DEF Drift, Types, MovePosts, JobTyped, Moving
<1> DEFINE R == {r \in {PostRow(p) : p \in Posts} : Sees(j, r).shop = me.other}
           refs == IF R = {} THEN {} ELSE {ShopRow(me.shop)}
           next == [me EXCEPT !.pc = "visits", !.refs = @ \union refs]
           new == [r \in R |-> [Sees(j, r) EXCEPT !.shop = me.shop]]
<1>3. Put(j, R, new) /\ Becomes(j, next) /\ UNCHANGED uncounted
  BY <1>1 DEF MovePosts, Move
<1> HIDE DEF refs
<1>4. /\ JobTyped(next) /\ next.pc = "visits" /\ next.shop = me.shop /\ next.other = me.other
      /\ next.kind = me.kind
  BY <1>2 DEF JobTyped, JobShape, Pcs, Moving
<1>5. /\ \A v \in Proofs : ProofRow(v) \notin R
      /\ \A w \in Users, t \in Shops : FavRow(w, t) \notin R
      /\ \A t \in Shops : StatsRow(t) \notin R /\ ShopRow(t) \notin R
      /\ \A w \in Users : UserRow(w) \notin R
  OBVIOUS
<1>6. \A r \in R : new[r] = [Sees(j, r) EXCEPT !.shop = me.shop] /\ Sees(j, r).shop = me.other
  OBVIOUS
<1> HIDE DEF next, R, new
<1>7. ASSUME NEW p \in Posts, PostRow(p) \in R
      PROVE  /\ PostTyped(new[PostRow(p)])
             /\ new[PostRow(p)].state = draft[PostRow(p)].state
             /\ draft[PostRow(p)].shop = me.other
             /\ new[PostRow(p)].shop = me.shop
  <2>1. Sees(j, PostRow(p)) = draft[PostRow(p)] /\ PostTyped(draft[PostRow(p)])
    BY <1>2, <1>3, <1>7, PutFacts DEF Types, TablesTyped
  <2>2. new[PostRow(p)] = [draft[PostRow(p)] EXCEPT !.shop = me.shop]
        /\ draft[PostRow(p)].shop = me.other
    BY <1>6, <1>7, <2>1
  <2>. QED BY <1>2, <2>1, <2>2, MovedRows
<1>8. Fitting(R, new)
  BY <1>5, <1>7 DEF Fitting, Becoming
<1>9. ASSUME NEW q \in Posts, NEW s \in Shops, PostRow(q) \in R,
             ~(Shown(draft[PostRow(q)], s) <=> Shown(new[PostRow(q)], s))
      PROVE  OwesReviews(next, s)
  <2>1. s \in {me.shop, me.other}
    BY <1>7, <1>9 DEF Shown
  <2>. QED BY <1>4, <2>1 DEF OwesReviews, Moving
<1>10. \A s : (OwesReviews(me, s) => OwesReviews(next, s)) /\ (OwesFavs(me, s) => OwesFavs(next, s))
  BY <1>2, <1>4 DEF OwesReviews, OwesFavs, Moving
<1>11. Hands(j)'
  <2>1. job'[j] = next
    BY <1>2, <1>3 DEF Types, Becomes
  <2>2. \A r \in Row : r \notin R => lock'[r] = lock[r]
    BY <1>2, <1>3, PutFacts
  <2>3. Hands(j)
    BY <1>2 DEF Books
  <2>. QED BY <1>1, <1>2, <1>4, <1>5, <2>1, <2>2, <2>3 DEF Hands
<1>. QED BY <1>1, <1>2, <1>3, <1>4, <1>5, <1>8, <1>9, <1>10, <1>11, ReviewStatement

(***************************************************************************)
(* The statements that write favourites                                    *)
(***************************************************************************)
LEMMA FavouriteStatement ==
    ASSUME Drift, NEW j \in Jobs, NEW R, NEW new, Put(j, R, new),
           R \subseteq {FavRow(u, s) : u \in Users, s \in Shops},
           \A r \in R : new[r] \in BOOLEAN,
           job[j].pc \notin {"recount", "write", "commit"},
           NEW next, Becomes(j, next), JobTyped(next),
           job[j].kind = "merge" => next.kind = "merge",
           \A u \in Users, s \in Shops : FavRow(u, s) \in R => OwesFavs(next, s),
           \A s \in Shops : OwesReviews(job[j], s) => OwesReviews(next, s),
           \A s \in Shops : OwesFavs(job[j], s) => OwesFavs(next, s),
           UNCHANGED uncounted, Hands(j)'
    PROVE  Drift'
<1> USE RowsAreRows, AllRowsAreRows
<1>1. Types /\ Books(j)
  BY DEF Drift
<1>2. job'[j] = next
  BY <1>1 DEF Types, Becomes
<1>3. /\ db' = db
      /\ \A r \in Row : r \in R => lock[r] \in {Nobody, j} /\ lock'[r] = j /\ draft'[r] = new[r]
      /\ \A r \in Row : r \notin R => lock'[r] = lock[r] /\ draft'[r] = draft[r]
  BY <1>1, PutFacts
<1>4. /\ \A p \in Posts : PostRow(p) \notin R
      /\ \A v \in Proofs : ProofRow(v) \notin R
      /\ \A t \in Shops : StatsRow(t) \notin R /\ ShopRow(t) \notin R
      /\ \A w \in Users : UserRow(w) \notin R
  BY RowsApart, AllRowsApart
<1>5. Fitting(R, new)
  BY <1>4 DEF Fitting
<1>6. ReckonsReviews(j)'
  BY <1>1, <1>2, <1>4, NothingUncounted, ReviewsStillReckoned
<1>7. ReckonsFavs(j)'
  <2> SUFFICES ASSUME NEW u \in Users, NEW s \in Shops, lock'[FavRow(u, s)] = j,
                      draft'[FavRow(u, s)] # db[FavRow(u, s)]
               PROVE  OwesFavs(next, s) \/ Covered(j, s)' \/ <<s, "favs">> \in uncounted
    BY <1>2, <1>3 DEF ReckonsFavs
  <2>1. CASE FavRow(u, s) \in R
    BY <2>1
  <2>2. CASE FavRow(u, s) \notin R
    <3>1. OwesFavs(job[j], s) \/ Covered(j, s) \/ <<s, "favs">> \in uncounted
      BY <1>1, <1>3, <2>2 DEF Books, ReckonsFavs
    <3>. QED BY <1>1, <1>2, <1>4, <3>1, CoveredKept
  <2>. QED BY <2>1, <2>2
<1>8. Counted(j)'
  <2>1. \A s \in Shops : lock[StatsRow(s)] # j
    BY <1>1 DEF Books, Hands
  <2>. QED BY <1>3, <1>4, <2>1 DEF Counted
<1>9. Books(j)'
  BY <1>6, <1>7, <1>8 DEF Books
<1>. QED BY <1>5, <1>9, NothingUncounted, Statement

LEMMA FavouriteDrift == ASSUME Drift, NEW j \in Jobs, Favourite(j) PROVE Drift'
<1> USE RowsAreRows, AllRowsAreRows
<1>1. PICK w \in Users, s \in Shops :
        LET add == ~Sees(j, FavRow(w, s)) IN
        /\ Put1(j, FavRow(w, s), add)
        /\ Becomes(j, [Blank("tally") EXCEPT !.kind = "favourite", !.shop = s, !.favs = IF add THEN 1 ELSE -1,
                          !.refs = IF add THEN {ShopRow(s), UserRow(w)} ELSE {}])
  BY DEF Favourite
<1>2. /\ Types /\ Books(j) /\ job[j].pc = "idle" /\ job[j].kind = "none" /\ UNCHANGED uncounted
  BY DEF Drift, Types, JobTyped, Favourite
<1>3. /\ lock[FavRow(w, s)] # j /\ db[FavRow(w, s)] \in BOOLEAN
  BY <1>2 DEF Books, Hands, Types, TablesTyped
<1>4. PICK add \in BOOLEAN : add <=> ~db[FavRow(w, s)]
  OBVIOUS
<1>5. Sees(j, FavRow(w, s)) = db[FavRow(w, s)]
  BY <1>3 DEF Sees
<1>6. add = ~Sees(j, FavRow(w, s))
  BY <1>3, <1>4, <1>5
<1> DEFINE R == {FavRow(w, s)}
           new == [r \in R |-> add]
           next == [Blank("tally") EXCEPT !.kind = "favourite", !.shop = s,
                          !.favs = IF add THEN 1 ELSE -1,
                          !.refs = IF add THEN {ShopRow(s), UserRow(w)} ELSE {}]
<1>7. Put(j, R, new) /\ Becomes(j, next)
  BY <1>1, <1>6 DEF Put1
<1>8. /\ JobTyped(next) /\ next.pc = "tally" /\ next.shop = s
      /\ next.favs = IF add THEN 1 ELSE -1
  BY DEF JobTyped, JobShape, Blank, Kinds, Pcs, Moving
<1>9. \A s1 : ~OwesReviews(job[j], s1) /\ ~OwesFavs(job[j], s1)
  BY <1>2 DEF OwesReviews, OwesFavs, Moving
<1>10. \A u \in Users, t \in Shops : FavRow(u, t) \in R <=> u = w /\ t = s
  BY AllRowsApart
<1>11. \A r \in R : new[r] \in BOOLEAN
  OBVIOUS
<1>12. R \subseteq {FavRow(u, t) : u \in Users, t \in Shops}
  OBVIOUS
<1>13. new[FavRow(w, s)] = add
  OBVIOUS
<1>14. /\ \A p \in Posts : PostRow(p) \notin R
       /\ \A t \in Shops : StatsRow(t) \notin R
  BY RowsApart, AllRowsApart
<1> HIDE DEF R, new, next
<1>15. \A u \in Users, t \in Shops : FavRow(u, t) \in R => OwesFavs(next, t)
  BY <1>8, <1>10 DEF OwesFavs
<1>16. Hands(j)'
  <2>1. job'[j] = next
    BY <1>2, <1>7 DEF Types, Becomes
  <2>2. /\ db' = db /\ draft'[FavRow(w, s)] = add /\ lock'[FavRow(w, s)] = j
        /\ \A r \in Row : r \notin R => lock'[r] = lock[r]
    BY <1>2, <1>7, <1>10, <1>13, PutFacts
  <2>3. /\ \A t \in Shops : lock[StatsRow(t)] # j
        /\ \A p \in Posts : lock[PostRow(p)] # j
        /\ \A u \in Users, t \in Shops : lock[FavRow(u, t)] # j
    BY <1>2 DEF Books, Hands
  <2>4. /\ \A t \in Shops : lock'[StatsRow(t)] # j
        /\ \A p \in Posts : lock'[PostRow(p)] # j
        /\ \A u \in Users, t \in Shops : lock'[FavRow(u, t)] = j <=> u = w /\ t = s
    BY <1>10, <1>14, <2>2, <2>3
  <2>5. draft'[FavRow(w, s)] <=> next.favs = 1
    BY <1>8, <2>2
  <2>6. db'[FavRow(w, s)] <=> next.favs = -1
    BY <1>3, <1>4, <1>8, <2>2
  <2>. QED BY <1>8, <2>1, <2>4, <2>5, <2>6 DEF Hands
<1>. QED BY <1>2, <1>7, <1>8, <1>9, <1>11, <1>12, <1>15, <1>16, FavouriteStatement

LEMMA CopyFavouritesDrift == ASSUME Drift, NEW j \in Jobs, CopyFavourites(j) PROVE Drift'
<1> USE RowsAreRows, AllRowsAreRows
<1>1. PICK me : me = job[j]
  OBVIOUS
<1>2. /\ Types /\ Books(j) /\ JobTyped(me) /\ me.pc = "copy" /\ me.shop \in Shops
      /\ me.other \in Shops /\ me.kind = "merge"
  BY <1>1 DEF Drift, Types, CopyFavourites, JobTyped, Moving
<1> DEFINE users == {u \in Users : Sees(j, FavRow(u, me.other)) /\ ~Sees(j, FavRow(u, me.shop))}
           R == {FavRow(u, me.shop) : u \in users}
           refs == IF users = {} THEN {} ELSE {ShopRow(me.shop)} \union {UserRow(u) : u \in users}
           new == [r \in R |-> TRUE]
           next == [me EXCEPT !.pc = "clear", !.refs = @ \union refs]
<1>3. Put(j, R, new) /\ Becomes(j, next) /\ UNCHANGED uncounted
  BY <1>1 DEF CopyFavourites
<1> HIDE DEF refs
<1>4. /\ JobTyped(next) /\ next.pc = "clear" /\ next.shop = me.shop /\ next.other = me.other
      /\ next.kind = me.kind
  BY <1>2 DEF JobTyped, JobShape, Pcs, Moving
<1>5. /\ R \subseteq {FavRow(u, s) : u \in Users, s \in Shops}
      /\ \A r \in R : new[r] \in BOOLEAN
      /\ \A t \in Shops : StatsRow(t) \notin R
  <2>1. R \subseteq {FavRow(u, s) : u \in Users, s \in Shops}
    BY <1>2
  <2>2. \A r \in R : new[r] \in BOOLEAN
    OBVIOUS
  <2>3. \A t \in Shops : StatsRow(t) \notin R
    BY AllRowsApart
  <2> HIDE DEF R, new
  <2>. QED BY <2>1, <2>2, <2>3
<1>6. \A u \in Users, s \in Shops : FavRow(u, s) \in R => OwesFavs(next, s)
  BY <1>4, AllRowsApart DEF OwesFavs, Moving
<1> HIDE DEF users, R, new, next
<1>7. \A s : (OwesReviews(me, s) => OwesReviews(next, s)) /\ (OwesFavs(me, s) => OwesFavs(next, s))
  BY <1>2, <1>4 DEF OwesReviews, OwesFavs, Moving
<1>8. Hands(j)'
  <2>1. job'[j] = next
    BY <1>2, <1>3 DEF Types, Becomes
  <2>2. \A t \in Shops : lock'[StatsRow(t)] # j
    BY <1>1, <1>2, <1>3, <1>5, PutFacts DEF Books, Hands
  <2>. QED BY <1>4, <2>1, <2>2 DEF Hands
<1>. QED BY <1>1, <1>2, <1>3, <1>4, <1>5, <1>6, <1>7, <1>8, FavouriteStatement

LEMMA ClearFavouritesDrift == ASSUME Drift, NEW j \in Jobs, ClearFavourites(j) PROVE Drift'
<1> USE RowsAreRows, AllRowsAreRows
<1>1. PICK me : me = job[j]
  OBVIOUS
<1>2. /\ Types /\ Books(j) /\ JobTyped(me) /\ me.pc = "clear" /\ me.shop \in Shops
      /\ me.other \in Shops /\ me.kind = "merge"
  BY <1>1 DEF Drift, Types, ClearFavourites, JobTyped, Moving
<1> DEFINE R == {r \in {FavRow(u, me.other) : u \in Users} : Sees(j, r)}
           new == [r \in R |-> FALSE]
           next == [me EXCEPT !.pc = "keep"]
<1>3. Put(j, R, new) /\ Becomes(j, next) /\ UNCHANGED uncounted
  BY <1>1 DEF ClearFavourites
<1>4. /\ JobTyped(next) /\ next.pc = "keep" /\ next.shop = me.shop /\ next.other = me.other
      /\ next.kind = me.kind
  BY <1>2 DEF JobTyped, JobShape, Pcs, Moving
<1>5. /\ R \subseteq {FavRow(u, s) : u \in Users, s \in Shops}
      /\ \A r \in R : new[r] \in BOOLEAN
      /\ \A t \in Shops : StatsRow(t) \notin R
  <2>1. R \subseteq {FavRow(u, s) : u \in Users, s \in Shops}
    BY <1>2
  <2>2. \A r \in R : new[r] \in BOOLEAN
    OBVIOUS
  <2>3. \A t \in Shops : StatsRow(t) \notin R
    BY AllRowsApart
  <2> HIDE DEF R, new
  <2>. QED BY <2>1, <2>2, <2>3
<1>6. \A u \in Users, s \in Shops : FavRow(u, s) \in R => OwesFavs(next, s)
  BY <1>4, AllRowsApart DEF OwesFavs, Moving
<1> HIDE DEF R, new, next
<1>7. \A s : (OwesReviews(me, s) => OwesReviews(next, s)) /\ (OwesFavs(me, s) => OwesFavs(next, s))
  BY <1>2, <1>4 DEF OwesReviews, OwesFavs, Moving
<1>8. Hands(j)'
  <2>1. job'[j] = next
    BY <1>2, <1>3 DEF Types, Becomes
  <2>2. \A t \in Shops : lock'[StatsRow(t)] # j
    BY <1>1, <1>2, <1>3, <1>5, PutFacts DEF Books, Hands
  <2>. QED BY <1>4, <2>1, <2>2 DEF Hands
<1>. QED BY <1>1, <1>2, <1>3, <1>4, <1>5, <1>6, <1>7, <1>8, FavouriteStatement

\* A deletion owes the shops it looked up, and says of the others it changes
\* that nobody will count them.
LEMMA WipeDrift == ASSUME Drift, NEW j \in Jobs, Wipe(j) PROVE Drift'
<1> USE RowsAreRows, AllRowsAreRows, RowsApart, AllRowsApart
<1> DEFINE me == job[j]
           u == me.user
<1>3. /\ Types /\ Books(j) /\ JobTyped(me) /\ me.pc = "wipe" /\ me.todo \subseteq Shops
      /\ me.kind = "account" /\ u \in Users
  BY DEF Drift, Types, Wipe, JobTyped
<1> DEFINE posts == {p \in Posts : Author[p] = u /\ Undeleted(Sees(j, PostRow(p)))}
           faved == {s \in Shops : Sees(j, FavRow(u, s))}
           proofs == {v \in Proofs : Visitor[v] = u /\ Sees(j, ProofRow(v)).state \in {"open", "used"}}
           R == {PostRow(p) : p \in posts} \union {FavRow(u, s) : s \in faved}
                     \union {ProofRow(v) : v \in proofs} \union {UserRow(u)}
           new == [r \in R |->
                 CASE r[1] = "post" -> [Sees(j, r) EXCEPT !.state = "deleted"]
                   [] r[1] = "fav" -> FALSE
                   [] r[1] = "proof" -> [shop |-> None, state |-> "gone"]
                   [] r[1] = "user" -> "inactive"]
           next == [me EXCEPT !.pc = IF me.todo = {} THEN "commit" ELSE "recount"]
<1>4. /\ Put(j, R, new) /\ Becomes(j, next)
      /\ uncounted' = uncounted \union {<<s, "favs">> : s \in faved}
                \union {<<Sees(j, PostRow(p)).shop, "reviews">> :
                          p \in {q \in posts : Sees(j, PostRow(q)).shop \notin me.todo}}
  BY DEF Wipe
<1> HIDE DEF me, u
<1>5. /\ JobShape(next) /\ next.pc = (IF me.todo = {} THEN "commit" ELSE "recount")
      /\ next.kind = me.kind /\ next.todo = me.todo
  BY <1>3 DEF JobTyped, JobShape
<1>6. /\ \A p \in Posts : PostRow(p) \in R =>
           p \in posts /\ new[PostRow(p)] = [Sees(j, PostRow(p)) EXCEPT !.state = "deleted"]
      /\ \A w \in Users, s \in Shops : FavRow(w, s) \in R =>
           s \in faved /\ new[FavRow(w, s)] = FALSE
      /\ \A v \in Proofs : ProofRow(v) \in R =>
           new[ProofRow(v)] = [shop |-> None, state |-> "gone"]
      /\ \A w \in Users : UserRow(w) \in R => new[UserRow(w)] = "inactive"
      /\ \A s \in Shops : StatsRow(s) \notin R /\ ShopRow(s) \notin R
  <2>1. ASSUME NEW p \in Posts, PostRow(p) \in R
        PROVE  p \in posts /\ new[PostRow(p)] = [Sees(j, PostRow(p)) EXCEPT !.state = "deleted"]
    <3>1. p \in posts
      BY <2>1
    <3>2. new[PostRow(p)] = [Sees(j, PostRow(p)) EXCEPT !.state = "deleted"]
      BY <2>1
    <3>. QED BY <3>1, <3>2
  <2>2. ASSUME NEW w \in Users, NEW s \in Shops, FavRow(w, s) \in R
        PROVE  s \in faved /\ new[FavRow(w, s)] = FALSE
    BY <2>2
  <2>3. ASSUME NEW v \in Proofs, ProofRow(v) \in R
        PROVE  new[ProofRow(v)] = [shop |-> None, state |-> "gone"]
    BY <2>3
  <2>4. ASSUME NEW w \in Users, UserRow(w) \in R
        PROVE  new[UserRow(w)] = "inactive"
    BY <2>4
  <2>5. ASSUME NEW s \in Shops
        PROVE  StatsRow(s) \notin R /\ ShopRow(s) \notin R
    OBVIOUS
  <2>. QED BY <2>1, <2>2, <2>3, <2>4, <2>5
<1>7. \A p \in posts : p \in Posts /\ Undeleted(Sees(j, PostRow(p)))
  OBVIOUS
<1>8. faved \subseteq Shops
  OBVIOUS
<1> HIDE DEF posts, faved, proofs, R, new, next
<1>9. /\ db' = db
      /\ \A r \in Row : r \in R => lock[r] \in {Nobody, j} /\ lock'[r] = j
                                   /\ draft'[r] = new[r] /\ Sees(j, r) = draft[r]
      /\ \A r \in Row : r \notin R => lock'[r] = lock[r] /\ draft'[r] = draft[r]
  BY <1>3, <1>4, PutFacts
<1>10. Hands(j)
  BY <1>3 DEF Books
<1>11. ASSUME NEW p \in Posts, PostRow(p) \in R
       PROVE  /\ Sees(j, PostRow(p)) = draft[PostRow(p)]
              /\ draft[PostRow(p)] = db[PostRow(p)]
              /\ db[PostRow(p)].shop \in Shops
              /\ PostTyped(new[PostRow(p)])
              /\ new[PostRow(p)].state = "deleted"
  <2>1. lock[PostRow(p)] = Nobody
    BY <1>3, <1>9, <1>10, <1>11 DEF Hands, me
  <2>2. Sees(j, PostRow(p)) = draft[PostRow(p)] /\ draft[PostRow(p)] = db[PostRow(p)]
    BY <1>3, <1>9, <1>11, <2>1 DEF Types
  <2>3. PostTyped(db[PostRow(p)])
    BY <1>3 DEF Types, TablesTyped
  <2>4. Undeleted(db[PostRow(p)]) /\ new[PostRow(p)] = [db[PostRow(p)] EXCEPT !.state = "deleted"]
    BY <1>6, <1>7, <1>11, <2>2
  <2>5. PostTyped(new[PostRow(p)]) /\ new[PostRow(p)].state = "deleted"
    BY <2>3, <2>4 DEF PostTyped, PostStates, Undeleted
  <2>. QED BY <2>2, <2>3, <2>4, <2>5 DEF PostTyped
<1>12. Fitting(R, new)
  <2>1. ProofTyped([shop |-> None, state |-> "gone"])
    BY DEF ProofTyped, ProofStates
  <2>2. \A p \in Posts : PostRow(p) \in R =>
          PostTyped(new[PostRow(p)]) /\ Becoming(draft[PostRow(p)].state, new[PostRow(p)].state)
    BY <1>11 DEF Becoming
  <2>. QED BY <1>6, <2>1, <2>2 DEF Fitting
<1>13. JobTyped(next)
  BY <1>3, <1>5 DEF JobTyped, Pcs, Moving
<1>14. job'[j] = next
  BY <1>3, <1>4 DEF Types, Becomes
<1>15. uncounted \subseteq uncounted'
  BY <1>4
<1>16. uncounted' \subseteq Shops \X {"reviews", "favs"}
  <2>1. \A p \in posts : Sees(j, PostRow(p)).shop \in Shops
    <3> SUFFICES ASSUME NEW p \in posts PROVE Sees(j, PostRow(p)).shop \in Shops
      OBVIOUS
    <3>1. PostTyped(Sees(j, PostRow(p))) /\ Undeleted(Sees(j, PostRow(p)))
      BY <1>3, <1>7 DEF Sees, Types, TablesTyped
    <3>. QED BY <3>1 DEF PostTyped
  <2>2. uncounted \subseteq Shops \X {"reviews", "favs"}
    BY <1>3 DEF Types
  <2>. QED BY <1>4, <1>8, <2>1, <2>2
<1>17. Hands(j)'
  <2>1. next.pc \in {"recount", "commit"}
    BY <1>5
  <2>. QED BY <1>14, <2>1 DEF Hands
<1>18. ReckonsReviews(j)'
  <2> SUFFICES ASSUME NEW p \in Posts, NEW s \in Shops, lock'[PostRow(p)] = j,
                      ~(Shown(draft'[PostRow(p)], s) <=> Shown(db[PostRow(p)], s))
               PROVE  OwesReviews(next, s) \/ <<s, "reviews">> \in uncounted'
    BY <1>9, <1>14 DEF ReckonsReviews
  <2>1. PostRow(p) \in R
    BY <1>3, <1>9, <1>10 DEF Hands, me
  <2>2. s = db[PostRow(p)].shop
    BY <1>9, <1>11, <2>1 DEF Shown
  <2>3. p \in posts /\ Sees(j, PostRow(p)).shop = s
    BY <1>6, <1>11, <2>1, <2>2
  <2>4. CASE s \in me.todo
    BY <1>5, <2>4 DEF OwesReviews
  <2>5. CASE s \notin me.todo
    BY <1>4, <2>3, <2>5
  <2>. QED BY <2>4, <2>5
<1>19. ReckonsFavs(j)'
  <2> SUFFICES ASSUME NEW w \in Users, NEW s \in Shops, lock'[FavRow(w, s)] = j
               PROVE  <<s, "favs">> \in uncounted'
    BY DEF ReckonsFavs
  <2>1. FavRow(w, s) \in R
    BY <1>3, <1>9, <1>10 DEF Hands, me
  <2>. QED BY <1>4, <1>6, <2>1
<1>20. Counted(j)'
  <2>1. \A s \in Shops : lock[StatsRow(s)] # j
    BY <1>3, <1>10 DEF Hands, me
  <2>. QED BY <1>6, <1>9, <2>1 DEF Counted
<1>21. Books(j)'
  BY <1>17, <1>18, <1>19, <1>20 DEF Books
<1>. QED BY <1>4, <1>12, <1>13, <1>15, <1>16, <1>21, Statement

(***************************************************************************)
(* Commit and abort                                                        *)
(***************************************************************************)
\* What was committed, what is undone: the rows j had are nobody's.
LEMMA OverBooks ==
    ASSUME NEW j \in Jobs, job'[j] = Blank("done"), \A r \in Row : lock'[r] # j
    PROVE  Books(j)'
<1> USE RowsAreRows, AllRowsAreRows
<1>1. Blank("done").pc = "done"
  BY DEF Blank
<1>2. Hands(j)'
  BY <1>1 DEF Hands
<1>. QED BY <1>2 DEF Books, ReckonsReviews, ReckonsFavs, Counted

LEMMA BlankTyped == JobTyped(Blank("done"))
  BY DEF JobTyped, JobShape, Blank, Kinds, Pcs, Moving

\* Whoever commits a change of what is shown has counted it, or the shop goes, or
\* nobody counts it: what the others have counted agrees still.
LEMMA CommitDrift == ASSUME Drift, NEW j \in Jobs, Commit(j) PROVE Drift'
<1> USE RowsAreRows, AllRowsAreRows, Names
<1>1. /\ \A r \in Row : lock[r] = j => db'[r] = draft[r] /\ lock'[r] = Nobody
      /\ \A r \in Row : lock[r] # j => db'[r] = db[r] /\ lock'[r] = lock[r]
      /\ DOMAIN db' = Row /\ DOMAIN lock' = Row /\ draft' = draft /\ uncounted' = uncounted
      /\ job[j].pc = "commit"
  BY DEF Commit, Sees, Unlocked
<1>2. /\ Types /\ Decisions /\ Gone /\ Committed /\ \A k \in Jobs : Books(k)
  BY DEF Drift
<1>3. /\ DOMAIN job' = Jobs /\ job'[j] = Blank("done")
      /\ \A k \in Jobs \ {j} : job'[k] = job[k]
  BY <1>2 DEF Commit, Becomes, Types
<1>4. Types'
  <2>1. /\ TablesTyped(db) /\ TablesTyped(draft) /\ lock \in [Row -> Jobs \union {Nobody}]
        /\ \A r \in Row : lock[r] = Nobody => draft[r] = db[r]
        /\ uncounted \subseteq Shops \X {"reviews", "favs"}
        /\ \A k \in Jobs : JobTyped(job[k])
    BY <1>2 DEF Types
  <2>2. TablesTyped(db)' /\ TablesTyped(draft)'
    BY <1>1, <2>1 DEF TablesTyped
  <2>3. lock' \in [Row -> Jobs \union {Nobody}]
    <3>1. lock' = [r \in Row |-> IF lock[r] = j THEN Nobody ELSE lock[r]]
      BY DEF Commit, Unlocked
    <3>. QED BY <2>1, <3>1
  <2>4. \A r \in Row : lock'[r] = Nobody => draft'[r] = db'[r]
    BY <1>1, <2>1
  <2>5. \A k \in Jobs : JobTyped(job'[k])
    BY <1>3, <2>1, BlankTyped
  <2>. QED BY <1>1, <1>3, <2>1, <2>2, <2>3, <2>4, <2>5 DEF Types
<1>5. Decisions'
  BY <1>1, <1>2 DEF Decisions, Becoming
<1>6. Gone'
  BY <1>1, <1>2 DEF Gone
<1>7. \A s \in Shops : db[ShopRow(s)] # Live => db'[ShopRow(s)] # Live
  BY <1>1, <1>2 DEF Gone
<1>8. \A s \in Shops : ~OwesReviews(job[j], s) /\ ~OwesFavs(job[j], s)
  BY <1>1 DEF OwesReviews, OwesFavs, Moving
<1>9. \A p \in Posts, s \in Shops :
        lock[StatsRow(s)] # j /\ ~(Shown(db'[PostRow(p)], s) <=> Shown(db[PostRow(p)], s))
        => <<s, "reviews">> \in uncounted \/ db'[ShopRow(s)] # Live
  <2> SUFFICES ASSUME NEW p \in Posts, NEW s \in Shops, lock[StatsRow(s)] # j,
                      ~(Shown(db'[PostRow(p)], s) <=> Shown(db[PostRow(p)], s))
               PROVE  <<s, "reviews">> \in uncounted \/ db'[ShopRow(s)] # Live
    OBVIOUS
  <2>1. lock[PostRow(p)] = j /\ ~(Shown(draft[PostRow(p)], s) <=> Shown(db[PostRow(p)], s))
    BY <1>1
  <2>2. Covered(j, s) \/ <<s, "reviews">> \in uncounted
    BY <1>2, <1>8, <2>1 DEF Books, ReckonsReviews
  <2>. QED BY <1>1, <1>7, <2>2 DEF Covered
<1>10. \A u \in Users, s \in Shops :
         lock[StatsRow(s)] # j /\ db'[FavRow(u, s)] # db[FavRow(u, s)]
         => <<s, "favs">> \in uncounted \/ db'[ShopRow(s)] # Live
  <2> SUFFICES ASSUME NEW u \in Users, NEW s \in Shops, lock[StatsRow(s)] # j,
                      db'[FavRow(u, s)] # db[FavRow(u, s)]
               PROVE  <<s, "favs">> \in uncounted \/ db'[ShopRow(s)] # Live
    OBVIOUS
  <2>1. lock[FavRow(u, s)] = j /\ draft[FavRow(u, s)] # db[FavRow(u, s)]
    BY <1>1
  <2>2. Covered(j, s) \/ <<s, "favs">> \in uncounted
    BY <1>2, <1>8, <2>1 DEF Books, ReckonsFavs
  <2>. QED BY <1>1, <1>7, <2>2 DEF Covered
<1>11. ASSUME NEW s \in Shops
       PROVE  ReviewsAgree(db[StatsRow(s)], s, Cardinality({p \in Posts : Shown(db[PostRow(p)], s)}))'
  <2>1. CASE <<s, "reviews">> \in uncounted \/ db'[ShopRow(s)] # Live
    BY <1>1, <2>1 DEF ReviewsAgree
  <2>2. CASE ~(<<s, "reviews">> \in uncounted \/ db'[ShopRow(s)] # Live)
    <3>1. db[ShopRow(s)] = Live
      BY <1>7, <2>2
    <3>2. CASE lock[StatsRow(s)] = j
      <4>1. ReviewsAgree(draft[StatsRow(s)], s, Reviews(j, s))
        BY <1>2, <3>2 DEF Books, Counted
      <4>2. \A p \in Posts : Sees(j, PostRow(p)) = db'[PostRow(p)]
        BY <1>1 DEF Sees
      <4>3. {p \in Posts : Shown(Sees(j, PostRow(p)), s)} = {p \in Posts : Shown(db'[PostRow(p)], s)}
        BY <4>2
      <4>. QED BY <1>1, <2>2, <3>1, <3>2, <4>1, <4>3 DEF ReviewsAgree, Reviews
    <3>3. CASE lock[StatsRow(s)] # j
      <4>1. {p \in Posts : Shown(db'[PostRow(p)], s)} = {p \in Posts : Shown(db[PostRow(p)], s)}
        BY <1>9, <2>2, <3>3
      <4>2. ReviewsAgree(db[StatsRow(s)], s, Cardinality({p \in Posts : Shown(db[PostRow(p)], s)}))
        BY <1>2 DEF Committed
      <4>. QED BY <1>1, <2>2, <3>1, <3>3, <4>1, <4>2 DEF ReviewsAgree
    <3>. QED BY <3>2, <3>3
  <2>. QED BY <2>1, <2>2
<1>12. ASSUME NEW s \in Shops
       PROVE  FavsAgree(db[StatsRow(s)], s, Cardinality({u \in Users : db[FavRow(u, s)]}))'
  <2>1. CASE <<s, "favs">> \in uncounted \/ db'[ShopRow(s)] # Live
    BY <1>1, <2>1 DEF FavsAgree
  <2>2. CASE ~(<<s, "favs">> \in uncounted \/ db'[ShopRow(s)] # Live)
    <3>1. db[ShopRow(s)] = Live
      BY <1>7, <2>2
    <3>2. CASE lock[StatsRow(s)] = j
      <4>1. FavsAgree(draft[StatsRow(s)], s, Favourites(j, s))
        BY <1>2, <3>2 DEF Books, Counted
      <4>2. \A u \in Users : Sees(j, FavRow(u, s)) = db'[FavRow(u, s)]
        BY <1>1 DEF Sees
      <4>3. {u \in Users : Sees(j, FavRow(u, s))} = {u \in Users : db'[FavRow(u, s)]}
        BY <4>2
      <4>. QED BY <1>1, <2>2, <3>1, <3>2, <4>1, <4>3 DEF FavsAgree, Favourites
    <3>3. CASE lock[StatsRow(s)] # j
      <4>1. \A u \in Users : db'[FavRow(u, s)] = db[FavRow(u, s)]
        BY <1>10, <2>2, <3>3
      <4>2. {u \in Users : db'[FavRow(u, s)]} = {u \in Users : db[FavRow(u, s)]}
        BY <4>1
      <4>3. FavsAgree(db[StatsRow(s)], s, Cardinality({u \in Users : db[FavRow(u, s)]}))
        BY <1>2 DEF Committed
      <4>. QED BY <1>1, <2>2, <3>1, <3>3, <4>2, <4>3 DEF FavsAgree
    <3>. QED BY <3>2, <3>3
  <2>. QED BY <2>1, <2>2
<1>13. Committed'
  BY <1>11, <1>12 DEF Committed
<1>14. ASSUME NEW k \in Jobs \ {j} PROVE Books(k)'
  <2>1. Books(k) /\ job'[k] = job[k]
    BY <1>2, <1>3
  <2>2. \A r \in Row : lock[r] = k => lock'[r] = k /\ db'[r] = db[r]
    BY <1>1
  <2>3. \A r \in Row : lock'[r] = k => lock[r] = k
    BY <1>1
  <2>4. Hands(k)'
    <3>1. job[k].pc = "count" => job[k].post \in Posts
      BY <1>2 DEF Types, JobTyped
    <3>2. job[k].pc = "tally" => job[k].shop \in Shops
      BY <1>2 DEF Types, JobTyped
    <3>. QED BY <1>1, <2>1, <2>2, <2>3, <3>1, <3>2 DEF Books, Hands
  <2>5. \A s \in Shops : Covered(k, s) => Covered(k, s)'
    BY <1>1, <1>7, <2>1, <2>2 DEF Covered
  <2>6. ReckonsReviews(k)'
    BY <1>1, <2>1, <2>2, <2>3, <2>5 DEF Books, ReckonsReviews
  <2>7. ReckonsFavs(k)'
    BY <1>1, <2>1, <2>2, <2>3, <2>5 DEF Books, ReckonsFavs
  <2>8. ASSUME NEW s \in Shops, lock'[StatsRow(s)] = k
        PROVE  /\ ReviewsAgree(draft[StatsRow(s)], s, Reviews(k, s))'
               /\ FavsAgree(draft[StatsRow(s)], s, Favourites(k, s))'
    <3>1. lock[StatsRow(s)] = k /\ lock[StatsRow(s)] # j
      BY <2>3, <2>8
    <3>2. /\ ReviewsAgree(draft[StatsRow(s)], s, Reviews(k, s))
          /\ FavsAgree(draft[StatsRow(s)], s, Favourites(k, s))
      BY <2>1, <3>1 DEF Books, Counted
    <3>3. \A r \in Row : Sees(k, r)' = IF lock[r] = k THEN draft[r] ELSE db'[r]
      BY <1>1, <2>2, <2>3 DEF Sees
    <3>4. ReviewsAgree(draft[StatsRow(s)], s, Reviews(k, s))'
      <4>1. CASE <<s, "reviews">> \in uncounted \/ db'[ShopRow(s)] # Live
        BY <1>1, <4>1 DEF ReviewsAgree
      <4>2. CASE ~(<<s, "reviews">> \in uncounted \/ db'[ShopRow(s)] # Live)
        <5>1. \A p \in Posts : Shown(db'[PostRow(p)], s) <=> Shown(db[PostRow(p)], s)
          BY <1>9, <3>1, <4>2
        <5>2. \A p \in Posts : Shown(Sees(k, PostRow(p)), s)' <=> Shown(Sees(k, PostRow(p)), s)
          <6> SUFFICES ASSUME NEW p \in Posts
                       PROVE  Shown(Sees(k, PostRow(p)), s)' <=> Shown(Sees(k, PostRow(p)), s)
            OBVIOUS
          <6>1. CASE lock[PostRow(p)] = k
            BY <3>3, <6>1 DEF Shown, Sees
          <6>2. CASE lock[PostRow(p)] # k
            BY <3>3, <5>1, <6>2 DEF Shown, Sees
          <6>. QED BY <6>1, <6>2
        <5>3. Reviews(k, s)' = Reviews(k, s)
          <6>1. {p \in Posts : Shown(Sees(k, PostRow(p)), s)}'
                  = {p \in Posts : Shown(Sees(k, PostRow(p)), s)}
            BY <5>2
          <6>. QED BY <6>1 DEF Reviews
        <5>4. db[ShopRow(s)] = Live
          BY <1>7, <4>2
        <5>. QED BY <1>1, <3>2, <4>2, <5>3, <5>4 DEF ReviewsAgree
      <4>. QED BY <4>1, <4>2
    <3>5. FavsAgree(draft[StatsRow(s)], s, Favourites(k, s))'
      <4>1. CASE <<s, "favs">> \in uncounted \/ db'[ShopRow(s)] # Live
        BY <1>1, <4>1 DEF FavsAgree
      <4>2. CASE ~(<<s, "favs">> \in uncounted \/ db'[ShopRow(s)] # Live)
        <5>1. \A u \in Users : db'[FavRow(u, s)] = db[FavRow(u, s)]
          BY <1>10, <3>1, <4>2
        <5>2. \A u \in Users : Sees(k, FavRow(u, s))' = Sees(k, FavRow(u, s))
          BY <3>3, <5>1 DEF Sees
        <5>3. Favourites(k, s)' = Favourites(k, s)
          BY <5>2 DEF Favourites
        <5>4. db[ShopRow(s)] = Live
          BY <1>7, <4>2
        <5>. QED BY <1>1, <3>2, <4>2, <5>3, <5>4 DEF FavsAgree
      <4>. QED BY <4>1, <4>2
    <3>. QED BY <3>4, <3>5
  <2>9. Counted(k)'
    BY <2>8 DEF Counted
  <2>. QED BY <2>4, <2>6, <2>7, <2>9 DEF Books
<1>15. Books(j)'
  <2>1. \A r \in Row : lock'[r] # j
    BY <1>1
  <2>. QED BY <1>3, <2>1, OverBooks
<1>16. \A k \in Jobs : Books(k)'
  BY <1>14, <1>15
<1>. QED BY <1>4, <1>5, <1>6, <1>13, <1>16 DEF Drift

LEMMA AbortDrift == ASSUME Drift, NEW j \in Jobs, Abort(j) PROVE Drift'
<1> USE RowsAreRows, AllRowsAreRows, Names
<1>1. /\ \A r \in Row : lock[r] = j => draft'[r] = db[r] /\ lock'[r] = Nobody
      /\ \A r \in Row : lock[r] # j => draft'[r] = draft[r] /\ lock'[r] = lock[r]
      /\ DOMAIN draft' = Row /\ DOMAIN lock' = Row /\ db' = db /\ uncounted' = uncounted
  BY DEF Abort, Unlocked
<1>2. /\ Types /\ Decisions /\ Gone /\ Committed /\ \A k \in Jobs : Books(k)
  BY DEF Drift
<1>3. /\ DOMAIN job' = Jobs /\ job'[j] = Blank("done")
      /\ \A k \in Jobs \ {j} : job'[k] = job[k]
  BY <1>2 DEF Abort, Becomes, Types
<1>4. Types'
  <2>1. /\ TablesTyped(db) /\ TablesTyped(draft) /\ lock \in [Row -> Jobs \union {Nobody}]
        /\ \A r \in Row : lock[r] = Nobody => draft[r] = db[r]
        /\ uncounted \subseteq Shops \X {"reviews", "favs"}
        /\ \A k \in Jobs : JobTyped(job[k])
    BY <1>2 DEF Types
  <2>2. TablesTyped(db)' /\ TablesTyped(draft)'
    BY <1>1, <2>1 DEF TablesTyped
  <2>3. lock' \in [Row -> Jobs \union {Nobody}]
    <3>1. lock' = [r \in Row |-> IF lock[r] = j THEN Nobody ELSE lock[r]]
      BY DEF Abort, Unlocked
    <3>. QED BY <2>1, <3>1
  <2>4. \A r \in Row : lock'[r] = Nobody => draft'[r] = db'[r]
    BY <1>1, <2>1
  <2>5. \A k \in Jobs : JobTyped(job'[k])
    BY <1>3, <2>1, BlankTyped
  <2>. QED BY <1>1, <1>3, <2>1, <2>2, <2>3, <2>4, <2>5 DEF Types
<1>5. Decisions'
  BY <1>1, <1>2 DEF Decisions, Becoming
<1>6. Gone' /\ Committed'
  BY <1>1, <1>2 DEF Gone, Committed, ReviewsAgree, FavsAgree
<1>7. ASSUME NEW k \in Jobs \ {j} PROVE Books(k)'
  <2>1. Books(k) /\ job'[k] = job[k]
    BY <1>2, <1>3
  <2>2. \A r \in Row : /\ lock'[r] = k <=> lock[r] = k
                       /\ lock[r] = k => draft'[r] = draft[r]
    BY <1>1
  <2>3. Hands(k)'
    <3>1. job[k].pc = "count" => job[k].post \in Posts
      BY <1>2 DEF Types, JobTyped
    <3>2. job[k].pc = "tally" => job[k].shop \in Shops
      BY <1>2 DEF Types, JobTyped
    <3>. QED BY <1>1, <2>1, <2>2, <3>1, <3>2 DEF Books, Hands
  <2>4. \A s \in Shops : Covered(k, s) => Covered(k, s)'
    BY <1>1, <2>1, <2>2 DEF Covered
  <2>5. ReckonsReviews(k)' /\ ReckonsFavs(k)'
    BY <1>1, <2>1, <2>2, <2>4 DEF Books, ReckonsReviews, ReckonsFavs
  <2>6. \A r \in Row : Sees(k, r)' = Sees(k, r)
    BY <1>1, <2>2 DEF Sees
  <2>7. \A s \in Shops : Reviews(k, s)' = Reviews(k, s) /\ Favourites(k, s)' = Favourites(k, s)
    BY <2>6 DEF Reviews, Favourites
  <2>8. Counted(k)'
    BY <1>1, <2>1, <2>2, <2>7 DEF Books, Counted, ReviewsAgree, FavsAgree
  <2>. QED BY <2>3, <2>5, <2>8 DEF Books
<1>8. Books(j)'
  <2>1. \A r \in Row : lock'[r] # j
    BY <1>1
  <2>. QED BY <1>3, <2>1, OverBooks
<1>9. \A k \in Jobs : Books(k)'
  BY <1>7, <1>8
<1>. QED BY <1>4, <1>5, <1>6, <1>9 DEF Drift

(***************************************************************************)
(* The theorems about numbers and decisions                                *)
(***************************************************************************)
LEMMA InitDrift == Init => Drift
<1> SUFFICES ASSUME Init PROVE Drift
  OBVIOUS
<1>1. PICK at \in [Posts -> Shops], state \in [Posts -> {"absent", "held", "published"}],
             given \in [Proofs -> Shops \union {None}] :
        db = [r \in Row |->
            CASE r[1] = "post" ->
                   [shop |-> IF state[r[2]] = "absent" THEN None ELSE at[r[2]],
                    state |-> state[r[2]], proof |-> None]
              [] r[1] = "proof" ->
                   [shop |-> given[r[2]],
                    state |-> IF given[r[2]] = None THEN "absent" ELSE "open"]
              [] r[1] = "fav" -> FALSE
              [] r[1] = "stats" ->
                   [reviews |-> Cardinality({p \in Posts : state[p] = "published" /\ at[p] = r[2]}),
                    favs |-> 0,
                    missed |-> {}]
              [] r[1] = "shop" -> Live
              [] r[1] = "user" -> "active"]
  BY DEF Init, Settled
<1>2. ASSUME NEW p \in Posts
      PROVE  db[PostRow(p)] = [shop |-> IF state[p] = "absent" THEN None ELSE at[p],
                               state |-> state[p], proof |-> None]
  <2>1. PostRow(p)[2] = p
    BY DEF PostRow
  <2>. QED BY <1>1, <2>1, RowsAreRows, AllRowsAreRows, RowsApart, AllRowsApart
<1>3. ASSUME NEW v \in Proofs
      PROVE  db[ProofRow(v)] = [shop |-> given[v],
                                state |-> IF given[v] = None THEN "absent" ELSE "open"]
  <2>1. ProofRow(v)[2] = v
    BY DEF ProofRow
  <2>. QED BY <1>1, <2>1, RowsAreRows, AllRowsAreRows, RowsApart, AllRowsApart
<1>4. \A u \in Users, s \in Shops : db[FavRow(u, s)] = FALSE
  BY <1>1, AllRowsAreRows, AllRowsApart
<1>5. ASSUME NEW s \in Shops
      PROVE  db[StatsRow(s)] =
               [reviews |-> Cardinality({p \in Posts : state[p] = "published" /\ at[p] = s}),
                favs |-> 0, missed |-> {}]
  <2>1. StatsRow(s)[2] = s
    BY DEF StatsRow
  <2>. QED BY <1>1, <2>1, RowsAreRows, AllRowsAreRows, RowsApart, AllRowsApart
<1>6. /\ \A s \in Shops : db[ShopRow(s)] = Live
      /\ \A u \in Users : db[UserRow(u)] = "active"
      /\ DOMAIN db = Row
  BY <1>1, AllRowsAreRows, AllRowsApart
<1>7. TablesTyped(db)
  <2>1. ASSUME NEW p \in Posts PROVE PostTyped(db[PostRow(p)])
    <3>1. at[p] \in Shops /\ state[p] \in {"absent", "held", "published"}
      OBVIOUS
    <3>2. db[PostRow(p)] = [shop |-> IF state[p] = "absent" THEN None ELSE at[p],
                            state |-> state[p], proof |-> None]
      BY <1>2
    <3>. QED BY <3>1, <3>2 DEF PostTyped, PostStates, Undeleted
  <2>2. ASSUME NEW v \in Proofs PROVE ProofTyped(db[ProofRow(v)])
    <3>1. given[v] \in Shops \union {None}
      OBVIOUS
    <3>2. db[ProofRow(v)] = [shop |-> given[v],
                             state |-> IF given[v] = None THEN "absent" ELSE "open"]
      BY <1>3
    <3>. QED BY <3>1, <3>2 DEF ProofTyped, ProofStates
  <2>3. ASSUME NEW s \in Shops PROVE StatsTyped(db[StatsRow(s)])
    <3>1. PICK n : n = Cardinality({p \in Posts : state[p] = "published" /\ at[p] = s})
      OBVIOUS
    <3>2. n \in Nat
      BY <3>1, NumbersAreNumbers
    <3>3. db[StatsRow(s)] = [reviews |-> n, favs |-> 0, missed |-> {}]
      BY <1>5, <3>1
    <3>. QED BY <3>2, <3>3 DEF StatsTyped
  <2>. QED BY <1>4, <1>6, <2>1, <2>2, <2>3 DEF TablesTyped
<1>8. draft = db /\ lock = [r \in Row |-> Nobody] /\ job = [j \in Jobs |-> Blank("idle")]
      /\ uncounted = {}
  BY DEF Init
<1>9. JobTyped(Blank("idle")) /\ Blank("idle").pc = "idle"
  BY DEF JobTyped, JobShape, Blank, Kinds, Pcs, Moving
<1>10. Types
  BY <1>7, <1>8, <1>9 DEF Types
<1>11. Decisions /\ Gone
  BY <1>8 DEF Decisions, Gone, Becoming
<1>12. ASSUME NEW s \in Shops
       PROVE  /\ ReviewsAgree(db[StatsRow(s)], s, Cardinality({p \in Posts : Shown(db[PostRow(p)], s)}))
              /\ FavsAgree(db[StatsRow(s)], s, Cardinality({u \in Users : db[FavRow(u, s)]}))
  <2>1. {p \in Posts : Shown(db[PostRow(p)], s)} = {p \in Posts : state[p] = "published" /\ at[p] = s}
    <3>1. ASSUME NEW p \in Posts
          PROVE  Shown(db[PostRow(p)], s) <=> state[p] = "published" /\ at[p] = s
      <4>1. PICK shop : shop = (IF state[p] = "absent" THEN None ELSE at[p])
        OBVIOUS
      <4>2. db[PostRow(p)] = [shop |-> shop, state |-> state[p], proof |-> None]
        BY <1>2, <4>1
      <4>. QED BY <4>1, <4>2 DEF Shown
    <3>. QED BY <3>1
  <2>2. {u \in Users : db[FavRow(u, s)]} = {}
    BY <1>4
  <2>3. db[StatsRow(s)].reviews = Cardinality({p \in Posts : state[p] = "published" /\ at[p] = s})
        /\ db[StatsRow(s)].favs = 0
    <3>1. PICK n : n = Cardinality({p \in Posts : state[p] = "published" /\ at[p] = s})
      OBVIOUS
    <3>2. db[StatsRow(s)] = [reviews |-> n, favs |-> 0, missed |-> {}]
      BY <1>5, <3>1
    <3>. QED BY <3>1, <3>2
  <2>. QED BY <2>1, <2>2, <2>3, FS_EmptySet DEF ReviewsAgree, FavsAgree
<1>13. Committed
  BY <1>12 DEF Committed
<1>14. ASSUME NEW j \in Jobs PROVE Books(j)
  <2>1. \A r \in Row : lock[r] # j
    BY <1>8, Names
  <2>2. job[j].pc = "idle"
    BY <1>8, <1>9
  <2>. QED BY <2>1, <2>2, RowsAreRows, AllRowsAreRows
       DEF Books, Hands, ReckonsReviews, ReckonsFavs, Counted
<1>. QED BY <1>10, <1>11, <1>13, <1>14 DEF Drift

LEMMA NextDrift == Inv /\ Drift /\ [Next]_vars => Drift'
<1> SUFFICES ASSUME Inv, Drift, [Next]_vars PROVE Drift'
  OBVIOUS
<1>1. CASE UNCHANGED vars
  <2>1. \A j, s : Reviews(j, s)' = Reviews(j, s) /\ Favourites(j, s)' = Favourites(j, s)
    BY <1>1 DEF vars, Reviews, Favourites, Sees
  <2>2. Types' /\ Decisions' /\ Gone' /\ Committed'
    BY <1>1 DEF vars, Drift, Types, TablesTyped, Decisions, Gone, Committed, ReviewsAgree, FavsAgree
  <2>3. ASSUME NEW j \in Jobs PROVE Books(j)'
    <3>1. Books(j)
      BY DEF Drift
    <3>2. Hands(j)' /\ ReckonsReviews(j)' /\ ReckonsFavs(j)'
      BY <1>1, <3>1 DEF vars, Books, Hands, ReckonsReviews, ReckonsFavs, Covered
    <3>3. Counted(j)'
      BY <1>1, <2>1, <3>1 DEF vars, Books, Counted, ReviewsAgree, FavsAgree
    <3>. QED BY <3>2, <3>3 DEF Books
  <2>. QED BY <2>2, <2>3 DEF Drift
<1>2. CASE Next
  <2> PICK j \in Jobs :
    \/ Arrive(j) \/ Begin(j) \/ Insert(j) \/ CountOne(j)
    \/ Delete(j) \/ Decide(j) \/ Recount(j) \/ Write(j)
    \/ Favourite(j) \/ Tally(j) \/ VerifyVisit(j)
    \/ LockAccount(j) \/ Wipe(j)
    \/ Merge(j) \/ MovePosts(j) \/ MoveVisits(j) \/ CopyFavourites(j)
    \/ ClearFavourites(j) \/ UpdateKept(j) \/ Retire(j)
    \/ Commit(j) \/ Abort(j)
    BY <1>2 DEF Next
  <2> QED  BY ArriveDrift, BeginDrift, InsertDrift, CountOneDrift, DeleteDrift, DecideDrift,
              RecountDrift, WriteDrift, FavouriteDrift, TallyDrift, VerifyVisitDrift,
              LockAccountDrift, WipeDrift, MergeDrift, MovePostsDrift, MoveVisitsDrift,
              CopyFavouritesDrift, ClearFavouritesDrift, UpdateKeptDrift, RetireDrift,
              CommitDrift, AbortDrift
<1> QED  BY <1>1, <1>2

\* Both invariants hold together: the second needs of the first that a review
\* about to be inserted was never there.
THEOREM DriftInvariant == Spec => [](Inv /\ Drift)
<1>1. Init => Inv /\ Drift
  BY InitInv, InitDrift
<1>2. (Inv /\ Drift) /\ [Next]_vars => (Inv /\ Drift)'
  BY NextKeeps, NextDrift
<1>. QED BY <1>1, <1>2, PTL DEF Spec

\* The numbers of a shop that is there are those of its rows, whoever writes, deletes,
\* decides, likes or merges at the same time, but for a recount overtaken before it
\* wrote and for an account's deletion (refreshStoreStats, the increments of CreateReview
\* and Favorite); and every row has its type.
THEOREM DriftHasACauseHolds == Spec => []DriftHasACause
<1>1. Drift => DriftHasACause
  <2> SUFFICES ASSUME Drift PROVE DriftHasACause
    OBVIOUS
  <2>1. Types /\ Committed
    BY DEF Drift
  <2>2. Typed(db) /\ Typed(draft)
    BY <2>1 DEF Types, TablesTyped, Typed, PostTyped, ProofTyped, StatsTyped
  <2>3. TypeOK
    BY <2>1, <2>2 DEF Types, TypeOK
  <2>. QED BY <2>1, <2>3 DEF DriftHasACause, Committed, ReviewsAgree, FavsAgree
<1>. QED BY <1>1, DriftInvariant, PTL

\* No review comes back once it was deleted or removed, and none that readers see is taken
\* down but by a deletion (DecideReview's guard on 'held', the guards of DeletePost,
\* DeleteReview, DeleteAccount and MergeStores).
THEOREM DecisionsStandHolds == Spec => DecisionsStand
<1> DEFINE A == \A p \in Posts : Becoming(db[PostRow(p)].state, db'[PostRow(p)].state)
<1>1. ASSUME Drift, [Next]_vars PROVE A
  <2>1. CASE db' = db
    BY <2>1 DEF Becoming
  <2>2. ASSUME NEW j \in Jobs, Commit(j) PROVE A
    BY <1>1, <2>2, RowsAreRows DEF Commit, Sees, Drift, Decisions, Becoming
  <2>3. CASE UNCHANGED vars
    BY <2>1, <2>3 DEF vars
  <2>4. CASE Next
    <3> PICK j \in Jobs :
      \/ Arrive(j) \/ Begin(j) \/ Insert(j) \/ CountOne(j)
      \/ Delete(j) \/ Decide(j) \/ Recount(j) \/ Write(j)
      \/ Favourite(j) \/ Tally(j) \/ VerifyVisit(j)
      \/ LockAccount(j) \/ Wipe(j)
      \/ Merge(j) \/ MovePosts(j) \/ MoveVisits(j) \/ CopyFavourites(j)
      \/ ClearFavourites(j) \/ UpdateKept(j) \/ Retire(j)
      \/ Commit(j) \/ Abort(j)
      BY <2>4 DEF Next
    <3>1. CASE Arrive(j) \/ Recount(j) \/ Merge(j) \/ Abort(j)
      BY <2>1, <3>1 DEF Arrive, Recount, Merge, Abort
    <3>2. CASE Begin(j) \/ Insert(j) \/ CountOne(j) \/ Write(j) \/ Tally(j) \/ UpdateKept(j) \/ Retire(j)
      BY <2>1, <3>2 DEF Begin, Insert, CountOne, Write, Tally, UpdateKept, Retire, Put1, Put
    <3>3. CASE Delete(j) \/ Decide(j) \/ Favourite(j) \/ VerifyVisit(j) \/ LockAccount(j)
      BY <2>1, <3>3 DEF Delete, Decide, Favourite, VerifyVisit, LockAccount, Put1, Put
    <3>4. CASE Wipe(j) \/ MovePosts(j) \/ MoveVisits(j) \/ CopyFavourites(j) \/ ClearFavourites(j)
      BY <2>1, <3>4 DEF Wipe, MovePosts, MoveVisits, Move, CopyFavourites, ClearFavourites, Put
    <3>5. CASE Commit(j)
      BY <2>2, <3>5
    <3> QED BY <3>1, <3>2, <3>3, <3>4, <3>5
  <2> QED BY <1>1, <2>3, <2>4
<1>2. (Inv /\ Drift) /\ [Next]_vars =>
        [\A p \in Posts :
         LET now == db[PostRow(p)].state
             then == db'[PostRow(p)].state
         IN  /\ now = "deleted" => then = "deleted"
             /\ now \in {"removed", "published"} => then \in {now, "deleted"}]_vars
  BY <1>1 DEF Becoming
<1>. QED BY <1>2, DriftInvariant, PTL DEF Spec, DecisionsStand
=============================================================================
