-------------------------- MODULE ReadCacheProofs --------------------------
(***************************************************************************)
(* What ReadCache promises, for any keys, requests, writers and budget, of *)
(* every answer no import changed unannounced: no entry is older than a    *)
(* write that was answered, and no reader is served one.                   *)
(*                                                                         *)
(* Which entries the budget evicts plays no part in that argument, which   *)
(* leaves the recency list and the count of bytes uninterpreted.           *)
(*                                                                         *)
(* The second part interprets them: the list, the groups and the count     *)
(* agree with the entries, and the budget is kept.                         *)
(***************************************************************************)
EXTENDS ReadCache, FiniteSetTheorems, WellFoundedInduction, TLAPS

held == cache.entries.held
version == cache.entries.version

\* A call that removes the answer under a key.
Covers(call, k) ==
    \/ call = "Clear"
    \/ call = "DropKeys" /\ k \in NearbyKeys
    \/ call = GroupOf[k]

Entries(e) ==
    /\ e = [held |-> e.held, version |-> e.version, fresh |-> e.fresh,
            index |-> e.index, order |-> e.order, bytes |-> e.bytes]
    /\ e.held \subseteq Keys
    /\ e.version \in [Keys -> Nat]
    /\ e.fresh \in [Keys -> BOOLEAN]
    /\ e.index \in [Groups -> SUBSET Keys]
    /\ \A k \in e.held : k \in e.index[GroupOf[k]]

Types ==
    /\ cache = [entries |-> cache.entries, drops |-> cache.drops]
    /\ Entries(cache.entries)
    /\ cache.drops \in Nat
    /\ shown \in [Keys -> Nat] /\ told \in [Keys -> Nat]
    /\ pc \in [Requests -> {"idle", "get", "hit", "mark", "build", "put", "built"}]
    /\ want \in [Requests -> Keys]
    /\ mark \in [Requests -> Nat] /\ body \in [Requests -> Nat]
    /\ floor \in [Requests -> Nat]
    /\ writes \in Nat
    /\ todo \in [Writers -> SUBSET Calls] /\ scope \in [Writers -> SUBSET Keys]
    /\ made \in [Writers -> Nat]
    /\ imported \subseteq Keys

Numbers ==
    /\ \A k \in Keys : told[k] <= shown[k] /\ shown[k] <= writes
    /\ \A w \in Writers : \A k \in scope[w] : made[w] <= shown[k]
    /\ \A r \in Requests : mark[r] <= cache.drops

\* A request whose answer may still be stored.
Storing(r, k) == pc[r] = "put" /\ want[r] = k /\ mark[r] = cache.drops

\* What is stored, or may still be, shows every write of number n or below.
Shows(k, n) ==
    /\ k \in held => version[k] >= n
    /\ \A r \in Requests : Storing(r, k) => body[r] >= n

\* A key a write changed is about to be dropped, or shows the write.
WriterInv ==
    \A w \in Writers : \A k \in scope[w] \ imported :
        (\E call \in todo[w] : Covers(call, k)) \/ Shows(k, made[w])

ToldInv == \A k \in Keys \ imported : Shows(k, told[k])

ReaderInv ==
    \A r \in Requests :
        /\ pc[r] = "get" => floor[r] <= told[want[r]]
        /\ pc[r] = "hit" /\ want[r] \notin imported => body[r] >= floor[r]

\* The inductive invariant.
IInv == Types /\ Numbers /\ WriterInv /\ ToldInv /\ ReaderInv

-----------------------------------------------------------------------------
(* The operators of the cache.                                              *)

\* Removing entries only removes: the rest keep their versions and groups.
LEMMA WithoutRemoves ==
    ASSUME NEW e, Entries(e), NEW S
    PROVE  /\ Entries(Without(e, S))
           /\ Without(e, S).held = e.held \ S
           /\ \A k \in e.held \ S : Without(e, S).version[k] = e.version[k]
<1> DEFINE f == Without(e, S)
<1>1. f.held = e.held \ S /\ f.held \subseteq Keys
  BY DEF Without, Entries
<1>2. f.version \in [Keys -> Nat] /\ f.fresh \in [Keys -> BOOLEAN]
  <2>1. \A k \in Keys : e.version[k] \in Nat /\ e.fresh[k] \in BOOLEAN
    BY DEF Entries
  <2>2. f.version = [k \in Keys |-> IF k \in S THEN 0 ELSE e.version[k]]
    BY DEF Without
  <2>3. f.fresh = [k \in Keys |-> k \notin S /\ e.fresh[k]]
    BY DEF Without
  <2> QED BY <2>1, <2>2, <2>3
<1>3. f.index = [g \in Groups |-> e.index[g] \ {k \in S : GroupOf[k] = g}]
  BY DEF Without
<1>4. f.index \in [Groups -> SUBSET Keys]
  BY <1>3 DEF Entries
<1>5. \A k \in f.held : k \in f.index[GroupOf[k]]
  BY <1>1, <1>3, CacheAssumption DEF Entries
<1>6. f = [held |-> f.held, version |-> f.version, fresh |-> f.fresh,
           index |-> f.index, order |-> f.order, bytes |-> f.bytes]
  BY DEF Without
<1>7. \A k \in e.held \ S : f.version[k] = e.version[k]
  BY DEF Without, Entries
<1> QED BY <1>1, <1>2, <1>4, <1>5, <1>6, <1>7 DEF Entries

\* A new entry is held with its version, under its group.
LEMMA WithFrontAdds ==
    ASSUME NEW e, Entries(e), NEW k \in Keys, NEW v \in Nat
    PROVE  /\ Entries(WithFront(e, k, v))
           /\ WithFront(e, k, v).held = e.held \cup {k}
           /\ WithFront(e, k, v).version = [e.version EXCEPT ![k] = v]
<1> DEFINE f == WithFront(e, k, v)
<1>1. f.held = e.held \cup {k} /\ f.version = [e.version EXCEPT ![k] = v]
  BY DEF WithFront
<1>2. f.held \subseteq Keys /\ f.version \in [Keys -> Nat]
  BY <1>1 DEF Entries
<1>3. f.fresh \in [Keys -> BOOLEAN]
  <2>1. f.fresh = [e.fresh EXCEPT ![k] = TRUE]
    BY DEF WithFront
  <2> QED BY <2>1 DEF Entries
<1>4. f.index = [e.index EXCEPT ![GroupOf[k]] = @ \cup {k}]
  BY DEF WithFront
<1>5. f.index \in [Groups -> SUBSET Keys]
  BY <1>4, CacheAssumption DEF Entries
<1>6. \A j \in f.held : j \in f.index[GroupOf[j]]
  BY <1>1, <1>4, CacheAssumption DEF Entries
<1>7. f = [held |-> f.held, version |-> f.version, fresh |-> f.fresh,
           index |-> f.index, order |-> f.order, bytes |-> f.bytes]
  BY DEF WithFront
<1> QED BY <1>1, <1>2, <1>3, <1>5, <1>6, <1>7 DEF Entries

\* Put adds at most its own entry, whatever the budget makes it evict.
LEMMA StoredAdds ==
    ASSUME NEW e, Entries(e), NEW k \in Keys, NEW v \in Nat
    PROVE  /\ Entries(Stored(e, k, v))
           /\ Stored(e, k, v).held \subseteq e.held \cup {k}
           /\ \A j \in Stored(e, k, v).held :
                Stored(e, k, v).version[j] = IF j = k THEN v ELSE e.version[j]
<1> DEFINE d == Without(e, e.held \cap {k})
           p == WithFront(d, k, v)
           t == Without(p, Excess(p))
<1>1. Stored(e, k, v) = t
  BY DEF Stored
<1>2. Entries(d) /\ d.held = e.held \ {k}
      /\ \A j \in d.held : d.version[j] = e.version[j]
  <2>1. e.held \ (e.held \cap {k}) = e.held \ {k}
    OBVIOUS
  <2>2. /\ Entries(d) /\ d.held = e.held \ (e.held \cap {k})
        /\ \A j \in e.held \ (e.held \cap {k}) : d.version[j] = e.version[j]
    BY WithoutRemoves
  <2> HIDE DEF d
  <2> QED BY <2>1, <2>2
<1> HIDE DEF d
<1>3. Entries(p) /\ p.held = d.held \cup {k} /\ p.version = [d.version EXCEPT ![k] = v]
  BY <1>2, WithFrontAdds
<1> HIDE DEF p
<1>4. /\ Entries(t) /\ t.held = p.held \ Excess(p)
      /\ \A j \in p.held \ Excess(p) : t.version[j] = p.version[j]
  BY <1>3, WithoutRemoves
<1> HIDE DEF t
<1>5. t.held \subseteq e.held \cup {k}
  BY <1>2, <1>3, <1>4
<1>6. \A j \in t.held : t.version[j] = IF j = k THEN v ELSE e.version[j]
  <2> SUFFICES ASSUME NEW j \in t.held PROVE t.version[j] = IF j = k THEN v ELSE e.version[j]
    OBVIOUS
  <2>1. j \in p.held /\ t.version[j] = p.version[j]
    BY <1>4
  <2>2. j \in Keys /\ d.version \in [Keys -> Nat]
    BY <1>2, <1>3, <2>1 DEF Entries
  <2>3. p.version[j] = IF j = k THEN v ELSE d.version[j]
    BY <1>3, <2>2
  <2>4. j # k => j \in d.held
    BY <1>3, <2>1
  <2> QED BY <1>2, <2>1, <2>3, <2>4
<1> QED BY <1>1, <1>4, <1>5, <1>6

-----------------------------------------------------------------------------
(* The initial states.                                                      *)

LEMMA InitInv == Init => IInv
<1> SUFFICES ASSUME Init PROVE IInv
  OBVIOUS
<1> USE DEF Init, New, Empty
<1>1. Types
  <2>1. cache = [entries |-> cache.entries, drops |-> cache.drops] /\ cache.drops \in Nat
    OBVIOUS
  <2>2. Entries(cache.entries)
    BY DEF Entries
  <2>3. want \in [Requests -> Keys]
    BY CacheAssumption
  <2> QED BY <2>1, <2>2, <2>3 DEF Types, Calls
<1>2. Numbers
  BY DEF Numbers
<1>3. WriterInv
  BY DEF WriterInv
<1>4. ToldInv
  BY DEF ToldInv, Shows, Storing, held
<1>5. ReaderInv
  BY DEF ReaderInv
<1> QED BY <1>1, <1>2, <1>3, <1>4, <1>5 DEF IInv

-----------------------------------------------------------------------------
(* The steps of a request.                                                  *)

\* A step that leaves the writers and the database alone, stores nothing and
\* lets no request start storing keeps what is shown.
LEMMA NothingStored ==
    ASSUME IInv, Types',
           UNCHANGED <<shown, told, writerVars>>,
           cache'.drops = cache.drops,
           cache'.entries.held \subseteq held,
           \A k \in cache'.entries.held : cache'.entries.version[k] = version[k],
           \A r \in Requests : mark'[r] <= cache.drops,
           \A r \in Requests, k \in Keys : Storing(r, k)' =>
               Storing(r, k) /\ body'[r] = body[r]
    PROVE  Numbers' /\ WriterInv' /\ ToldInv'
<1> USE DEF writerVars
<1>1. \A k \in Keys, n \in Nat : Shows(k, n) => Shows(k, n)'
  BY DEF Shows, held, version
<1>2. Numbers'
  BY DEF IInv, Numbers
<1>3. WriterInv'
  <2> SUFFICES ASSUME NEW w \in Writers, NEW k \in scope[w] \ imported
               PROVE  (\E call \in todo[w] : Covers(call, k)) \/ Shows(k, made[w])'
    BY DEF WriterInv, Covers
  <2>1. (\E call \in todo[w] : Covers(call, k)) \/ Shows(k, made[w])
    BY DEF IInv, WriterInv
  <2>2. k \in Keys /\ made[w] \in Nat
    BY DEF IInv, Types
  <2>3. Shows(k, made[w]) => Shows(k, made[w])'
    BY <1>1, <2>2
  <2> QED BY <2>1, <2>3
<1>4. ToldInv'
  <2> SUFFICES ASSUME NEW k \in Keys \ imported' PROVE Shows(k, told[k])'
    BY DEF ToldInv
  <2>1. Shows(k, told[k]) /\ told[k] \in Nat
    BY DEF IInv, ToldInv, Types
  <2> QED BY <1>1, <2>1
<1> QED BY <1>2, <1>3, <1>4

LEMMA ArriveStep == ASSUME IInv, NEW r \in Requests, Arrive(r) PROVE IInv'
<1> USE DEF Arrive, Goto
<1>1. Types'
  BY DEF IInv, Types, writerVars
<1>2. \A q \in Requests, k \in Keys : Storing(q, k)' => Storing(q, k) /\ body'[q] = body[q]
  BY DEF Storing, IInv, Types
<1>3. \A q \in Requests : mark'[q] <= cache.drops
  BY DEF IInv, Numbers
<1>4. Numbers' /\ WriterInv' /\ ToldInv'
  BY <1>1, <1>2, <1>3, NothingStored DEF held, version
<1>5. ReaderInv'
  BY DEF IInv, Types, ReaderInv, writerVars
<1> QED BY <1>1, <1>4, <1>5 DEF IInv

LEMMA HitStep == ASSUME IInv, NEW r \in Requests, Hit(r) PROVE IInv'
<1> USE DEF Hit, Goto
<1> DEFINE e == cache.entries
           o == {p \in e.order : p[2] # want[r]} \cup ({want[r]} \X (e.held \ {want[r]}))
<1>1. /\ cache'.entries = [held |-> e.held, version |-> e.version, fresh |-> e.fresh,
                           index |-> e.index, order |-> o, bytes |-> e.bytes]
      /\ cache'.drops = cache.drops
      /\ cache' = [entries |-> cache'.entries, drops |-> cache'.drops]
  <2>1. cache = [entries |-> e, drops |-> cache.drops]
    BY DEF IInv, Types
  <2>2. e = [held |-> e.held, version |-> e.version, fresh |-> e.fresh,
             index |-> e.index, order |-> e.order, bytes |-> e.bytes]
    BY DEF IInv, Types, Entries
  <2>3. cache' = [cache EXCEPT !.entries = [e EXCEPT !.order = o]]
    OBVIOUS
  <2> HIDE DEF o, e
  <2>4. [e EXCEPT !.order = o]
        = [held |-> e.held, version |-> e.version, fresh |-> e.fresh,
           index |-> e.index, order |-> o, bytes |-> e.bytes]
    BY <2>2
  <2> QED BY <2>1, <2>3, <2>4
<1> HIDE DEF o
<1>2. Entries(cache'.entries)
  BY <1>1 DEF IInv, Types, Entries
<1>3. want[r] \in e.held /\ version[want[r]] \in Nat
  BY DEF IInv, Types, Entries, version
<1>4. Types'
  BY <1>1, <1>2, <1>3 DEF IInv, Types, writerVars, version
<1>5. \A q \in Requests, k \in Keys : Storing(q, k)' => Storing(q, k) /\ body'[q] = body[q]
  BY <1>1 DEF Storing, IInv, Types
<1>6. Numbers' /\ WriterInv' /\ ToldInv'
  <2>1. \A q \in Requests : mark'[q] <= cache.drops
    BY DEF IInv, Numbers
  <2>2. \A k \in cache'.entries.held : cache'.entries.version[k] = version[k]
    BY <1>1 DEF version
  <2>3. cache'.entries.held \subseteq held
    <3>1. cache'.entries.held = cache.entries.held
      BY <1>1
    <3> QED BY <3>1 DEF held
  <2>4. UNCHANGED <<shown, told, writerVars>>
    OBVIOUS
  <2> QED BY <1>1, <1>4, <1>5, <2>1, <2>2, <2>3, <2>4, NothingStored
<1>7. ReaderInv'
  <2>1. /\ floor[r] <= told[want[r]]
        /\ want[r] \notin imported => version[want[r]] >= told[want[r]]
    BY <1>3 DEF IInv, ReaderInv, ToldInv, Shows, held, Types
  <2>2. body'[r] = version[want[r]] /\ floor'[r] = floor[r]
    BY DEF IInv, Types, version
  <2>3. want[r] \notin imported => body'[r] >= floor'[r]
    <3>1. floor[r] \in Nat /\ told[want[r]] \in Nat
      BY DEF IInv, Types
    <3> QED BY <1>3, <2>1, <2>2, <3>1
  <2> QED BY <2>3 DEF IInv, ReaderInv, Types, writerVars
<1> QED BY <1>4, <1>6, <1>7 DEF IInv

LEMMA MissStep == ASSUME IInv, NEW r \in Requests, Miss(r) PROVE IInv'
<1> USE DEF Miss, Goto
<1> DEFINE S == cache.entries.held \cap {want[r]}
           e == Without(cache.entries, S)
<1>1. /\ cache'.entries = e /\ cache'.drops = cache.drops
      /\ cache' = [entries |-> cache'.entries, drops |-> cache'.drops]
  <2>1. cache = [entries |-> cache.entries, drops |-> cache.drops]
    BY DEF IInv, Types
  <2>2. cache' = [cache EXCEPT !.entries = e]
    OBVIOUS
  <2> HIDE DEF e
  <2> QED BY <2>1, <2>2
<1>2. /\ Entries(e) /\ e.held = held \ S
      /\ \A k \in held \ S : e.version[k] = version[k]
  BY WithoutRemoves DEF IInv, Types, held, version
<1> HIDE DEF e
<1>3. Types'
  BY <1>1, <1>2 DEF IInv, Types, writerVars
<1>4. Numbers' /\ WriterInv' /\ ToldInv'
  <2>1. \A q \in Requests : mark'[q] <= cache.drops
    BY DEF IInv, Numbers
  <2>2. \A q \in Requests, k \in Keys : Storing(q, k)' => Storing(q, k) /\ body'[q] = body[q]
    BY <1>1 DEF Storing, IInv, Types
  <2>3. /\ cache'.entries.held \subseteq held
        /\ \A k \in cache'.entries.held : cache'.entries.version[k] = version[k]
    BY <1>1, <1>2
  <2> QED BY <1>1, <1>3, <2>1, <2>2, <2>3, NothingStored
<1>5. ReaderInv'
  BY DEF IInv, Types, ReaderInv, writerVars
<1> QED BY <1>3, <1>4, <1>5 DEF IInv

LEMMA MarkStep == ASSUME IInv, NEW r \in Requests, Mark(r) PROVE IInv'
<1> USE DEF Mark, Goto
<1>1. Types'
  BY DEF IInv, Types, writerVars
<1>2. \A q \in Requests, k \in Keys : Storing(q, k)' => Storing(q, k) /\ body'[q] = body[q]
  BY DEF Storing, IInv, Types
<1>3. \A q \in Requests : mark'[q] <= cache.drops
  BY DEF IInv, Numbers, Types
<1>4. Numbers' /\ WriterInv' /\ ToldInv'
  BY <1>1, <1>2, <1>3, NothingStored DEF held, version
<1>5. ReaderInv'
  BY DEF IInv, Types, ReaderInv, writerVars
<1> QED BY <1>1, <1>4, <1>5 DEF IInv

LEMMA PassStep == ASSUME IInv, NEW r \in Requests, Pass(r) PROVE IInv'
<1> USE DEF Pass, Goto
<1>1. Types'
  BY DEF IInv, Types, writerVars
<1>2. \A q \in Requests, k \in Keys : Storing(q, k)' => Storing(q, k) /\ body'[q] = body[q]
  BY DEF Storing, IInv, Types
<1>3. \A q \in Requests : mark'[q] <= cache.drops
  BY DEF IInv, Numbers
<1>4. Numbers' /\ WriterInv' /\ ToldInv'
  BY <1>1, <1>2, <1>3, NothingStored DEF held, version
<1>5. ReaderInv'
  BY DEF IInv, Types, ReaderInv, writerVars
<1> QED BY <1>1, <1>4, <1>5 DEF IInv

LEMMA LeaveStep == ASSUME IInv, NEW r \in Requests, Leave(r) PROVE IInv'
<1> USE DEF Leave, Goto
<1>1. Types'
  BY DEF IInv, Types, writerVars
<1>2. \A q \in Requests, k \in Keys : Storing(q, k)' => Storing(q, k) /\ body'[q] = body[q]
  BY DEF Storing, IInv, Types
<1>3. \A q \in Requests : mark'[q] <= cache.drops
  BY DEF IInv, Numbers, Types
<1>4. Numbers' /\ WriterInv' /\ ToldInv'
  BY <1>1, <1>2, <1>3, NothingStored DEF held, version
<1>5. ReaderInv'
  BY DEF IInv, Types, ReaderInv, writerVars
<1> QED BY <1>1, <1>4, <1>5 DEF IInv

\* What the database answers now shows every write that changed the key.
LEMMA BuildStep == ASSUME IInv, NEW r \in Requests, Build(r) PROVE IInv'
<1> USE DEF Build, Goto
<1>1. Types'
  BY DEF IInv, Types, writerVars
<1>2. Numbers'
  BY DEF IInv, Numbers, writerVars
<1>3. \A k \in Keys, n \in Nat : Shows(k, n) /\ n <= shown[k] => Shows(k, n)'
  <2> SUFFICES ASSUME NEW k \in Keys, NEW n \in Nat, Shows(k, n), n <= shown[k],
                      NEW q \in Requests, Storing(q, k)'
               PROVE  body'[q] >= n
    BY DEF Shows, held, version
  <2>1. CASE q = r
    BY <2>1 DEF Storing, IInv, Types
  <2>2. CASE q # r
    BY <2>2 DEF Storing, Shows, IInv, Types
  <2> QED BY <2>1, <2>2
<1>4. WriterInv'
  <2> SUFFICES ASSUME NEW w \in Writers, NEW k \in scope[w] \ imported
               PROVE  (\E call \in todo[w] : Covers(call, k)) \/ Shows(k, made[w])'
    BY DEF WriterInv, Covers, writerVars
  <2>1. (\E call \in todo[w] : Covers(call, k)) \/ Shows(k, made[w])
    BY DEF IInv, WriterInv
  <2>2. k \in Keys /\ made[w] \in Nat /\ made[w] <= shown[k] /\ made'[w] = made[w]
    BY DEF IInv, Types, Numbers, writerVars
  <2>3. Shows(k, made[w]) => Shows(k, made[w])'
    BY <1>3, <2>2
  <2> QED BY <2>1, <2>3
<1>5. ToldInv'
  <2> SUFFICES ASSUME NEW k \in Keys \ imported' PROVE Shows(k, told[k])'
    BY DEF ToldInv
  <2>1. Shows(k, told[k]) /\ told[k] \in Nat /\ told[k] <= shown[k] /\ told'[k] = told[k]
    BY DEF IInv, ToldInv, Types, Numbers, writerVars
  <2> QED BY <1>3, <2>1
<1>6. ReaderInv'
  BY DEF IInv, Types, ReaderInv, writerVars
<1> QED BY <1>1, <1>2, <1>4, <1>5, <1>6 DEF IInv

\* What is stored is what the request could have stored: Put's comparison of
\* the mark is what makes Storing hold here.
LEMMA PutStep == ASSUME IInv, NEW r \in Requests, Put(r) PROVE IInv'
<1> USE DEF Put, Goto
<1> DEFINE e == Stored(cache.entries, want[r], body[r])
<1>1. /\ cache'.entries = e /\ cache'.drops = cache.drops
      /\ cache' = [entries |-> cache'.entries, drops |-> cache'.drops]
  <2>1. cache = [entries |-> cache.entries, drops |-> cache.drops]
    BY DEF IInv, Types
  <2>2. cache' = [cache EXCEPT !.entries = e]
    OBVIOUS
  <2> HIDE DEF e
  <2> QED BY <2>1, <2>2
<1>2. /\ Entries(e) /\ e.held \subseteq held \cup {want[r]}
      /\ \A k \in e.held : e.version[k] = IF k = want[r] THEN body[r] ELSE version[k]
  <2>1. want[r] \in Keys /\ body[r] \in Nat /\ Entries(cache.entries)
    BY DEF IInv, Types
  <2> QED BY <2>1, StoredAdds DEF held, version
<1> HIDE DEF e
<1>3. Types'
  BY <1>1, <1>2 DEF IInv, Types, writerVars
<1>4. Numbers'
  BY <1>1 DEF IInv, Numbers, writerVars
<1>5. \A k \in Keys, n \in Nat : Shows(k, n) => Shows(k, n)'
  <2> SUFFICES ASSUME NEW k \in Keys, NEW n \in Nat, Shows(k, n) PROVE Shows(k, n)'
    OBVIOUS
  <2>1. Storing(r, want[r])
    BY DEF Storing
  <2>2. want[r] = k => body[r] >= n
    BY <2>1 DEF Shows
  <2>3. k \in e.held => e.version[k] >= n
    BY <1>2, <2>2 DEF Shows
  <2>4. \A q \in Requests : Storing(q, k)' => Storing(q, k)
    BY <1>1 DEF Storing, IInv, Types
  <2>5. \A q \in Requests : Storing(q, k)' => body'[q] >= n
    BY <2>4 DEF Shows
  <2>6. held' = e.held /\ version' = e.version
    BY <1>1 DEF held, version
  <2> QED BY <2>3, <2>5, <2>6 DEF Shows
<1>6. WriterInv'
  <2> SUFFICES ASSUME NEW w \in Writers, NEW k \in scope[w] \ imported
               PROVE  (\E call \in todo[w] : Covers(call, k)) \/ Shows(k, made[w])'
    BY DEF WriterInv, Covers, writerVars
  <2>1. (\E call \in todo[w] : Covers(call, k)) \/ Shows(k, made[w])
    BY DEF IInv, WriterInv
  <2>2. k \in Keys /\ made[w] \in Nat /\ made'[w] = made[w]
    BY DEF IInv, Types, writerVars
  <2>3. Shows(k, made[w]) => Shows(k, made[w])'
    BY <1>5, <2>2
  <2> QED BY <2>1, <2>3
<1>7. ToldInv'
  <2> SUFFICES ASSUME NEW k \in Keys \ imported' PROVE Shows(k, told[k])'
    BY DEF ToldInv
  <2>1. Shows(k, told[k]) /\ told[k] \in Nat /\ told'[k] = told[k]
    BY DEF IInv, ToldInv, Types, writerVars
  <2> QED BY <1>5, <2>1
<1>8. ReaderInv'
  BY DEF IInv, Types, ReaderInv, writerVars
<1> QED BY <1>3, <1>4, <1>6, <1>7, <1>8 DEF IInv

\* An expiry changes no answer.
LEMMA ExpireStep == ASSUME IInv, NEW k \in Keys, Expire(k) PROVE IInv'
<1> USE DEF Expire
<1> DEFINE e == cache.entries
           f == [e.fresh EXCEPT ![k] = FALSE]
<1>1. /\ cache'.entries = [held |-> e.held, version |-> e.version, fresh |-> f,
                           index |-> e.index, order |-> e.order, bytes |-> e.bytes]
      /\ cache'.drops = cache.drops
      /\ cache' = [entries |-> cache'.entries, drops |-> cache'.drops]
  <2>1. cache = [entries |-> e, drops |-> cache.drops]
    BY DEF IInv, Types
  <2>2. e = [held |-> e.held, version |-> e.version, fresh |-> e.fresh,
             index |-> e.index, order |-> e.order, bytes |-> e.bytes]
    BY DEF IInv, Types, Entries
  <2>3. cache' = [cache EXCEPT !.entries = [e EXCEPT !.fresh = f]]
    OBVIOUS
  <2> HIDE DEF f, e
  <2>4. [e EXCEPT !.fresh = f]
        = [held |-> e.held, version |-> e.version, fresh |-> f,
           index |-> e.index, order |-> e.order, bytes |-> e.bytes]
    BY <2>2
  <2> QED BY <2>1, <2>3, <2>4
<1>2. f \in [Keys -> BOOLEAN]
  BY DEF IInv, Types, Entries
<1> HIDE DEF f
<1>3. Entries(cache'.entries)
  BY <1>1, <1>2 DEF IInv, Types, Entries
<1>4. Types'
  BY <1>1, <1>3 DEF IInv, Types, requestVars, writerVars
<1>5. Numbers' /\ WriterInv' /\ ToldInv'
  <2>1. \A q \in Requests : mark'[q] <= cache.drops
    BY DEF IInv, Numbers, requestVars
  <2>2. \A q \in Requests, j \in Keys : Storing(q, j)' => Storing(q, j) /\ body'[q] = body[q]
    BY <1>1 DEF Storing, requestVars
  <2>3. cache'.entries.held = cache.entries.held /\ cache'.entries.version = cache.entries.version
    BY <1>1
  <2>4. /\ cache'.entries.held \subseteq held
        /\ \A j \in cache'.entries.held : cache'.entries.version[j] = version[j]
    BY <2>3 DEF held, version
  <2> QED BY <1>1, <1>4, <2>1, <2>2, <2>4, NothingStored
<1>6. ReaderInv'
  BY DEF IInv, ReaderInv, requestVars, writerVars
<1> QED BY <1>4, <1>5, <1>6 DEF IInv

-----------------------------------------------------------------------------
(* The steps of a write.                                                    *)

\* forget makes a call for every answer the change can move.
LEMMA ForgetCovers ==
    ASSUME NEW c \in Changes
    PROVE  /\ Forget(c) \subseteq Calls
           /\ \A k \in Moved(c) : k \in Keys /\ \E call \in Forget(c) : Covers(call, k)
<1>1. c.stores \subseteq Shops /\ c.full \in BOOLEAN /\ c.all \in BOOLEAN
  BY DEF Changes
<1>2. Forget(c) \subseteq Calls
  BY <1>1, CacheAssumption DEF Forget, Calls, Shops
<1>3. ASSUME NEW k \in Moved(c) PROVE \E call \in Forget(c) : Covers(call, k)
  <2>1. CASE c.all
    BY <2>1 DEF Forget, Covers
  <2>2. CASE GroupOf[k] \in c.stores
    BY <2>2 DEF Forget, Covers
  <2>3. CASE c.full /\ k \in NearbyKeys
    BY <2>3 DEF Forget, Covers
  <2>4. CASE c.full /\ GroupOf[k] = Highlights
    BY <2>4 DEF Forget, Covers
  <2> QED BY <1>3, <2>1, <2>2, <2>3, <2>4 DEF Moved
<1> QED BY <1>2, <1>3 DEF Moved

\* A write that changes the answers its announcement covers and those in X.
LEMMA CommitStep ==
    ASSUME IInv, NEW w \in Writers, NEW c \in Changes, NEW X \in SUBSET Keys,
           Commit(w, c, Moved(c) \cup X)
    PROVE  IInv'
<1> USE DEF Commit
<1>2. /\ Forget(c) \subseteq Calls
      /\ \A k \in Moved(c) : k \in Keys /\ \E call \in Forget(c) : Covers(call, k)
  BY ForgetCovers
<1>3. Moved(c) \subseteq Keys
  BY <1>2
<1> DEFINE C == Moved(c) \cup X
           F == Forget(c)
<1> HIDE DEF C, F
<1>4. /\ shown' = [k \in Keys |-> IF k \in C THEN writes + 1 ELSE shown[k]]
      /\ made' = [made EXCEPT ![w] = writes + 1] /\ scope' = [scope EXCEPT ![w] = C]
      /\ todo' = [todo EXCEPT ![w] = F] /\ writes' = writes + 1
      /\ UNCHANGED <<cache, told, requestVars>>
      /\ C \subseteq Keys /\ F \subseteq Calls
      /\ imported' \subseteq Keys /\ imported \subseteq imported'
      /\ \A k \in C \ imported' : \E call \in F : Covers(call, k)
  BY <1>2, <1>3 DEF C, F, IInv, Types
<1>5. Types'
  <2>1. shown' \in [Keys -> Nat]
    BY <1>4 DEF IInv, Types
  <2> QED BY <1>4, <2>1 DEF IInv, Types, requestVars
<1>6. \A k \in Keys : shown[k] <= shown'[k] /\ shown'[k] <= writes'
  BY <1>4 DEF IInv, Types, Numbers
<1>7. Numbers'
  <2>1. \A k \in Keys : told'[k] <= shown'[k] /\ shown'[k] <= writes'
    BY <1>4, <1>5, <1>6 DEF IInv, Types, Numbers
  <2>2. ASSUME NEW v \in Writers, NEW k \in scope'[v] PROVE made'[v] <= shown'[k]
    <3>1. CASE v = w
      BY <1>4, <3>1 DEF IInv, Types
    <3>2. CASE v # w
      <4>1. k \in scope[v] /\ made'[v] = made[v] /\ k \in Keys
        BY <1>4, <2>2, <3>2 DEF IInv, Types
      <4>2. made[v] <= shown[k] /\ made[v] \in Nat /\ shown[k] \in Nat /\ shown'[k] \in Nat
        BY <1>5, <4>1 DEF IInv, Types, Numbers
      <4> QED BY <1>6, <4>1, <4>2
    <3> QED BY <3>1, <3>2
  <2> QED BY <1>4, <2>1, <2>2 DEF IInv, Numbers, requestVars
<1>8. \A k, n : Shows(k, n) => Shows(k, n)'
  BY <1>4 DEF Shows, Storing, held, version, requestVars
<1>9. WriterInv'
  <2> SUFFICES ASSUME NEW v \in Writers, NEW k \in scope'[v] \ imported'
               PROVE  (\E call \in todo'[v] : Covers(call, k)) \/ Shows(k, made[v])'
    BY DEF WriterInv, Covers
  <2>1. CASE v = w
    BY <1>4, <2>1 DEF IInv, Types
  <2>2. CASE v # w
    <3>1. k \in scope[v] /\ made'[v] = made[v] /\ todo'[v] = todo[v]
      BY <1>4, <2>2 DEF IInv, Types
    <3>2. (\E call \in todo[v] : Covers(call, k)) \/ Shows(k, made[v])
      BY <3>1 DEF IInv, WriterInv
    <3>3. Shows(k, made[v]) => Shows(k, made[v])'
      BY <1>8, <3>1
    <3> QED BY <3>1, <3>2, <3>3
  <2> QED BY <2>1, <2>2
<1>10. ToldInv'
  <2> SUFFICES ASSUME NEW k \in Keys \ imported' PROVE Shows(k, told[k])'
    BY DEF ToldInv
  <2>1. Shows(k, told[k]) /\ told'[k] = told[k]
    BY <1>4 DEF IInv, ToldInv
  <2> QED BY <1>8, <2>1
<1>11. ReaderInv'
  BY <1>4 DEF IInv, ReaderInv, requestVars
<1> QED BY <1>5, <1>7, <1>9, <1>10, <1>11 DEF IInv

LEMMA WriteStep == ASSUME IInv, NEW w \in Writers, Write(w) PROVE IInv'
<1>1. PICK c \in Changes : Commit(w, c, Moved(c))
  BY DEF Write
<1>2. Moved(c) = Moved(c) \cup {} /\ {} \in SUBSET Keys
  OBVIOUS
<1> QED BY <1>1, <1>2, CommitStep

LEMMA ImportStep == ASSUME IInv, NEW w \in Writers, Import(w) PROVE IInv'
<1> DEFINE c == [stores |-> {}, full |-> TRUE, all |-> FALSE]
<1>1. PICK s \in Shops : Commit(w, c, Moved(c) \cup {k \in Keys : GroupOf[k] = s})
  BY DEF Import
<1>2. c \in Changes
  BY FS_EmptySet DEF Changes
<1>3. {k \in Keys : GroupOf[k] = s} \in SUBSET Keys
  OBVIOUS
<1> HIDE DEF c
<1> QED BY <1>1, <1>2, <1>3, CommitStep

\* After a call no answer it covers is held, and the marks taken before it are
\* refused: the answer shows everything, whatever the number.
LEMMA DropStep == ASSUME IInv, NEW w \in Writers, Drop(w) PROVE IInv'
<1>1. PICK call \in todo[w] :
        /\ cache' = [entries |-> IF call = "Clear" THEN Empty
                                 ELSE Without(cache.entries, Dropped(cache.entries, call)),
                     drops |-> cache.drops + 1]
        /\ todo' = [todo EXCEPT ![w] = @ \ {call}]
        /\ UNCHANGED <<shown, told, requestVars, writes, scope, made, imported>>
  BY DEF Drop
<1> DEFINE e == IF call = "Clear" THEN Empty
                ELSE Without(cache.entries, Dropped(cache.entries, call))
<1>2. call \in Calls
  BY <1>1 DEF IInv, Types
<1>3. /\ Entries(e) /\ e.held \subseteq held
      /\ \A k \in e.held : e.version[k] = version[k] /\ ~Covers(call, k)
  <2>1. CASE call = "Clear"
    <3>1. Entries(Empty) /\ Empty.held = {}
      BY DEF Empty, Entries
    <3> QED BY <2>1, <3>1
  <2>2. CASE call # "Clear"
    <3> DEFINE D == Dropped(cache.entries, call)
    <3>1. /\ Entries(Without(cache.entries, D))
          /\ Without(cache.entries, D).held = held \ D
          /\ \A k \in held \ D : Without(cache.entries, D).version[k] = version[k]
      BY WithoutRemoves DEF IInv, Types, held, version
    <3>2. ASSUME NEW k \in held, Covers(call, k) PROVE k \in D
      <4>1. k \in cache.entries.index[GroupOf[k]] /\ GroupOf[k] \in Groups
        BY <3>2, CacheAssumption DEF IInv, Types, Entries, held
      <4>2. CASE call = "DropKeys"
        <5>1. GroupOf[k] # call
          BY <4>1, <4>2, CacheAssumption
        <5>2. k \in NearbyKeys
          BY <2>2, <3>2, <4>2, <5>1 DEF Covers
        <5> QED BY <2>2, <3>2, <4>2, <5>2 DEF Dropped, held
      <4>3. CASE call # "DropKeys"
        <5>1. call = GroupOf[k]
          BY <2>2, <3>2, <4>3 DEF Covers
        <5> QED BY <2>2, <3>2, <4>1, <4>3, <5>1 DEF Dropped, held
      <4> QED BY <4>2, <4>3
    <3> HIDE DEF D
    <3>3. e = Without(cache.entries, D)
      BY <2>2 DEF D
    <3> HIDE DEF e
    <3> QED BY <3>1, <3>2, <3>3
  <2> QED BY <2>1, <2>2
<1>4. cache' = [entries |-> e, drops |-> cache.drops + 1]
  BY <1>1
<1> HIDE DEF e
<1>5. cache'.entries = e /\ cache'.drops = cache.drops + 1
  BY <1>4
<1>6. Types'
  BY <1>1, <1>3, <1>4, <1>5 DEF IInv, Types, requestVars
<1>7. \A r \in Requests, k \in Keys : ~Storing(r, k)'
  BY <1>1, <1>5 DEF IInv, Types, Numbers, Storing, requestVars
<1>8. Numbers'
  BY <1>1, <1>5 DEF IInv, Types, Numbers, requestVars
<1>9. \A k \in Keys, n \in Nat : Shows(k, n) => Shows(k, n)'
  <2>1. held' = e.held /\ version' = e.version
    BY <1>5 DEF held, version
  <2> QED BY <1>3, <1>7, <2>1 DEF Shows
<1>10. \A k \in Keys, n \in Nat : Covers(call, k) => Shows(k, n)'
  <2>1. held' = e.held
    BY <1>5 DEF held
  <2> QED BY <1>3, <1>7, <2>1 DEF Shows
<1>11. WriterInv'
  <2> SUFFICES ASSUME NEW v \in Writers, NEW k \in scope[v] \ imported
               PROVE  (\E c \in todo'[v] : Covers(c, k)) \/ Shows(k, made[v])'
    BY <1>1 DEF WriterInv, Covers
  <2>1. k \in Keys /\ made[v] \in Nat /\ made'[v] = made[v]
    BY <1>1 DEF IInv, Types
  <2>2. CASE \E c \in todo[v] : Covers(c, k)
    <3>1. PICK c \in todo[v] : Covers(c, k)
      BY <2>2
    <3>2. CASE c = call
      BY <1>10, <2>1, <3>1, <3>2
    <3>3. CASE c # call
      <4>1. c \in todo'[v]
        BY <1>1, <3>3 DEF IInv, Types
      <4> QED BY <3>1, <4>1
    <3> QED BY <3>2, <3>3
  <2>3. CASE Shows(k, made[v])
    BY <1>9, <2>1, <2>3
  <2> QED BY <2>2, <2>3 DEF IInv, WriterInv
<1>12. ToldInv'
  <2> SUFFICES ASSUME NEW k \in Keys \ imported' PROVE Shows(k, told[k])'
    BY DEF ToldInv
  <2>1. Shows(k, told[k]) /\ told'[k] = told[k] /\ told[k] \in Nat
    BY <1>1 DEF IInv, ToldInv, Types
  <2> QED BY <1>9, <2>1
<1>13. ReaderInv'
  BY <1>1 DEF IInv, ReaderInv, requestVars
<1> QED BY <1>6, <1>8, <1>11, <1>12, <1>13 DEF IInv

LEMMA FinishStep == ASSUME IInv, NEW w \in Writers, Finish(w) PROVE IInv'
<1> USE DEF Finish
<1>1. \A k \in Keys : /\ told'[k] \in Nat /\ told[k] <= told'[k]
                      /\ told'[k] = told[k] \/ (k \in scope[w] /\ told'[k] = made[w])
  BY DEF IInv, Types, Newer
<1>2. Types'
  <2>1. told' \in [Keys -> Nat]
    BY DEF IInv, Types, Newer
  <2> QED BY <2>1 DEF IInv, Types, requestVars
<1>3. \A v \in Writers : \A k \in scope'[v] : v # w /\ k \in scope[v] /\ made'[v] = made[v]
  BY DEF IInv, Types
<1>4. Numbers'
  BY <1>1, <1>3 DEF IInv, Numbers, requestVars
<1>5. \A k, n : Shows(k, n) => Shows(k, n)'
  BY DEF Shows, Storing, held, version, requestVars
<1>6. WriterInv'
  <2> SUFFICES ASSUME NEW v \in Writers, NEW k \in scope'[v] \ imported'
               PROVE  (\E call \in todo[v] : Covers(call, k)) \/ Shows(k, made[v])'
    BY DEF WriterInv, Covers
  <2> QED BY <1>3, <1>5 DEF IInv, WriterInv
<1>7. ToldInv'
  <2> SUFFICES ASSUME NEW k \in Keys \ imported' PROVE Shows(k, told[k])'
    BY DEF ToldInv
  <2>1. CASE told'[k] = told[k]
    BY <1>5, <2>1 DEF IInv, ToldInv
  <2>2. CASE k \in scope[w] /\ told'[k] = made[w]
    <3>1. Shows(k, made[w])
      BY <2>2 DEF IInv, WriterInv
    <3> QED BY <1>5, <2>2, <3>1
  <2> QED BY <1>1, <2>1, <2>2
<1>8. ReaderInv'
  <2>1. ASSUME NEW r \in Requests, pc[r] = "get" PROVE floor[r] <= told'[want[r]]
    <3>1. floor[r] <= told[want[r]] /\ want[r] \in Keys /\ floor[r] \in Nat
          /\ told[want[r]] \in Nat
      BY <2>1 DEF IInv, ReaderInv, Types
    <3> QED BY <1>1, <3>1
  <2> QED BY <2>1 DEF IInv, ReaderInv, requestVars
<1> QED BY <1>2, <1>4, <1>6, <1>7, <1>8 DEF IInv

-----------------------------------------------------------------------------
(* The theorems.                                                            *)

\* The inductive invariant holds throughout.
THEOREM Invariant == Spec => []IInv
<1>1. IInv /\ [Next]_vars => IInv'
  <2> SUFFICES ASSUME IInv, [Next]_vars PROVE IInv'
    OBVIOUS
  <2>1. CASE Next
    <3>1. ASSUME NEW r \in Requests, Answer(r) PROVE IInv'
      BY <3>1, ArriveStep, HitStep, MissStep, MarkStep, BuildStep, PutStep, PassStep,
         LeaveStep DEF Answer
    <3>2. ASSUME NEW w \in Writers, Change(w) PROVE IInv'
      BY <3>2, WriteStep, ImportStep, DropStep, FinishStep DEF Change
    <3>3. ASSUME NEW k \in Keys, Expire(k) PROVE IInv'
      BY <3>3, ExpireStep
    <3> QED BY <2>1, <3>1, <3>2, <3>3 DEF Next
  <2>2. CASE UNCHANGED vars
    BY <2>2 DEF vars, requestVars, writerVars, IInv, Types, Entries, Numbers, WriterInv,
                ToldInv, ReaderInv, Shows, Storing, Covers, held, version
  <2> QED BY <2>1, <2>2
<1> QED BY <1>1, InitInv, PTL DEF Spec

\* No entry is older than a write that was answered: the marks refuse every
\* answer read before a drop, and the calls of forget cover every answer a
\* change can move; what an import changed unannounced is left out.
THEOREM StoredIsFresh == Spec => []StoredFresh
<1>1. IInv => StoredFresh
  BY DEF IInv, Types, Entries, ToldInv, Shows, StoredFresh, held, version
<1> QED BY <1>1, Invariant, PTL

AnnouncedFresh ==
    \A r \in Requests : pc[r] = "hit" /\ want[r] \notin imported => body[r] >= floor[r]

\* No reader is served an answer older than a write answered before it came,
\* unless an import changed it unannounced.
THEOREM AnswersAreFresh == Spec => []AnnouncedFresh
<1>1. IInv => AnnouncedFresh
  BY DEF IInv, ReaderInv, AnnouncedFresh
<1> QED BY <1>1, Invariant, PTL

-----------------------------------------------------------------------------
(* Sums over finite sets, by induction: a set of the sets that have a       *)
(* property has them all, for of those it lacks one would have the fewest   *)
(* elements.                                                                *)

LEMMA NoInfiniteDescent ==
    ASSUME NEW R, IsWellFoundedOn(R, Nat), NEW T, T \subseteq Nat, T # {}
    PROVE  \E n \in T : \A m \in T : ~(<<m, n>> \in R)
  BY WFMin

LEMMA LeastNumber ==
    ASSUME NEW T, T \subseteq Nat, T # {}
    PROVE  \E n \in T : \A m \in T : n <= m
<1>1. PICK R : R = OpToRel(<, Nat)
  OBVIOUS
<1>2. IsWellFoundedOn(R, Nat)
  BY <1>1, NatLessThanWellFounded
<1>3. \A m, n \in Nat : m < n => <<m, n>> \in R
  BY <1>1 DEF OpToRel
<1>4. PICK n \in T : \A m \in T : ~(<<m, n>> \in R)
  BY <1>2, NoInfiniteDescent
<1>5. \A m \in T : n <= m
  <2> TAKE m \in T
  <2>1. m \in Nat /\ n \in Nat
    OBVIOUS
  <2>2. ~(m < n)
    BY <1>3, <1>4, <2>1
  <2> QED BY <2>1, <2>2
<1> QED BY <1>5

LEMMA SetInduction ==
    ASSUME NEW K, IsFiniteSet(K), NEW A,
           \A S \in SUBSET K : (\A x \in S : S \ {x} \in A) => S \in A
    PROVE  SUBSET K \subseteq A
<1> SUFFICES ASSUME NEW U \in SUBSET K, U \notin A PROVE FALSE
  OBVIOUS
<1> DEFINE Bad == {S \in SUBSET K : S \notin A}
           Sizes == {Cardinality(S) : S \in Bad}
<1>1. \A S \in SUBSET K : IsFiniteSet(S) /\ Cardinality(S) \in Nat
  <2> TAKE S \in SUBSET K
  <2>1. IsFiniteSet(S)
    BY FS_Subset
  <2> QED BY <2>1, FS_CardinalityType
<1>2. Sizes \subseteq Nat
  BY <1>1
<1>3. Cardinality(U) \in Sizes
  OBVIOUS
<1>4. PICK n \in Sizes : \A m \in Sizes : n <= m
  <2> HIDE DEF Sizes
  <2> QED BY <1>2, <1>3, LeastNumber
<1>5. PICK S \in Bad : n = Cardinality(S)
  OBVIOUS
<1>6. PICK x \in S : S \ {x} \notin A
  OBVIOUS
<1>7. Cardinality(S \ {x}) = Cardinality(S) - 1 /\ Cardinality(S) \in Nat
  <2>1. IsFiniteSet(S) /\ Cardinality(S) \in Nat
    BY <1>1
  <2> QED BY <2>1, FS_RemoveElement
<1>8. Cardinality(S \ {x}) \in Sizes
  BY <1>6
<1>9. Cardinality(S) <= Cardinality(S) - 1
  <2> HIDE DEF Sizes
  <2> QED BY <1>4, <1>5, <1>7, <1>8
<1> QED BY <1>7, <1>9

One(S) == CHOOSE x \in S : TRUE

\* The function that SumFunctionOnSet takes its sum from.
Adds(f, w, S) == f = [T \in SUBSET S |-> IF T = {} THEN 0 ELSE w[One(T)] + f[T \ {One(T)}]]
Adder(w, S) == CHOOSE f : Adds(f, w, S)
Sum(w, S) == SumFunctionOnSet(w, S)

LEMMA SumIsAdder == ASSUME NEW w, NEW S PROVE Sum(w, S) = Adder(w, S)[S]
  BY DEF Sum, SumFunctionOnSet, FoldFunctionOnSet, MapThenFoldSet, Adder, Adds, One

LEMMA OneIn == ASSUME NEW S, S # {} PROVE One(S) \in S
  BY DEF One

LEMMA AddsAt ==
    ASSUME NEW f, NEW w, NEW S, Adds(f, w, S), NEW T \in SUBSET S
    PROVE  f[T] = IF T = {} THEN 0 ELSE w[One(T)] + f[T \ {One(T)}]
  BY DEF Adds

LEMMA AddersAgree ==
    ASSUME NEW w, NEW S, NEW T, IsFiniteSet(S), NEW f, NEW g, Adds(f, w, S), Adds(g, w, T)
    PROVE  \A U \in SUBSET (S \cap T) : f[U] = g[U]
<1> DEFINE K == S \cap T
           A == {U \in SUBSET K : f[U] = g[U]}
<1>1. IsFiniteSet(K)
  <2>1. K \subseteq S
    OBVIOUS
  <2> HIDE DEF K
  <2> QED BY <2>1, FS_Subset
<1>2. ASSUME NEW U \in SUBSET K, \A x \in U : U \ {x} \in A
      PROVE  f[U] = g[U]
  <2>1. f[U] = IF U = {} THEN 0 ELSE w[One(U)] + f[U \ {One(U)}]
    BY AddsAt
  <2>2. g[U] = IF U = {} THEN 0 ELSE w[One(U)] + g[U \ {One(U)}]
    BY AddsAt
  <2>3. U # {} => f[U \ {One(U)}] = g[U \ {One(U)}]
    BY <1>2, OneIn
  <2> QED BY <2>1, <2>2, <2>3
<1>3. \A U \in SUBSET K : (\A x \in U : U \ {x} \in A) => U \in A
  BY <1>2
<1>4. SUBSET K \subseteq A
  <2> HIDE DEF A, K
  <2> QED BY <1>1, <1>3, SetInduction
<1> QED BY <1>4

LEMMA AdderAdds ==
    ASSUME NEW w, NEW K, IsFiniteSet(K)
    PROVE  \A S \in SUBSET K : Adds(Adder(w, S), w, S)
<1> DEFINE A == {S \in SUBSET K : \A T \in SUBSET S : Adds(Adder(w, T), w, T)}
<1>1. ASSUME NEW S \in SUBSET K, \A x \in S : S \ {x} \in A
      PROVE  \A T \in SUBSET S : Adds(Adder(w, T), w, T)
  <2>1. \A T \in SUBSET S : T # S => Adds(Adder(w, T), w, T)
    <3> SUFFICES ASSUME NEW T \in SUBSET S, T # S PROVE Adds(Adder(w, T), w, T)
      OBVIOUS
    <3>1. PICK x \in S : x \notin T
      OBVIOUS
    <3> QED BY <1>1, <3>1
  <2> DEFINE s(T) == Adder(w, T)[T]
             g == [T \in SUBSET S |-> IF T = {} THEN 0 ELSE w[One(T)] + s(T \ {One(T)})]
  <2>2. ASSUME NEW T \in SUBSET S, T # S PROVE g[T] = s(T)
    <3>1. Adds(Adder(w, T), w, T)
      BY <2>1, <2>2
    <3>2. s(T) = IF T = {} THEN 0 ELSE w[One(T)] + Adder(w, T)[T \ {One(T)}]
      <4> T \in SUBSET T
        OBVIOUS
      <4> QED BY <3>1, AddsAt
    <3>3. T # {} => Adder(w, T)[T \ {One(T)}] = s(T \ {One(T)})
      <4> SUFFICES ASSUME T # {} PROVE Adder(w, T)[T \ {One(T)}] = s(T \ {One(T)})
        OBVIOUS
      <4> PICK V : V = T \ {One(T)}
        OBVIOUS
      <4>1. V \in SUBSET S /\ V # S /\ V \in SUBSET (T \cap V)
        BY OneIn
      <4>2. Adds(Adder(w, V), w, V)
        BY <2>1, <4>1
      <4>3. IsFiniteSet(T)
        <5>1. T \in SUBSET K
          OBVIOUS
        <5> QED BY <5>1, FS_Subset
      <4>4. Adder(w, T)[V] = Adder(w, V)[V]
        BY <3>1, <4>1, <4>2, <4>3, AddersAgree
      <4> QED BY <4>4
    <3>4. g[T] = IF T = {} THEN 0 ELSE w[One(T)] + s(T \ {One(T)})
      OBVIOUS
    <3> HIDE DEF s, g
    <3> QED BY <3>2, <3>3, <3>4
  <2>3. \A T \in SUBSET S : T # {} => g[T \ {One(T)}] = s(T \ {One(T)})
    <3> SUFFICES ASSUME NEW T \in SUBSET S, T # {} PROVE g[T \ {One(T)}] = s(T \ {One(T)})
      OBVIOUS
    <3>1. T \ {One(T)} \in SUBSET S /\ T \ {One(T)} # S
      BY OneIn
    <3> HIDE DEF g, s
    <3> QED BY <2>2, <3>1
  <2>4. Adds(g, w, S)
    <3>1. g = [T \in SUBSET S |-> IF T = {} THEN 0 ELSE w[One(T)] + s(T \ {One(T)})]
      OBVIOUS
    <3>2. [T \in SUBSET S |-> IF T = {} THEN 0 ELSE w[One(T)] + s(T \ {One(T)})]
          = [T \in SUBSET S |-> IF T = {} THEN 0 ELSE w[One(T)] + g[T \ {One(T)}]]
      <4> HIDE DEF g, s
      <4> QED BY <2>3
    <3> HIDE DEF g
    <3> QED BY <3>1, <3>2 DEF Adds
  <2>5. Adds(Adder(w, S), w, S)
    <3> HIDE DEF g
    <3> QED BY <2>4 DEF Adder
  <2> QED BY <2>1, <2>5
<1>2. \A S \in SUBSET K : (\A x \in S : S \ {x} \in A) => S \in A
  BY <1>1
<1>3. SUBSET K \subseteq A
  <2> HIDE DEF A
  <2> QED BY <1>2, SetInduction
<1> QED BY <1>3

\* The sum over a set is that over all but the element chosen, and its own.
LEMMA SumAt ==
    ASSUME NEW w, NEW S, IsFiniteSet(S)
    PROVE  Sum(w, S) = IF S = {} THEN 0 ELSE w[One(S)] + Sum(w, S \ {One(S)})
<1> PICK V : V = S \ {One(S)}
  OBVIOUS
<1>1. Adds(Adder(w, S), w, S) /\ Adds(Adder(w, V), w, V) /\ S \in SUBSET S
  BY AdderAdds
<1>2. Adder(w, S)[S] = IF S = {} THEN 0 ELSE w[One(S)] + Adder(w, S)[V]
  BY <1>1, AddsAt
<1>3. Adder(w, S)[V] = Adder(w, V)[V]
  <2>1. V \in SUBSET (S \cap V)
    OBVIOUS
  <2> QED BY <1>1, <2>1, AddersAgree
<1>4. Sum(w, S) = Adder(w, S)[S] /\ Sum(w, V) = Adder(w, V)[V]
  BY SumIsAdder
<1> QED BY <1>2, <1>3, <1>4

LEMMA SumEmpty == ASSUME NEW w PROVE Sum(w, {}) = 0
<1>1. IsFiniteSet({})
  BY FS_EmptySet
<1> QED BY <1>1, SumAt

LEMMA SumIsNat ==
    ASSUME NEW w, NEW S, IsFiniteSet(S), \A x \in S : w[x] \in Nat
    PROVE  \A T \in SUBSET S : Sum(w, T) \in Nat
<1> DEFINE A == {T \in SUBSET S : Sum(w, T) \in Nat}
<1>1. ASSUME NEW T \in SUBSET S, \A x \in T : T \ {x} \in A
      PROVE  Sum(w, T) \in Nat
  <2>1. IsFiniteSet(T)
    BY FS_Subset
  <2>2. Sum(w, T) = IF T = {} THEN 0 ELSE w[One(T)] + Sum(w, T \ {One(T)})
    BY <2>1, SumAt
  <2>3. T # {} => w[One(T)] \in Nat /\ Sum(w, T \ {One(T)}) \in Nat
    BY <1>1, OneIn
  <2> QED BY <2>2, <2>3
<1>2. \A T \in SUBSET S : (\A x \in T : T \ {x} \in A) => T \in A
  BY <1>1
<1>3. SUBSET S \subseteq A
  <2> HIDE DEF A
  <2> QED BY <1>2, SetInduction
<1> QED BY <1>3

\* So it is for any element, chosen or not.
LEMMA SumElement ==
    ASSUME NEW w, NEW S, IsFiniteSet(S), \A x \in S : w[x] \in Nat
    PROVE  \A T \in SUBSET S : \A x \in T : Sum(w, T) = w[x] + Sum(w, T \ {x})
<1> DEFINE A == {T \in SUBSET S : \A x \in T : Sum(w, T) = w[x] + Sum(w, T \ {x})}
<1>1. ASSUME NEW T \in SUBSET S, \A x \in T : T \ {x} \in A, NEW x \in T
      PROVE  Sum(w, T) = w[x] + Sum(w, T \ {x})
  <2> PICK c \in T : c = One(T)
    BY OneIn
  <2>0. IsFiniteSet(T)
    BY FS_Subset
  <2>1. Sum(w, T) = w[c] + Sum(w, T \ {c})
    BY <2>0, SumAt
  <2>2. CASE c = x
    BY <2>1, <2>2
  <2>3. CASE c # x
    <3>1. T \ {c} \in A /\ x \in T \ {c}
      BY <1>1, <2>3
    <3>2. Sum(w, T \ {c}) = w[x] + Sum(w, (T \ {c}) \ {x})
      BY <3>1
    <3>3. T \ {x} \in A /\ c \in T \ {x}
      BY <1>1, <2>3
    <3>4. Sum(w, T \ {x}) = w[c] + Sum(w, (T \ {x}) \ {c})
      BY <3>3
    <3>5. (T \ {x}) \ {c} = (T \ {c}) \ {x}
      OBVIOUS
    <3>6. w[x] \in Nat /\ w[c] \in Nat /\ Sum(w, (T \ {c}) \ {x}) \in Nat
      BY SumIsNat
    <3>7. Sum(w, T \ {x}) = w[c] + Sum(w, (T \ {c}) \ {x})
      BY <3>4, <3>5
    <3> HIDE DEF A
    <3> QED BY <2>1, <3>2, <3>6, <3>7
  <2> QED BY <2>2, <2>3
<1>2. \A T \in SUBSET S : (\A x \in T : T \ {x} \in A) => T \in A
  BY <1>1
<1>3. SUBSET S \subseteq A
  <2> HIDE DEF A
  <2> QED BY <1>2, SetInduction
<1> QED BY <1>3

\* And for any part of the set.
LEMMA SumSplit ==
    ASSUME NEW w, NEW S, IsFiniteSet(S), \A x \in S : w[x] \in Nat
    PROVE  \A T \in SUBSET S : Sum(w, S) = Sum(w, T) + Sum(w, S \ T)
<1> DEFINE A == {T \in SUBSET S : Sum(w, S) = Sum(w, T) + Sum(w, S \ T)}
<1>1. ASSUME NEW T \in SUBSET S, \A x \in T : T \ {x} \in A
      PROVE  Sum(w, S) = Sum(w, T) + Sum(w, S \ T)
  <2>1. CASE T = {}
    <3>1. S \ T = S /\ Sum(w, T) = 0 /\ Sum(w, S) \in Nat
      BY <2>1, SumEmpty, SumIsNat
    <3> QED BY <3>1
  <2>2. CASE T # {}
    <3> PICK x \in T : TRUE
      BY <2>2
    <3>1. Sum(w, S) = Sum(w, T \ {x}) + Sum(w, S \ (T \ {x}))
      BY <1>1
    <3>2. Sum(w, T) = w[x] + Sum(w, T \ {x})
      BY SumElement
    <3> PICK U \in SUBSET S : U = S \ (T \ {x})
      OBVIOUS
    <3>3. x \in U /\ U \ {x} = S \ T
      OBVIOUS
    <3>4. Sum(w, U) = w[x] + Sum(w, S \ T)
      BY <3>3, SumElement
    <3>5. w[x] \in Nat /\ Sum(w, T \ {x}) \in Nat /\ Sum(w, S \ T) \in Nat
      BY SumIsNat
    <3> HIDE DEF A
    <3> QED BY <3>1, <3>2, <3>4, <3>5
  <2> QED BY <2>1, <2>2
<1>2. \A T \in SUBSET S : (\A x \in T : T \ {x} \in A) => T \in A
  BY <1>1
<1>3. SUBSET S \subseteq A
  <2> HIDE DEF A
  <2> QED BY <1>2, SetInduction
<1> QED BY <1>3

-----------------------------------------------------------------------------
(* The parts of the cache.                                                  *)

\* The list has every entry in one place.
Listed(order, S) ==
    /\ order \subseteq S \X S
    /\ \A k \in S : <<k, k>> \notin order
    /\ \A k, l \in S : k # l => <<k, l>> \in order \/ <<l, k>> \in order
    /\ \A k, l, m \in S : <<k, l>> \in order /\ <<l, m>> \in order => <<k, m>> \in order

Exact(e) ==
    /\ IsFiniteSet(e.held)
    /\ Listed(e.order, e.held)
    /\ \A g \in Groups : e.index[g] = {k \in e.held : GroupOf[k] = g}
    /\ e.bytes = Weight(e.held)

ExactInv ==
    /\ Exact(cache.entries) /\ cache.entries.bytes <= Budget
    /\ writes <= MaxWrites

LEMMA ListedIsOrder ==
    ASSUME NEW order, NEW S, Listed(order, S)
    PROVE  IsStrictlyTotallyOrdered([p \in S \X S |-> p \in order], S)
<1> DEFINE R == [p \in S \X S |-> p \in order]
<1>1. \A k, l \in S : R[k, l] <=> <<k, l>> \in order
  <2> SUFFICES ASSUME NEW k \in S, NEW l \in S PROVE R[k, l] <=> <<k, l>> \in order
    OBVIOUS
  <2>1. <<k, l>> \in S \X S
    OBVIOUS
  <2>2. R[<<k, l>>] = (<<k, l>> \in order)
    BY <2>1, Zenon
  <2> QED BY <2>2
<1> HIDE DEF R
<1>2. IsIrreflexive(R, S)
  BY <1>1 DEF Listed, IsIrreflexive
<1>3. IsTransitive(R, S)
  BY <1>1 DEF Listed, IsTransitive
<1>4. IsAntiSymmetric(R, S)
  BY <1>1 DEF Listed, IsAntiSymmetric
<1>5. \A k, l \in S : k # l => R[k, l] \/ R[l, k]
  <2> SUFFICES ASSUME NEW k \in S, NEW l \in S, k # l PROVE R[k, l] \/ R[l, k]
    OBVIOUS
  <2>1. <<k, l>> \in order \/ <<l, k>> \in order
    BY DEF Listed
  <2>2. (R[k, l] <=> <<k, l>> \in order) /\ (R[l, k] <=> <<l, k>> \in order)
    BY <1>1
  <2> QED BY <2>1, <2>2
<1>6. IsStrictlyTotallyOrdered(R, S)
  BY <1>2, <1>3, <1>4, <1>5 DEF IsStrictlyTotallyOrdered, IsStrictlyPartiallyOrdered
<1> QED BY <1>6 DEF R

LEMMA WeightAdds ==
    ASSUME NEW S \in SUBSET Keys, IsFiniteSet(S)
    PROVE  /\ Weight({}) = 0
           /\ \A T \in SUBSET S : Weight(T) \in Nat /\ Weight(S) = Weight(T) + Weight(S \ T)
           /\ \A k \in S : Weight(S) = BodyBytes[k] + KeyBytes[k] + Weight(S \ {k})
<1> DEFINE w == [k \in Keys |-> BodyBytes[k] + KeyBytes[k]]
<1>1. \A T : Weight(T) = Sum(w, T)
  BY DEF Weight, Sum
<1>2. \A k \in Keys : w[k] = BodyBytes[k] + KeyBytes[k] /\ w[k] \in Nat
  BY CacheAssumption
<1> HIDE DEF w
<1>3. \A k \in S : w[k] \in Nat
  BY <1>2
<1>4. Sum(w, {}) = 0
  BY SumEmpty
<1>5. \A T \in SUBSET S : Sum(w, T) \in Nat
  BY <1>3, SumIsNat
<1>6. \A T \in SUBSET S : Sum(w, S) = Sum(w, T) + Sum(w, S \ T)
  BY <1>3, SumSplit
<1>7. \A T \in SUBSET S : \A k \in T : Sum(w, T) = w[k] + Sum(w, T \ {k})
  BY <1>3, SumElement
<1>8. \A k \in S : Sum(w, S) = w[k] + Sum(w, S \ {k})
  BY <1>7
<1> QED BY <1>1, <1>2, <1>4, <1>5, <1>6, <1>8

\* removeLocked keeps the parts together, whichever entries go.
LEMMA ExactWithout ==
    ASSUME NEW e, Entries(e), Exact(e), NEW S \in SUBSET e.held
    PROVE  /\ Exact(Without(e, S))
           /\ Without(e, S).bytes = e.bytes - Weight(S) /\ Weight(S) \in Nat
           /\ Without(e, S).bytes <= e.bytes
<1> DEFINE f == Without(e, S)
<1>1. /\ f.held = e.held \ S /\ f.bytes = e.bytes - Weight(S)
      /\ f.order = {p \in e.order : p[1] \notin S /\ p[2] \notin S}
      /\ f.index = [g \in Groups |-> e.index[g] \ {k \in S : GroupOf[k] = g}]
  BY DEF Without
<1>2. e.held \in SUBSET Keys /\ IsFiniteSet(e.held)
  BY DEF Entries, Exact
<1>3. /\ Weight(S) \in Nat /\ Weight(e.held \ S) \in Nat
      /\ Weight(e.held) = Weight(S) + Weight(e.held \ S)
  BY <1>2, WeightAdds
<1>4. f.bytes = Weight(f.held) /\ f.bytes <= e.bytes
  BY <1>1, <1>3 DEF Exact
<1>5. IsFiniteSet(f.held)
  <2>1. f.held \in SUBSET e.held
    BY <1>1
  <2> HIDE DEF f
  <2> QED BY <1>2, <2>1, FS_Subset
<1>6. \A g \in Groups : f.index[g] = {k \in f.held : GroupOf[k] = g}
  BY <1>1 DEF Exact
<1>7. Listed(f.order, f.held)
  <2> HIDE DEF f
  <2>1. Listed(e.order, e.held)
    BY DEF Exact
  <2>2. f.order \subseteq f.held \X f.held
    BY <1>1, <2>1 DEF Listed
  <2>3. \A k, l \in f.held : <<k, l>> \in f.order <=> <<k, l>> \in e.order
    BY <1>1
  <2>4. f.held \subseteq e.held
    BY <1>1
  <2> QED BY <2>1, <2>2, <2>3, <2>4 DEF Listed
<1> HIDE DEF f
<1>8. Exact(f)
  BY <1>4, <1>5, <1>6, <1>7 DEF Exact
<1> QED BY <1>1, <1>3, <1>4, <1>8 DEF f

\* So does a new entry, if its key has none.
LEMMA ExactFront ==
    ASSUME NEW e, Entries(e), Exact(e), NEW k \in Keys \ e.held, NEW v \in Nat
    PROVE  Exact(WithFront(e, k, v))
<1> DEFINE f == WithFront(e, k, v)
<1>1. /\ f.held = e.held \cup {k} /\ f.bytes = e.bytes + BodyBytes[k] + KeyBytes[k]
      /\ f.order = e.order \cup ({k} \X e.held)
      /\ f.index = [e.index EXCEPT ![GroupOf[k]] = @ \cup {k}]
  BY DEF WithFront
<1> HIDE DEF f
<1>2. e.held \in SUBSET Keys /\ IsFiniteSet(e.held) /\ e.bytes = Weight(e.held)
  BY DEF Entries, Exact
<1>3. IsFiniteSet(f.held)
  BY <1>1, <1>2, FS_AddElement
<1>4. f.bytes = Weight(f.held)
  <2>1. f.held \in SUBSET Keys /\ k \in f.held /\ f.held \ {k} = e.held
    BY <1>1, <1>2
  <2>2. Weight(f.held) = BodyBytes[k] + KeyBytes[k] + Weight(e.held)
    BY <1>3, <2>1, WeightAdds
  <2>3. Weight(e.held) \in Nat /\ BodyBytes[k] \in Nat /\ KeyBytes[k] \in Nat
    BY <1>2, WeightAdds, CacheAssumption
  <2> QED BY <1>1, <1>2, <2>2, <2>3
<1>5. \A g \in Groups : f.index[g] = {j \in f.held : GroupOf[j] = g}
  <2> SUFFICES ASSUME NEW g \in Groups PROVE f.index[g] = {j \in f.held : GroupOf[j] = g}
    OBVIOUS
  <2>1. e.index[g] = {j \in e.held : GroupOf[j] = g} /\ DOMAIN e.index = Groups
    BY DEF Exact, Entries
  <2>2. f.index[g] = IF g = GroupOf[k] THEN e.index[g] \cup {k} ELSE e.index[g]
    BY <1>1, <2>1
  <2> QED BY <1>1, <2>1, <2>2
<1>6. Listed(f.order, f.held)
  <2>1. Listed(e.order, e.held)
    BY DEF Exact
  <2>2. f.order \subseteq f.held \X f.held
    BY <1>1, <2>1 DEF Listed
  <2>3. \A i, j \in f.held : <<i, j>> \in f.order <=>
          \/ i = k /\ j \in e.held
          \/ i \in e.held /\ j \in e.held /\ <<i, j>> \in e.order
    BY <1>1, <2>1 DEF Listed
  <2>4. \A i \in f.held : <<i, i>> \notin f.order
    BY <2>1, <2>3 DEF Listed
  <2>5. \A i, j \in f.held : i # j => <<i, j>> \in f.order \/ <<j, i>> \in f.order
    BY <1>1, <2>1, <2>3 DEF Listed
  <2>6. \A i, j, m \in f.held : <<i, j>> \in f.order /\ <<j, m>> \in f.order => <<i, m>> \in f.order
    BY <2>1, <2>3 DEF Listed
  <2> QED BY <2>2, <2>4, <2>5, <2>6 DEF Listed
<1>7. Exact(f)
  BY <1>3, <1>4, <1>5, <1>6 DEF Exact
<1> QED BY <1>7 DEF f

\* Of the entries that stay, the last has nothing behind it but what goes; and
\* without that the budget is met.
LEMMA BudgetMet ==
    ASSUME NEW e, Entries(e), Exact(e)
    PROVE  Excess(e) \in SUBSET e.held /\ Without(e, Excess(e)).bytes <= Budget
<1> DEFINE Behind(k) == {l \in e.held : <<k, l>> \in e.order}
           X == Excess(e)
           Stay == e.held \ X
<1>1. X = {k \in e.held : e.bytes - Weight(Behind(k)) > Budget}
  BY DEF Excess
<1>2. X \in SUBSET e.held
  BY <1>1
<1>3. /\ e.held \in SUBSET Keys /\ IsFiniteSet(e.held) /\ e.bytes = Weight(e.held)
      /\ Listed(e.order, e.held)
  BY DEF Entries, Exact
<1>4. /\ Without(e, X).bytes = e.bytes - Weight(X) /\ Weight(X) \in Nat
  BY <1>2, ExactWithout
<1>5. Budget \in Nat
  BY CacheAssumption
<1> HIDE DEF X
<1>6. CASE Stay = {}
  <2>1. e.held \ X = {} /\ X = e.held
    BY <1>2, <1>6
  <2>2. e.bytes - Weight(X) = 0
    BY <1>3, <1>4, <2>1
  <2> QED BY <1>2, <1>4, <1>5, <2>2 DEF X
<1>7. CASE Stay # {}
  <2> DEFINE Sizes == {Cardinality(Behind(k)) : k \in Stay}
  <2>1. \A k : Behind(k) \in SUBSET e.held
    OBVIOUS
  <2> HIDE DEF Behind
  <2>2. \A k : IsFiniteSet(Behind(k))
    BY <1>3, <2>1, FS_Subset
  <2>3. \A k : Cardinality(Behind(k)) \in Nat
    BY <2>2, FS_CardinalityType
  <2>4. Sizes \subseteq Nat /\ Sizes # {}
    BY <1>7, <2>3
  <2>5. PICK n \in Sizes : \A m \in Sizes : n <= m
    <3> HIDE DEF Sizes
    <3> QED BY <2>4, LeastNumber
  <2>6. PICK k \in Stay : n = Cardinality(Behind(k))
    OBVIOUS
  <2>7. \A l \in Stay : Cardinality(Behind(k)) <= Cardinality(Behind(l))
    BY <2>5, <2>6
  <2>8. Behind(k) \subseteq X
    <3> SUFFICES ASSUME NEW l \in Behind(k), l \notin X PROVE FALSE
      OBVIOUS
    <3>1. l \in e.held /\ k \in e.held /\ <<k, l>> \in e.order /\ l \in Stay
      BY DEF Behind
    <3>2. Behind(l) \in SUBSET Behind(k) /\ l \notin Behind(l)
      BY <1>3, <3>1 DEF Behind, Listed
    <3>3. Behind(l) # Behind(k)
      BY <3>2
    <3>4. Cardinality(Behind(l)) < Cardinality(Behind(k))
      <4>1. /\ Cardinality(Behind(l)) <= Cardinality(Behind(k))
            /\ Cardinality(Behind(k)) # Cardinality(Behind(l))
        BY <2>2, <3>2, <3>3, FS_Subset
      <4> QED BY <2>3, <4>1
    <3> QED BY <2>3, <2>7, <3>1, <3>4
  <2>9. Weight(Behind(k)) \in Nat /\ Weight(X) = Weight(Behind(k)) + Weight(X \ Behind(k))
        /\ Weight(X \ Behind(k)) \in Nat
    <3>1. X \in SUBSET Keys /\ IsFiniteSet(X)
      BY <1>2, <1>3, FS_Subset
    <3>2. Behind(k) \in SUBSET X /\ X \ Behind(k) \in SUBSET X
      BY <2>8
    <3> QED BY <3>1, <3>2, WeightAdds
  <2>10. e.bytes \in Nat
    BY <1>3, WeightAdds
  <2>11. ~(e.bytes - Weight(Behind(k)) > Budget)
    BY <1>1, <2>6
  <2>12. e.bytes - Weight(X) <= Budget
    BY <1>4, <1>5, <2>9, <2>10, <2>11
  <2> QED BY <1>2, <1>4, <2>12 DEF X
<1> QED BY <1>6, <1>7

LEMMA ExactStored ==
    ASSUME NEW e, Entries(e), Exact(e), NEW k \in Keys, NEW v \in Nat
    PROVE  Exact(Stored(e, k, v)) /\ Stored(e, k, v).bytes <= Budget
<1> DEFINE d == Without(e, e.held \cap {k})
           p == WithFront(d, k, v)
           t == Without(p, Excess(p))
<1>1. Stored(e, k, v) = t
  BY DEF Stored
<1>2. Entries(d) /\ Exact(d) /\ k \in Keys \ d.held
  <2> PICK S \in SUBSET e.held : S = e.held \cap {k}
    OBVIOUS
  <2>1. Entries(Without(e, S)) /\ Without(e, S).held = e.held \ S
    BY WithoutRemoves
  <2>2. Exact(Without(e, S))
    BY ExactWithout
  <2> HIDE DEF d
  <2>3. d = Without(e, S)
    BY DEF d
  <2> QED BY <2>1, <2>2, <2>3
<1> HIDE DEF d
<1>3. Entries(p) /\ Exact(p)
  BY <1>2, WithFrontAdds, ExactFront
<1> HIDE DEF p
<1>4. Exact(t) /\ t.bytes <= Budget
  <2>1. Excess(p) \in SUBSET p.held /\ t.bytes <= Budget
    BY <1>3, BudgetMet
  <2> PICK X : X = Excess(p)
    OBVIOUS
  <2>2. Exact(Without(p, X))
    BY <1>3, <2>1, ExactWithout
  <2> QED BY <2>1, <2>2
<1> QED BY <1>1, <1>4

-----------------------------------------------------------------------------
(* The parts agree.                                                         *)

LEMMA InitExact == Init => ExactInv
<1> SUFFICES ASSUME Init PROVE ExactInv
  OBVIOUS
<1>1. cache.entries = Empty /\ writes = 0
  BY DEF Init, New
<1>2. /\ Empty.held = {} /\ Empty.order = {} /\ Empty.bytes = 0
      /\ \A g \in Groups : Empty.index[g] = {}
  BY DEF Empty
<1>3. Exact(Empty) /\ Empty.bytes <= Budget
  <2>1. IsFiniteSet({}) /\ Weight({}) = 0
    BY FS_EmptySet, WeightAdds
  <2>2. Listed({}, {})
    BY DEF Listed
  <2>3. \A g \in Groups : {k \in {} : GroupOf[k] = g} = {}
    OBVIOUS
  <2> QED BY <1>2, <2>1, <2>2, <2>3, CacheAssumption DEF Exact
<1> QED BY <1>1, <1>3, CacheAssumption DEF ExactInv

LEMMA SameParts ==
    ASSUME NEW e, NEW f, Exact(e), f.held = e.held, f.index = e.index, f.bytes = e.bytes,
           Listed(f.order, f.held)
    PROVE  Exact(f)
  BY DEF Exact

\* A hit moves one entry of the list, and nothing else.
LEMMA HitExact == ASSUME IInv, ExactInv, NEW r \in Requests, Hit(r) PROVE ExactInv'
<1> DEFINE e == cache.entries
           k == want[r]
           o == {p \in e.order : p[2] # k} \cup ({k} \X (e.held \ {k}))
<1>1. /\ cache'.entries.held = e.held /\ cache'.entries.index = e.index
      /\ cache'.entries.bytes = e.bytes /\ cache'.entries.order = o /\ writes' = writes
      /\ k \in e.held
  <2>1. cache = [entries |-> e, drops |-> cache.drops]
    BY DEF IInv, Types
  <2>2. e = [held |-> e.held, version |-> e.version, fresh |-> e.fresh,
             index |-> e.index, order |-> e.order, bytes |-> e.bytes]
    BY DEF IInv, Types, Entries
  <2>3. cache' = [cache EXCEPT !.entries = [e EXCEPT !.order = o]] /\ writes' = writes /\ k \in e.held
    BY DEF Hit, writerVars
  <2> HIDE DEF o, e, k
  <2>4. [e EXCEPT !.order = o]
        = [held |-> e.held, version |-> e.version, fresh |-> e.fresh,
           index |-> e.index, order |-> o, bytes |-> e.bytes]
    BY <2>2
  <2>5. cache'.entries = [e EXCEPT !.order = o]
    BY <2>1, <2>3
  <2> QED BY <2>3, <2>4, <2>5
<1>2. Listed(e.order, e.held)
  BY DEF ExactInv, Exact
<1> HIDE DEF k
<1>3. \A i, j \in e.held : <<i, j>> \in o <=>
        \/ i = k /\ j # k
        \/ j # k /\ <<i, j>> \in e.order
  OBVIOUS
<1>4. o \subseteq e.held \X e.held
  BY <1>1, <1>2 DEF Listed
<1> HIDE DEF o
<1>5. Listed(o, e.held)
  <2>1. \A i \in e.held : <<i, i>> \notin o
    BY <1>2, <1>3 DEF Listed
  <2>2. \A i, j \in e.held : i # j => <<i, j>> \in o \/ <<j, i>> \in o
    BY <1>2, <1>3 DEF Listed
  <2>3. \A i, j, m \in e.held : <<i, j>> \in o /\ <<j, m>> \in o => <<i, m>> \in o
    BY <1>2, <1>3 DEF Listed
  <2> QED BY <1>4, <2>1, <2>2, <2>3 DEF Listed
<1>6. Exact(e) /\ e.bytes <= Budget /\ writes <= MaxWrites
  BY DEF ExactInv
<1>7. Exact(cache'.entries)
  <2> HIDE DEF e
  <2> QED BY <1>1, <1>5, <1>6, SameParts
<1> QED BY <1>1, <1>6, <1>7 DEF ExactInv, Exact

LEMMA ExpireExact == ASSUME IInv, ExactInv, NEW k \in Keys, Expire(k) PROVE ExactInv'
<1> DEFINE e == cache.entries
           f == [e.fresh EXCEPT ![k] = FALSE]
<1>1. /\ cache'.entries.held = e.held /\ cache'.entries.index = e.index
      /\ cache'.entries.bytes = e.bytes /\ cache'.entries.order = e.order /\ writes' = writes
  <2>1. cache = [entries |-> e, drops |-> cache.drops]
    BY DEF IInv, Types
  <2>2. e = [held |-> e.held, version |-> e.version, fresh |-> e.fresh,
             index |-> e.index, order |-> e.order, bytes |-> e.bytes]
    BY DEF IInv, Types, Entries
  <2>3. cache' = [cache EXCEPT !.entries = [e EXCEPT !.fresh = f]] /\ writes' = writes
    BY DEF Expire, writerVars
  <2> HIDE DEF f, e
  <2>4. [e EXCEPT !.fresh = f]
        = [held |-> e.held, version |-> e.version, fresh |-> f,
           index |-> e.index, order |-> e.order, bytes |-> e.bytes]
    BY <2>2
  <2>5. cache'.entries = [e EXCEPT !.fresh = f]
    BY <2>1, <2>3
  <2> QED BY <2>3, <2>4, <2>5
<1>2. Exact(e) /\ e.bytes <= Budget /\ writes <= MaxWrites
  BY DEF ExactInv
<1>3. Exact(cache'.entries)
  <2> HIDE DEF e
  <2> QED BY <1>1, <1>2, SameParts DEF Exact
<1> QED BY <1>1, <1>2, <1>3 DEF ExactInv

LEMMA MissExact == ASSUME IInv, ExactInv, NEW r \in Requests, Miss(r) PROVE ExactInv'
<1> PICK e, S : e = cache.entries /\ S = e.held \cap {want[r]}
  OBVIOUS
<1>1. cache'.entries = Without(e, S) /\ writes' = writes
  <2>1. cache = [entries |-> cache.entries, drops |-> cache.drops]
    BY DEF IInv, Types
  <2>2. cache' = [cache EXCEPT !.entries = Without(e, S)] /\ writes' = writes
    BY DEF Miss, writerVars
  <2> QED BY <2>1, <2>2
<1>2. Entries(e) /\ Exact(e) /\ e.bytes <= Budget /\ writes <= MaxWrites /\ S \in SUBSET e.held
  BY DEF IInv, Types, ExactInv
<1>3. /\ Exact(Without(e, S)) /\ Without(e, S).bytes <= e.bytes
      /\ Without(e, S).bytes = e.bytes - Weight(S) /\ Weight(S) \in Nat
  BY <1>2, ExactWithout
<1>4. e.bytes \in Nat /\ Budget \in Nat
  BY <1>2, WeightAdds, CacheAssumption DEF Exact, Entries
<1>5. Without(e, S).bytes <= Budget
  BY <1>2, <1>3, <1>4
<1> QED BY <1>1, <1>2, <1>3, <1>5 DEF ExactInv

LEMMA PutExact == ASSUME IInv, ExactInv, NEW r \in Requests, Put(r) PROVE ExactInv'
<1> PICK e, k, v : e = cache.entries /\ k = want[r] /\ v = body[r]
  OBVIOUS
<1>1. cache'.entries = Stored(e, k, v) /\ writes' = writes
  <2>1. cache = [entries |-> cache.entries, drops |-> cache.drops]
    BY DEF IInv, Types
  <2>2. cache' = [cache EXCEPT !.entries = Stored(e, k, v)] /\ writes' = writes
    BY DEF Put, writerVars
  <2> QED BY <2>1, <2>2
<1>2. Entries(e) /\ Exact(e) /\ k \in Keys /\ v \in Nat /\ writes <= MaxWrites
  BY DEF IInv, Types, ExactInv
<1>3. Exact(Stored(e, k, v)) /\ Stored(e, k, v).bytes <= Budget
  BY <1>2, ExactStored
<1> QED BY <1>1, <1>2, <1>3 DEF ExactInv

LEMMA DropExact == ASSUME IInv, ExactInv, NEW w \in Writers, Drop(w) PROVE ExactInv'
<1> PICK e : e = cache.entries
  OBVIOUS
<1>1. PICK call \in todo[w] :
        cache' = [entries |-> IF call = "Clear" THEN Empty ELSE Without(e, Dropped(e, call)),
                  drops |-> cache.drops + 1]
  BY DEF Drop
<1>2. PICK D : D = Dropped(e, call)
  OBVIOUS
<1>3. writes' = writes /\ writes <= MaxWrites /\ Entries(e) /\ Exact(e) /\ e.bytes <= Budget
  BY DEF Drop, ExactInv, IInv, Types
<1>4. CASE call = "Clear"
  <2>1. cache'.entries = Empty
    BY <1>1, <1>4
  <2>2. /\ Empty.held = {} /\ Empty.order = {} /\ Empty.bytes = 0
        /\ \A g \in Groups : Empty.index[g] = {}
    BY DEF Empty
  <2>3. IsFiniteSet({}) /\ Weight({}) = 0
    BY FS_EmptySet, WeightAdds
  <2>4. Listed({}, {})
    BY DEF Listed
  <2>5. \A g \in Groups : {k \in {} : GroupOf[k] = g} = {}
    OBVIOUS
  <2>6. Exact(Empty) /\ Empty.bytes <= Budget
    BY <2>2, <2>3, <2>4, <2>5, CacheAssumption DEF Exact
  <2> QED BY <1>3, <2>1, <2>6 DEF ExactInv
<1>5. CASE call # "Clear"
  <2>1. cache'.entries = Without(e, D)
    BY <1>1, <1>2, <1>5
  <2>2. D \in SUBSET e.held
    BY <1>2 DEF Dropped
  <2>3. /\ Exact(Without(e, D)) /\ Without(e, D).bytes <= e.bytes
        /\ Without(e, D).bytes = e.bytes - Weight(D) /\ Weight(D) \in Nat
    BY <1>3, <2>2, ExactWithout
  <2>4. e.bytes \in Nat /\ Budget \in Nat
    BY <1>3, WeightAdds, CacheAssumption DEF Exact, Entries
  <2>5. Without(e, D).bytes <= Budget
    BY <1>3, <2>3, <2>4
  <2> QED BY <1>3, <2>1, <2>3, <2>5 DEF ExactInv
<1> QED BY <1>4, <1>5

LEMMA CommitExact ==
    ASSUME IInv, ExactInv, NEW w, NEW c, NEW S, Commit(w, c, S)
    PROVE  ExactInv'
<1>1. cache' = cache /\ writes < MaxWrites /\ writes' = writes + 1 /\ writes \in Nat /\ MaxWrites \in Nat
  BY CacheAssumption DEF Commit, IInv, Types
<1>2. writes' <= MaxWrites
  BY <1>1
<1> QED BY <1>1, <1>2 DEF ExactInv

LEMMA NextExact == IInv /\ ExactInv /\ [Next]_vars => ExactInv'
<1> SUFFICES ASSUME IInv, ExactInv, [Next]_vars PROVE ExactInv'
  OBVIOUS
<1>1. ASSUME NEW r \in Requests, Answer(r) PROVE ExactInv'
  <2>1. CASE Hit(r)   BY <2>1, HitExact
  <2>2. CASE Miss(r)  BY <2>2, MissExact
  <2>3. CASE Put(r)   BY <2>3, PutExact
  <2>4. CASE Arrive(r) \/ Mark(r) \/ Build(r) \/ Pass(r) \/ Leave(r)
    <3>1. cache' = cache /\ writes' = writes
      BY <2>4 DEF Arrive, Mark, Build, Pass, Leave, writerVars
    <3> QED BY <3>1 DEF ExactInv
  <2> QED BY <1>1, <2>1, <2>2, <2>3, <2>4 DEF Answer
<1>2. ASSUME NEW w \in Writers, Change(w) PROVE ExactInv'
  <2>1. CASE Write(w)   BY <2>1, CommitExact DEF Write
  <2>2. CASE Import(w)  BY <2>2, CommitExact DEF Import
  <2>3. CASE Drop(w)    BY <2>3, DropExact
  <2>4. CASE Finish(w)
    <3>1. cache' = cache /\ writes' = writes
      BY <2>4 DEF Finish
    <3> QED BY <3>1 DEF ExactInv
  <2> QED BY <1>2, <2>1, <2>2, <2>3, <2>4 DEF Change
<1>3. ASSUME NEW k \in Keys, Expire(k) PROVE ExactInv'
  BY <1>3, ExpireExact
<1>4. CASE UNCHANGED vars
  BY <1>4 DEF vars, writerVars, ExactInv
<1> QED BY <1>1, <1>2, <1>3, <1>4 DEF Next

\* The parts of the cache agree, for any keys, sizes and budget: whatever is
\* stored, hit, expired, dropped or evicted, every entry is in the list once and
\* in the group that a write drops it by, and the count is the bytes of the
\* entries and within the budget (readcache.go, Put and removeLocked).
THEOREM PartsAgree == Spec => []IndexExact
<1>1. IInv /\ ExactInv => IndexExact
  <2> SUFFICES ASSUME IInv, ExactInv PROVE IndexExact
    OBVIOUS
  <2> PICK e : e = cache.entries
    OBVIOUS
  <2>1. /\ Entries(e) /\ Exact(e) /\ e.bytes <= Budget /\ writes \in Nat /\ writes <= MaxWrites
        /\ cache = [entries |-> e, drops |-> cache.drops] /\ cache.drops \in Nat
    BY DEF IInv, Types, ExactInv
  <2>2. e.bytes \in Nat
    BY <2>1, WeightAdds DEF Exact, Entries
  <2>3. e.order \in SUBSET (Keys \X Keys)
    BY <2>1 DEF Exact, Entries, Listed
  <2>4. e \in [held : SUBSET Keys, version : [Keys -> Nat], fresh : [Keys -> BOOLEAN],
               index : [Groups -> SUBSET Keys], order : SUBSET (Keys \X Keys), bytes : Nat]
    BY <2>1, <2>2, <2>3 DEF Entries
  <2>5. TypeOK
    BY <2>1, <2>4, CacheAssumption DEF IInv, Types, TypeOK
  <2>6. Listed(e.order, e.held) /\ e.order \subseteq e.held \X e.held
    BY <2>1 DEF Exact, Listed
  <2>7. IsStrictlyTotallyOrdered([p \in e.held \X e.held |-> p \in e.order], e.held)
    <3> PICK o, S : o = e.order /\ S = e.held
      OBVIOUS
    <3>1. IsStrictlyTotallyOrdered([p \in S \X S |-> p \in o], S)
      BY <2>6, ListedIsOrder
    <3> QED BY <3>1
  <2> QED BY <2>1, <2>5, <2>6, <2>7 DEF IndexExact, Exact
<1>2. Spec => []ExactInv
  BY InitExact, NextExact, Invariant, PTL DEF Spec
<1> QED BY <1>1, <1>2, Invariant, PTL
=============================================================================
